---------------------------- MODULE MCSettingsSync ----------------------------
(* Settings sync with a few devices.                                       *)
EXTENDS SettingsSync, TLC

MCSymmetry == Permutations(Clients) \cup Permutations(Hashes)
=============================================================================
