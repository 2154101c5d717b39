----------------------------- MODULE MCMobileAuth -----------------------------
(* The OAuth broker with two sign-ins.                                     *)
EXTENDS MobileAuth, TLC

CONSTANT Apart      \* the device with an installation of its own

\* The other devices are one installation with different device secrets.
MCInstallation == [d \in Devices |-> IF d = Apart THEN "apart" ELSE "shared"]

\* The credentials fall on one lock: the coarsest case.
MCStripe == [n \in Attempts |-> 0]

MCSymmetry ==
    Permutations(Calls) \cup Permutations(Users) \cup Permutations(Attempts) \cup Permutations(Devices \ {Apart})
=============================================================================
