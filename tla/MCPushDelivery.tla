---------------------------- MODULE MCPushDelivery ----------------------------
(* Small instances of PushDelivery for TLC.                                *)
EXTENDS PushDelivery, TLC

\* Events are numbers here: each names its own time to live.
MCTTL == [e \in Events |-> e]
MCSymmetry == Permutations(Producers)
=============================================================================
