----------------------------- MODULE MCPushSystem -----------------------------
(* Small instances of PushSystem for TLC.                                  *)
EXTENDS PushSystem, TLC

\* Events are numbers here: each names its own time to live.
MCTTL == [e \in Events |-> e]
MCSymmetry == Permutations(Conns)
=============================================================================
