--------------------------- MODULE MCEventSubInbox ----------------------------
(* Small instances of EventSubInbox for TLC.                               *)
EXTENDS EventSubInbox, TLC

\* Message 1 is no channel.update; the others carry a channel state each.
MCTitle == [m \in Messages |-> IF m = 1 THEN None ELSE m]
MCSymmetry == Permutations(Workers) \cup Permutations(Installations) \cup Permutations(Hooks)
=============================================================================
