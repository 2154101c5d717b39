------------------------------ MODULE MCUserChat ------------------------------
(* The chat sessions of two users.                                         *)
EXTENDS UserChat, TLC

MCReg(u, channels, rules, byChannel) ==
    [user |-> u, channels |-> channels, mods |-> {}, rules |-> rules, byChannel |-> byChannel,
     muted |-> {}]

\* User 1 watches all channels; user 2 the second one, and the third not, where
\* the rules are others; a registration without a session watches none.
MCRegValues ==
    {MCReg(1, Channels, {}, <<>>), MCReg(2, Channels \ {1}, {"mention"}, 3 :> {"raid"}),
     MCReg(None, Channels, {}, <<>>)}
=============================================================================
