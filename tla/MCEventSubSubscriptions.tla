----------------------- MODULE MCEventSubSubscriptions ------------------------
(* The reconciler with one channel.                                        *)
EXTENDS EventSubSubscriptions, TLC

CONSTANTS Channel, Viewer

\* A viewer and the same person as a moderator, with rules that are not for
\* them among theirs; the broadcaster with rules for the channel, now muted.
MCRegValues ==
    {[user |-> Viewer, channels |-> {Channel}, mods |-> {}, rules |-> {"stream_online", "ban"},
      byChannel |-> <<>>, muted |-> {}],
     [user |-> Viewer, channels |-> {Channel}, mods |-> {Channel},
      rules |-> {"timeout", "subscription"}, byChannel |-> <<>>, muted |-> {}],
     [user |-> Channel, channels |-> {Channel}, mods |-> {Channel}, rules |-> {},
      byChannel |-> Channel :> {"automod_hold", "stream_online"}, muted |-> {Channel}]}

MCKey == [type |-> "online", channel |-> Channel, moderator |-> None]

\* Nothing; or what an earlier server left, one of them given up, and the
\* subscription of another server.
MCInitial ==
    {{},
     {[key |-> MCKey, id |-> 1, status |-> "failed", own |-> TRUE],
      [key |-> MCKey, id |-> 2, status |-> "enabled", own |-> TRUE],
      [key |-> MCKey, id |-> 3, status |-> "enabled", own |-> FALSE]}}
=============================================================================
