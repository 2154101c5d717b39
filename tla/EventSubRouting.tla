--------------------------- MODULE EventSubRouting ----------------------------
(***************************************************************************)
(* The rules that decide which subscriptions the registrations call for    *)
(* and which registrations an event notifies.                              *)
(*                                                                         *)
(* A registration is a record of its user (None without a session), its    *)
(* channels, those of them its user moderates, its rules (none means       *)
(* every rule), the rules of single channels, which replace them there,    *)
(* and the channels that are muted for the time being.  One type of event  *)
(* stands for the three types of channel.subscribe.                        *)
(***************************************************************************)
EXTENDS Naturals

CONSTANTS
    Channels,   \* broadcaster ids
    None        \* no value

RulesOf ==
    [hold |-> {"automod_hold"}, moderate |-> {"moderation_action"}, ban |-> {"ban", "timeout"},
     online |-> {"stream_online"}, update |-> {"title_change", "game_change"},
     raid |-> {"raid"}, reward |-> {"reward"}, subscribe |-> {"subscription"}]
EventTypes == DOMAIN RulesOf

ChatRules == {"reply", "mention", "selected_user", "highlight"}

RuleEnabled(r, rule) == r.rules = {} \/ rule \in r.rules

RuleConfiguredForChannel(r, rule, ch) ==
    IF ch \in DOMAIN r.byChannel THEN rule \in r.byChannel[ch] ELSE RuleEnabled(r, rule)

RuleEnabledForChannel(r, rule, ch) == ch \notin r.muted /\ RuleConfiguredForChannel(r, rule, ch)

AnyRuleForChannel(r, ch, rules) == \E rule \in rules : RuleConfiguredForChannel(r, rule, ch)

\* The subscriptions of a registration's channel that need a moderator or the
\* broadcaster.
Entitled(r, type, ch) ==
    /\ type \in {"hold", "moderate"} => r.user # None
    /\ type \in {"hold", "moderate", "ban"} => ch \in r.mods
    /\ type \in {"reward", "subscribe"} => r.user = ch

\* eventSubSpecKey: the type and the condition.
SpecKey(r, type, ch) ==
    [type |-> type, channel |-> ch,
     moderator |-> IF type \in {"hold", "moderate"} THEN r.user ELSE None]

DesiredOf(r) ==
    {SpecKey(r, w[1], w[2]) :
        w \in {x \in EventTypes \X r.channels :
                  Entitled(r, x[1], x[2]) /\ AnyRuleForChannel(r, x[2], RulesOf[x[1]])}}

\* An event matches some rules of its type: a channel.ban is a ban or a timeout, a
\* channel.update changes the title, the game or both.
Events ==
    UNION {[type : {type}, channel : Channels,
            rules : IF type = "update" THEN (SUBSET RulesOf[type]) \ {{}}
                    ELSE {{rule} : rule \in RulesOf[type]}] : type \in EventTypes}

\* eventNotificationForRegistration.
Notifies(e, r) ==
    /\ e.channel \in r.channels
    /\ \E rule \in e.rules : RuleEnabledForChannel(r, rule, e.channel)

\* chatMessageNotification of a message that stands in the relations rules to
\* the registration; its own user's messages are left out.
ChatNotifies(author, ch, rules, r) ==
    /\ ch \in r.channels
    /\ r.user = None \/ author # r.user
    /\ \E rule \in rules : RuleEnabledForChannel(r, rule, ch)
=============================================================================
