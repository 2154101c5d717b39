------------------------ MODULE EventSubSubscriptions -------------------------
(***************************************************************************)
(* The reconciler of the webhook subscriptions at Twitch: the background   *)
(* loop with its ticker and its channel of requests, the admin's calls     *)
(* beside it, and the registrations and subscriptions changing under them. *)
(*                                                                         *)
(* A subscription is a record of its key, an id (numbered per key), its    *)
(* status and whether it has this server's callback.                       *)
(***************************************************************************)
EXTENDS EventSubRouting, FiniteSets

CONSTANTS
    Installations,
    RegValues,      \* the registrations that devices may save
    Initial,        \* the possible subscriptions before the start
    Twitch,         \* the sender of revocation messages
    MaxIds,         \* bound: subscriptions of one key at a time
    MaxChanges,     \* bound: changes of registrations and calls of the admin
    MaxUpsets       \* bound: failures and crashes

Runners == {"loop", "admin"}
Keys == [type : EventTypes, channel : Channels,
         moderator : {r.user : r \in RegValues} \cup {None}]
Subscriptions == [key : Keys, id : 1..MaxIds, status : {"enabled", "pending", "failed"},
                  own : BOOLEAN]
SameId(s, t) == s.key = t.key /\ s.id = t.id

\* Twitch gives no id twice.
ASSUME SubsAssumption ==
    /\ MaxIds \in Nat /\ MaxChanges \in Nat /\ MaxUpsets \in Nat
    /\ Twitch \notin Installations /\ None \notin Runners
    /\ \A r \in RegValues :
          /\ DOMAIN r = {"user", "channels", "mods", "rules", "byChannel", "muted"}
          /\ r.channels \subseteq Channels
    /\ \A known \in Initial :
          known \subseteq Subscriptions /\ \A s, t \in known : SameId(s, t) => s = t

VARIABLES
    regs,       \* the registration of each installation, or None
    subs,       \* the subscriptions at Twitch
    asked,      \* Server.eventSubReconcile holds a request
    owed,       \* handlers that are about to request a reconciliation
    runs,       \* the reconciliation of the loop and that of the admin
    unread,     \* history: whose registrations changed since the loop last read them
    lost,       \* history: which of these changes no request is made for
    changes, upsets

bounds == <<changes, upsets>>
subsVars == <<regs, subs, asked, owed, runs, unread, lost, bounds>>

Upset == upsets < MaxUpsets /\ upsets' = upsets + 1
Change == changes < MaxChanges /\ changes' = changes + 1

\* alone says that neither the registrations nor the subscriptions were changed
\* by somebody else since the run read the registrations, blind that it could
\* not read them.
IdleRun ==
    [step |-> "idle", wipe |-> FALSE, want |-> {}, doomed |-> {}, todo |-> {},
     failed |-> FALSE, alone |-> TRUE, blind |-> FALSE]

SubsInit ==
    /\ regs \in [Installations -> {None}]
    /\ subs \in Initial
    /\ asked = FALSE /\ owed = {}
    /\ runs = [c \in Runners |-> IF c = "loop" THEN [IdleRun EXCEPT !.step = "read"] ELSE IdleRun]
    /\ unread = {} /\ lost = {}
    /\ changes = 0 /\ upsets = 0

Saved == {regs[i] : i \in Installations} \ {None}
Desired == UNION {DesiredOf(r) : r \in Saved}
Usable(s) == s.status \in {"enabled", "pending"}

Goto(c, step) == runs' = [runs EXCEPT ![c].step = step]

\* Somebody other than c changes what the runs work on.
Beside(c) == [x \in Runners |-> IF x = c THEN runs[x] ELSE [runs[x] EXCEPT !.alone = FALSE]]

-----------------------------------------------------------------------------
(* Registrations and requests.                                             *)

\* upsertRegistration, deleteRegistration and the revocations save first; the
\* request follows once the answer is written.  A commit that is reported as an
\* error, and a revocation that fails after it has deleted the registration, are
\* answered with an error and make no request.
SaveRegistration(i, r) ==
    /\ regs[i] # r
    /\ regs' = [regs EXCEPT ![i] = r]
    /\ unread' = unread \cup {i}
    /\ \/ owed' = owed \cup {i} /\ lost' = lost \ {i} /\ UNCHANGED upsets
       \/ lost' = lost \cup {i} /\ UNCHANGED owed /\ Upset
    /\ runs' = Beside(None)
    /\ Change
    /\ UNCHANGED <<subs, asked>>

\* Wrong on purpose, for mutation testing: a busy loop needs no request.
RequestReconcileIdle(h) ==
    /\ h \in owed
    /\ owed' = owed \ {h}
    /\ asked' = (asked \/ runs["loop"].step = "idle")
    /\ UNCHANGED <<regs, subs, runs, unread, lost, bounds>>

\* A request that finds the channel full is dropped.
RequestReconcile(h) ==
    /\ h \in owed
    /\ owed' = owed \ {h}
    /\ asked' = TRUE
    /\ UNCHANGED <<regs, subs, runs, unread, lost, bounds>>

-----------------------------------------------------------------------------
(* The loop: runEventSubReconciler.                                        *)

\* Wrong on purpose, for mutation testing: nothing happens without a request.
LoopTickAsked ==
    /\ runs["loop"].step = "idle"
    /\ IF asked THEN Goto("loop", "read") ELSE UNCHANGED runs
    /\ UNCHANGED <<regs, subs, asked, owed, unread, lost, bounds>>

\* The ticker of 15 minutes.
LoopTick ==
    /\ runs["loop"].step = "idle"
    /\ Goto("loop", "read")
    /\ UNCHANGED <<regs, subs, asked, owed, unread, lost, bounds>>

LoopWake ==
    /\ runs["loop"].step = "idle" /\ asked
    /\ asked' = FALSE
    /\ Goto("loop", "wait")
    /\ UNCHANGED <<regs, subs, owed, unread, lost, bounds>>

\* After 750 ms the requests that came in are taken together.
LoopDrain ==
    /\ runs["loop"].step = "wait"
    /\ asked' = FALSE
    /\ Goto("loop", "read")
    /\ UNCHANGED <<regs, subs, owed, unread, lost, bounds>>

\* adminReconcileEventSub and adminDeleteEventSubSubscriptions.
AdminBegin(wipe) ==
    /\ runs["admin"].step = "idle"
    /\ runs' = [runs EXCEPT !["admin"] =
            [IdleRun EXCEPT !.step = IF wipe THEN "list" ELSE "read", !.wipe = wipe]]
    /\ Change
    /\ UNCHANGED <<regs, subs, asked, owed, unread, lost, upsets>>

-----------------------------------------------------------------------------
(* eventSubManager.reconcile and deleteAllForCallback.                     *)

\* Server.store.List answers with nothing when its statement fails: then no
\* subscription is wanted.
ReadRegistrations(c) ==
    /\ runs[c].step = "read"
    /\ \/ /\ runs' = [runs EXCEPT ![c] = [IdleRun EXCEPT !.step = "list", !.want = Desired]]
          /\ unread' = IF c = "loop" THEN {} ELSE unread
          /\ lost' = IF c = "loop" THEN {} ELSE lost
          /\ UNCHANGED upsets
       \/ /\ runs' = [runs EXCEPT ![c] = [IdleRun EXCEPT !.step = "list", !.blind = TRUE]]
          /\ lost' = IF c = "loop" THEN unread ELSE lost
          /\ UNCHANGED unread
          /\ Upset
    /\ UNCHANGED <<regs, subs, asked, owed, changes>>

\* do: with a new token when Twitch refuses the old one.
TwitchFails == Upset

Ends(c) == runs' = [runs EXCEPT ![c] = IdleRun]

\* Wrong on purpose, for mutation testing: the callback is not compared.
ListAnyCallback(c) ==
    /\ runs[c].step = "list"
    /\ runs' = [runs EXCEPT ![c].step = "delete",
            ![c].doomed = {s \in subs : s.key \notin runs[c].want \/ ~Usable(s)},
            ![c].todo = runs[c].want \ {s.key : s \in {x \in subs : Usable(x)}}]
    /\ UNCHANGED <<regs, subs, asked, owed, unread, lost, bounds>>

\* Wrong on purpose, for mutation testing: whatever is wanted is kept.
ListKeepBroken(c) ==
    LET own == {s \in subs : s.own}
    IN  /\ runs[c].step = "list"
        /\ runs' = [runs EXCEPT ![c].step = "delete",
                ![c].doomed = {s \in own : s.key \notin runs[c].want},
                ![c].todo = runs[c].want \ {s.key : s \in own}]
        /\ UNCHANGED <<regs, subs, asked, owed, unread, lost, bounds>>

\* The pages of the listing; of the usable subscriptions with a wanted key the
\* first is kept.
ListSubscriptions(c) ==
    LET own == {s \in subs : s.own}
        usable == {s \in own : s.key \in runs[c].want /\ Usable(s)}
    IN  /\ runs[c].step = "list"
        /\ \/ \E kept \in SUBSET usable :
                /\ \A k \in {s.key : s \in usable} : \E s \in kept : s.key = k
                /\ \A s, t \in kept : s.key = t.key => s = t
                /\ runs' = [runs EXCEPT ![c].step = "delete", ![c].doomed = own \ kept,
                                ![c].todo = runs[c].want \ {s.key : s \in kept}]
                /\ UNCHANGED upsets
           \/ TwitchFails /\ Ends(c)
        /\ UNCHANGED <<regs, subs, asked, owed, unread, lost, changes>>

\* A subscription that is gone already is no error; one that cannot be deleted
\* blocks its key, and ends a deletion of all.
DeleteSubscription(c, s) ==
    /\ runs[c].step = "delete" /\ s \in runs[c].doomed
    /\ \/ /\ subs' = {x \in subs : ~SameId(x, s)}
          /\ runs' = [(IF subs' = subs THEN runs ELSE Beside(c)) EXCEPT ![c].doomed = @ \ {s}]
          /\ UNCHANGED upsets
       \/ /\ TwitchFails
          /\ IF runs[c].wipe THEN Ends(c)
             ELSE runs' = [runs EXCEPT ![c].doomed = @ \ {s}, ![c].todo = @ \ {s.key},
                                       ![c].failed = TRUE]
          /\ UNCHANGED subs
    /\ UNCHANGED <<regs, asked, owed, unread, lost, changes>>

\* The next number that neither a subscription nor a listing in use has.
UnusedIds(k) ==
    1..MaxIds \ {s.id : s \in {x \in subs \cup UNION {runs[c].doomed : c \in Runners} : x.key = k}}

\* Wrong on purpose, for mutation testing: with a status that nobody knows.
NewSubCreated(k, id) == [key |-> k, id |-> id, status |-> "created", own |-> TRUE]

NewSub(k, id) == [key |-> k, id |-> id, status |-> "pending", own |-> TRUE]

\* Twitch refuses a second usable subscription.  The answer to a creation may be
\* lost.
CreateSubscription(c, k) ==
    LET taken == \E s \in subs : s.own /\ s.key = k /\ Usable(s)
        add(failed) == \E id \in UnusedIds(k) :
            /\ \A other \in UnusedIds(k) : id <= other
            /\ subs' = subs \cup {NewSub(k, id)}
            /\ runs' = [Beside(c) EXCEPT ![c].todo = @ \ {k}, ![c].failed = @ \/ failed]
    IN  /\ runs[c].step = "delete" /\ runs[c].doomed = {} /\ k \in runs[c].todo
        /\ \/ ~taken /\ add(FALSE) /\ UNCHANGED upsets
           \/ ~taken /\ add(TRUE) /\ TwitchFails
           \/ /\ IF taken THEN UNCHANGED upsets ELSE TwitchFails
              /\ runs' = [runs EXCEPT ![c].todo = @ \ {k}, ![c].failed = TRUE]
              /\ UNCHANGED subs
        /\ UNCHANGED <<regs, asked, owed, unread, lost, changes>>

ReconcileEnd(c) ==
    /\ runs[c].step = "delete" /\ runs[c].doomed = {} /\ runs[c].todo = {}
    /\ Ends(c)
    /\ UNCHANGED <<regs, subs, asked, owed, unread, lost, bounds>>

RunStep(c) ==
    \/ ReadRegistrations(c) \/ ListSubscriptions(c) \/ ReconcileEnd(c)
    \/ \E s \in runs[c].doomed : DeleteSubscription(c, s)
    \/ \E k \in runs[c].todo : CreateSubscription(c, k)

-----------------------------------------------------------------------------
(* Twitch, crashes, and the whole.                                         *)

Becomes(s, status) == subs' = (subs \ {s}) \cup {[s EXCEPT !.status = status]}

\* The challenge is answered by the webhook.
Verified(s) ==
    /\ s \in subs /\ s.status = "pending"
    /\ Becomes(s, "enabled")
    /\ UNCHANGED <<regs, asked, owed, runs, unread, lost, bounds>>

\* Twitch gives a subscription up.  A revoked one is reported to the webhook,
\* which then requests a reconciliation.
GivenUp(s) ==
    /\ s \in subs /\ Usable(s)
    /\ Becomes(s, "failed")
    /\ owed' = IF s.status = "enabled" /\ s.own THEN owed \cup {Twitch} ELSE owed
    /\ runs' = Beside(None)
    /\ Upset
    /\ UNCHANGED <<regs, asked, unread, lost, changes>>

\* The new process begins with a reconciliation.
SubsCrash ==
    /\ asked' = FALSE /\ owed' = owed \cap {Twitch}
    /\ runs' = [c \in Runners |-> IF c = "loop" THEN [IdleRun EXCEPT !.step = "read"] ELSE IdleRun]
    /\ Upset
    /\ UNCHANGED <<regs, subs, unread, lost, changes>>

SubsNext ==
    \/ \E i \in Installations, r \in RegValues \cup {None} : SaveRegistration(i, r)
    \/ \E h \in owed : RequestReconcile(h)
    \/ LoopTick \/ LoopWake \/ LoopDrain
    \/ \E wipe \in BOOLEAN : AdminBegin(wipe)
    \/ \E c \in Runners : RunStep(c)
    \/ \E s \in subs : Verified(s) \/ GivenUp(s)
    \/ SubsCrash

SubsSpec == SubsInit /\ [][SubsNext]_subsVars

\* The goroutine of the loop, its ticker and the handlers are scheduled.
SubsFairness ==
    /\ WF_subsVars(LoopTick) /\ WF_subsVars(LoopDrain)
    /\ \A c \in Runners : WF_subsVars(RunStep(c))

SubsFairSpec == SubsSpec /\ SubsFairness

-----------------------------------------------------------------------------
(* Properties.                                                             *)

\* The type of the state.
SubsTypeOK ==
    /\ regs \in [Installations -> RegValues \cup {None}]
    /\ subs \subseteq Subscriptions
    /\ asked \in BOOLEAN /\ owed \subseteq Installations \cup {Twitch}
    /\ unread \subseteq Installations /\ lost \subseteq unread
    /\ \A c \in Runners :
          /\ runs[c].step \in {"idle", "wait", "read", "list", "delete"}
          /\ runs[c].want \subseteq Keys /\ runs[c].todo \subseteq runs[c].want
          /\ runs[c].doomed \subseteq Subscriptions
    /\ changes \in 0..MaxChanges /\ upsets \in 0..MaxUpsets

\* The loop overlooks no change of a registration that a request follows,
\* although a request that finds the channel full is dropped and several requests
\* are taken together: as long as the loop has not read the change, a request is
\* waiting, the handler is about to make one, or the loop is about to read.  The
\* changes left to the ticker are those of handlers that failed after they saved,
\* and those that a List of the loop did not find because it failed.
RequestNotLost ==
    \A i \in unread \ lost :
        asked \/ i \in owed \/ runs["loop"].step \in {"wait", "read"}

Live == {s \in subs : s.own /\ Usable(s)}

\* Every event that a registration is entitled to and that notifies it arrives.
Covered ==
    \A r \in Saved, e \in Events :
        Notifies(e, r) /\ Entitled(r, e.type, e.channel) =>
            \E s \in Live : s.key.type = e.type /\ s.key.channel = e.channel

\* Every subscription has a registration that one of its events would notify,
\* were the channel not muted, and there is one per key.
NoneIdle ==
    /\ \A s \in Live : \E r \in Saved, e \in Events :
          /\ s.key = SpecKey(r, e.type, e.channel)
          /\ Notifies(e, [r EXCEPT !.muted = {}]) /\ Entitled(r, e.type, e.channel)
    /\ \A s, t \in Live : s.key = t.key => s = t

\* A reconciliation that could read the registrations and reports no failure,
\* while nobody else changed anything, leaves Twitch with what the registrations
\* are routed by: no event is missing (muted channels keep their subscriptions)
\* and nothing is subscribed in vain.
ReconciledStep ==
    \A c \in Runners :
        /\ runs[c].step = "delete" /\ runs'[c].step = "idle"
        /\ ~runs[c].failed /\ runs[c].alone /\ ~runs[c].blind
        /\ ~runs[c].wipe /\ upsets' = upsets
        => Covered' /\ NoneIdle'

Reconciled == [][ReconciledStep]_subsVars

\* A subscription that delivers wanted events is deleted only by the admin's
\* deletion of all, by a run that something else overlapped or by one that could
\* not read the registrations, and the subscriptions of another callback are
\* never touched.
CoverageLossStep ==
    \A s \in subs :
        \/ \E t \in subs' : t.key = s.key /\ t.own = s.own /\ (Usable(t) \/ ~Usable(s))
        \/ upsets' # upsets
        \/ /\ s.own
           /\ \/ ~Usable(s) \/ s.key \notin Desired
              \/ \E c \in Runners : /\ runs[c].step = "delete"
                                   /\ (runs[c].wipe \/ ~runs[c].alone \/ runs[c].blind)

CoverageLossExplained == [][CoverageLossStep]_subsVars

\* Once registrations, admins and failures come to rest, Twitch has exactly the
\* subscriptions that the registrations call for, from some time on: the ticker
\* repairs what a failed run, a run on stale registrations or a failed List
\* left behind.
Converges == <>[](Covered /\ NoneIdle)
=============================================================================
