------------------------------- MODULE UserChat -------------------------------
(***************************************************************************)
(* The chat sessions: a manager that reads the registrations every ten     *)
(* seconds, assigns each watched channel to one of the users who watch it  *)
(* and runs one session per user, and the goroutines of the sessions with  *)
(* their connection to Twitch.                                             *)
(*                                                                         *)
(* Users and channels are numbers, as their ids are compared.  The waiting *)
(* between two attempts of a session is left out.                          *)
(***************************************************************************)
EXTENDS EventSubRouting, FiniteSets

CONSTANTS
    Users,
    Installations,
    RegValues,      \* the registrations that devices may save
    Lives,          \* bound: numbers of a user's sessions that overlap
    MaxChannels,    \* maxUserChatChannels, 100 in the code
    MaxChanges,     \* bound: changes of registrations and sign-ins
    MaxUpsets       \* bound: failures, reconnections, crashes and sign-outs

ASSUME ChatAssumption ==
    /\ MaxChannels \in Nat /\ MaxChanges \in Nat /\ MaxUpsets \in Nat
    /\ Users \subseteq Nat /\ Channels \subseteq Nat /\ Lives \subseteq Nat
    /\ IsFiniteSet(Users) /\ IsFiniteSet(Channels) /\ None \notin Lives
    /\ \A r \in RegValues : r.user \in Users \cup {None}

VARIABLES
    regs,       \* the registration of each installation, or None
    signedIn,   \* the users with an active session and a token that can be leased
    sessions,   \* userChatEventSubManager.sessions: the live session of each user, or None
    lives,      \* the goroutine of each session
    changes, upsets

chatVars == <<regs, signedIn, sessions, lives, changes, upsets>>

Upset == upsets < MaxUpsets /\ upsets' = upsets + 1
Change == changes < MaxChanges /\ changes' = changes + 1

\* url is the endpoint of the next connection, held what Twitch keeps for it, subs
\* the subscriptions of the connection.
NoLife ==
    [step |-> "none", cancelled |-> FALSE, channels |-> {}, url |-> "main", held |-> {},
     resubscribe |-> TRUE, todo |-> {}, subs |-> {}, failed |-> FALSE]

ChatInit ==
    /\ regs = [i \in Installations |-> None]
    /\ signedIn \in SUBSET Users
    /\ sessions = [u \in Users |-> None]
    /\ lives = [s \in Users \X Lives |-> NoLife]
    /\ changes = 0 /\ upsets = 0

-----------------------------------------------------------------------------
(* assignUserChatChannels.                                                 *)

Saved == {regs[i] : i \in Installations} \ {None}

WatchersOf(saved, ch) ==
    {r.user : r \in {x \in saved : x.user # None /\ ch \in x.channels
                                   /\ AnyRuleForChannel(x, ch, ChatRules)}}

\* The channels with the fewest watchers come first.
Before(saved, a, b) ==
    LET n(ch) == Cardinality(WatchersOf(saved, ch))
    IN  n(a) < n(b) \/ (n(a) = n(b) /\ a < b)

\* Wrong on purpose, for mutation testing: only the first candidate is tried.
PickFirst(load, candidates) ==
    {u \in candidates :
        load[u] < MaxChannels /\ \A v \in candidates : u <= v}

\* Of the candidates with the fewest channels the first, when it has room.
Pick(load, candidates) ==
    {u \in candidates :
        /\ load[u] < MaxChannels
        /\ \A v \in candidates : load[u] < load[v] \/ (load[u] = load[v] /\ u <= v)}

\* One channel after the other is given to the candidate that is picked for it,
\* which has a load of what it was given before.
Given(saved, taker) ==
    \A ch \in Channels :
        LET load == [u \in Users |->
                Cardinality({c \in Channels : Before(saved, c, ch) /\ u \in taker[c]})]
        IN  taker[ch] = Pick(load, WatchersOf(saved, ch))

\* The assignments for the registrations that there can be.
Assignments ==
    {[saved |-> saved, taker |-> CHOOSE f \in [Channels -> SUBSET Users] : Given(saved, f)] :
        saved \in SUBSET RegValues}

Assign(saved) ==
    LET a == CHOOSE x \in Assignments : x.saved = saved
    IN  [u \in Users |-> {ch \in Channels : u \in a.taker[ch]}]

-----------------------------------------------------------------------------
(* Registrations and who is signed in.                                     *)

\* A registration is saved for the user of the installation's active session.
SaveRegistration(i, r) ==
    /\ regs[i] # r
    /\ r # None /\ r.user # None => r.user \in signedIn
    /\ regs' = [regs EXCEPT ![i] = r]
    /\ Change
    /\ UNCHANGED <<signedIn, sessions, lives, upsets>>

SignIn(u) ==
    /\ u \notin signedIn
    /\ signedIn' = signedIn \cup {u}
    /\ Change
    /\ UNCHANGED <<regs, sessions, lives, upsets>>

\* deleteMobileSession, the expiry of the last session, or Twitch refusing the
\* refresh token for good.  The user's registrations stay.
SignOut(u) ==
    /\ u \in signedIn
    /\ signedIn' = signedIn \ {u}
    /\ Upset
    /\ UNCHANGED <<regs, sessions, lives, changes>>

-----------------------------------------------------------------------------
(* The manager.                                                            *)

NewLife(channels) == [NoLife EXCEPT !.step = "lease", !.channels = channels]

FreeLives(u) == {n \in Lives : lives[<<u, n>>].step = "none"}

FirstFree(u) == CHOOSE n \in FreeLives(u) : \A other \in FreeLives(u) : n <= other

Same(u, desired) == sessions[u] # None /\ lives[<<u, sessions[u]>>].channels = desired[u]

\* Wrong on purpose, for mutation testing: a replaced session is not cancelled.
CancelledNone(s) == lives[s]

Cancelled(s) == [lives[s] EXCEPT !.cancelled = TRUE]

\* A session whose channels are the same goes on; the others are cancelled, and
\* new ones started without waiting for their end.
Apply(desired) ==
    LET started == {u \in Users : ~Same(u, desired) /\ desired[u] # {}}
        next == [u \in Users |-> IF u \in started THEN FirstFree(u)
                                 ELSE IF Same(u, desired) THEN sessions[u] ELSE None]
    IN  /\ \A u \in started : FreeLives(u) # {}
        /\ sessions' = next
        /\ lives' = [s \in Users \X Lives |->
                IF s[2] = sessions[s[1]] /\ ~Same(s[1], desired) THEN Cancelled(s)
                ELSE IF s[1] \in started /\ s[2] = next[s[1]] THEN NewLife(desired[s[1]])
                ELSE lives[s]]

\* List answers with nothing when its statement fails, and every session stops.
ReconcileChat ==
    /\ \/ Apply(Assign(Saved)) /\ UNCHANGED upsets
       \/ Apply(Assign({})) /\ Upset
    /\ UNCHANGED <<regs, signedIn, changes>>

-----------------------------------------------------------------------------
(* runSession, serveConnection and createChatSubscriptions.                *)

Live(s) == ~lives[s].cancelled
Becomes(s, life) ==
    /\ lives' = [lives EXCEPT ![s] = life]
    /\ UNCHANGED <<regs, signedIn, sessions, changes>>

\* Wrong on purpose, for mutation testing: the subscriptions are not renewed.
StartOverBare(s) == [lives[s] EXCEPT !.step = "lease", !.url = "main", !.held = {}, !.subs = {},
                                     !.todo = {}, !.failed = FALSE]

\* Wrong on purpose, for mutation testing: the endpoint is the reconnect URL that
\* Twitch did not send.
StartOverNowhere(s) == [NewLife(lives[s].channels) EXCEPT !.url = "none"]

\* Wrong on purpose, for mutation testing: the session goes on with the same URL.
StartOverThere(s) ==
    LET life == lives[s]
    IN  [NewLife(life.channels) EXCEPT !.url = life.url, !.held = life.held,
                                       !.resubscribe = life.resubscribe]

\* After an error the session begins again at the usual endpoint.
StartOver(s) == NewLife(lives[s].channels)

\* CredentialForUser and the lease of the token.  Without an active session of
\* the user there is no credential: the goroutine waits and asks again, for as
\* long as it takes.  A session that was cancelled ends here and wherever it
\* waits.
SessionLease(s) ==
    /\ lives[s].step = "lease" /\ Live(s)
    /\ \/ /\ s[1] \in signedIn
          /\ Becomes(s, [lives[s] EXCEPT !.step = "dial"])
          /\ UNCHANGED upsets
       \/ UNCHANGED <<regs, signedIn, sessions, lives, changes>> /\ Upset

\* The connection and the welcome.  Without resubscribe the subscriptions are
\* those that Twitch kept for the URL; a URL that is too old is refused.
SessionDial(s) ==
    LET life == lives[s]
    IN  /\ life.step = "dial" /\ Live(s)
        /\ \/ /\ life.url = "reconnect" => life.held # {}
              /\ IF life.resubscribe
                   THEN Becomes(s, [life EXCEPT !.step = "first", !.todo = life.channels])
                   ELSE Becomes(s, [life EXCEPT !.step = "up", !.subs = life.held, !.held = {}])
              /\ UNCHANGED upsets
           \/ /\ life.url = "reconnect" /\ life.held = {}
              /\ Becomes(s, StartOver(s)) /\ UNCHANGED upsets
           \/ Becomes(s, StartOver(s)) /\ Upset

\* The first subscription alone; its failure is the connection's.  A conflict is
\* no failure, here and for the others: Twitch answers so when this connection
\* has the subscription.
SubscribeFirst(s) ==
    LET life == lives[s]
        first == CHOOSE ch \in life.todo : \A other \in life.todo : ch <= other
    IN  /\ life.step = "first" /\ Live(s)
        /\ \/ Becomes(s, [life EXCEPT !.step = "rest", !.todo = @ \ {first}, !.subs = {first}])
              /\ UNCHANGED upsets
           \/ Becomes(s, StartOver(s)) /\ Upset

\* The others by four workers, in any order; all are tried.
SubscribeRest(s, ch) ==
    LET life == lives[s]
    IN  /\ life.step = "rest" /\ ch \in life.todo /\ Live(s)
        /\ \/ Becomes(s, [life EXCEPT !.todo = @ \ {ch}, !.subs = @ \cup {ch}])
              /\ UNCHANGED upsets
           \/ Becomes(s, [life EXCEPT !.todo = @ \ {ch}, !.failed = TRUE]) /\ Upset

\* One failure closes the connection.
Subscribed(s) ==
    LET life == lives[s]
    IN  /\ life.step = "rest" /\ life.todo = {} /\ Live(s)
        /\ Becomes(s, IF life.failed THEN StartOver(s) ELSE [life EXCEPT !.step = "up"])
        /\ UNCHANGED upsets

\* Twitch asks to reconnect, and keeps the subscriptions for the new URL.  It
\* does so only after the welcome, when they have been made.
SessionReconnect(s) ==
    /\ lives[s].step = "up" /\ Live(s)
    /\ Becomes(s, [lives[s] EXCEPT !.step = "lease", !.url = "reconnect",
                                   !.resubscribe = FALSE, !.held = lives[s].subs, !.subs = {}])
    /\ Upset

\* It does not keep them for long.
UrlExpires(s) ==
    /\ lives[s].held # {}
    /\ Becomes(s, [lives[s] EXCEPT !.held = {}])
    /\ UNCHANGED upsets

\* The connection breaks, is silent for too long, or a subscription is revoked.
SessionBreaks(s) ==
    /\ lives[s].step = "up" /\ Live(s)
    /\ Becomes(s, StartOver(s))
    /\ Upset

\* A cancelled session closes its connection and ends.
SessionEnd(s) ==
    /\ lives[s].cancelled
    /\ Becomes(s, NoLife)
    /\ UNCHANGED upsets

ChatCrash ==
    /\ sessions' = [u \in Users |-> None]
    /\ lives' = [s \in Users \X Lives |-> NoLife]
    /\ Upset
    /\ UNCHANGED <<regs, signedIn, changes>>

SessionStep(s) ==
    \/ SessionLease(s) \/ SessionDial(s) \/ SubscribeFirst(s)
    \/ \E ch \in lives[s].todo : SubscribeRest(s, ch)
    \/ Subscribed(s) \/ SessionEnd(s)

ChatNext ==
    \/ \E i \in Installations, r \in RegValues \cup {None} : SaveRegistration(i, r)
    \/ \E u \in Users : SignIn(u) \/ SignOut(u)
    \/ ReconcileChat
    \/ \E s \in Users \X Lives :
          SessionStep(s) \/ SessionReconnect(s) \/ UrlExpires(s) \/ SessionBreaks(s)
    \/ ChatCrash

ChatSpec == ChatInit /\ [][ChatNext]_chatVars

\* The ticker and the goroutines are scheduled, and calls of Twitch return.
ChatFairSpec ==
    /\ ChatSpec
    /\ WF_chatVars(ReconcileChat)
    /\ \A s \in Users \X Lives : WF_chatVars(SessionStep(s))

-----------------------------------------------------------------------------
(* Properties.                                                             *)

Life ==
    [step : {"none", "lease", "dial", "first", "rest", "up"}, cancelled : BOOLEAN,
     channels : SUBSET Channels, url : {"main", "reconnect"}, held : SUBSET Channels,
     resubscribe : BOOLEAN, todo : SUBSET Channels, subs : SUBSET Channels, failed : BOOLEAN]

\* The type of the state.
ChatTypeOK ==
    /\ regs \in [Installations -> RegValues \cup {None}]
    /\ signedIn \in SUBSET Users
    /\ sessions \in [Users -> Lives \cup {None}]
    /\ lives \in [Users \X Lives -> Life]
    /\ changes \in 0..MaxChanges /\ upsets \in 0..MaxUpsets

\* A session that listens has all of its subscriptions, made after the welcome or
\* taken over with a reconnection, whatever failed on the way.
UpMeansSubscribed == \A s \in DOMAIN lives : lives[s].step = "up" => lives[s].subs = lives[s].channels

\* The goroutines that are not cancelled are the manager's sessions, and no two of
\* them have a channel in common: only a session that is ending can hear a
\* message a second time.
SoleListener ==
    /\ \A s \in DOMAIN lives :
          lives[s].step # "none" /\ Live(s) <=> sessions[s[1]] = s[2]
    /\ \A s, t \in DOMAIN lives :
          s # t /\ Live(s) /\ Live(t) => lives[s].channels \cap lives[t].channels = {}

\* The assignment leaves a watched channel out only when all who watch it have
\* their fill, and gives it to one of them otherwise, within the limit.
AssignmentSound ==
    LET assigned == Assign(Saved)
    IN  /\ \A u \in Users : Cardinality(assigned[u]) <= MaxChannels
        /\ \A ch \in Channels :
              LET takers == {u \in Users : ch \in assigned[u]}
              IN  /\ Cardinality(takers) <= 1 /\ takers \subseteq WatchersOf(Saved, ch)
                  /\ takers = {} => \A u \in WatchersOf(Saved, ch) :
                                        Cardinality(assigned[u]) = MaxChannels

\* Every message that would notify a registration is heard, when its channel was
\* given to a user who is signed in.
Heard ==
    \A r \in Saved, ch \in Channels, author \in Users, rule \in ChatRules :
        /\ ChatNotifies(author, ch, {rule}, r) /\ r.user # None
        /\ \E u \in signedIn : ch \in Assign(Saved)[u]
        => \E s \in DOMAIN lives : Live(s) /\ lives[s].step = "up" /\ ch \in lives[s].subs

\* Once registrations, sessions and failures come to rest, every message of a
\* watched channel is heard from some time on, and no cancelled session is left.
\* This is not promised of a channel that was given to a user without an active
\* session: the assignment does not ask who is signed in, so that such a channel
\* stays unheard although another watcher could listen.
ChatCovered == <>[](Heard /\ \A s \in DOMAIN lives : Live(s))
=============================================================================
