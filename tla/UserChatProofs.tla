---------------------------- MODULE UserChatProofs ----------------------------
(***************************************************************************)
(* A chat session that listens has all of its subscriptions, the           *)
(* assignment of the channels is sound, and no two sessions that are not   *)
(* cancelled have a channel in common, for any users, channels,            *)
(* registrations and number of failures.                                   *)
(***************************************************************************)
EXTENDS UserChat, FiniteSetTheorems, WellFoundedInduction, TLAPS

\* What the steps of a session leave for those that follow.
LifeOK(l) ==
    /\ l \in Life
    /\ l.step # "none" => l.channels # {}
    /\ ~l.resubscribe => l.url = "reconnect"
    /\ l.held # {} => l.held = l.channels
    /\ l.step = "first" => l.todo = l.channels
    /\ l.step = "rest" => l.failed \/ l.todo \cup l.subs = l.channels
    /\ l.step = "up" => l.subs = l.channels

ChatInv == ChatTypeOK /\ \A s \in Users \X Lives : LifeOK(lives[s])

\* A set of numbers that is not empty has a first one.
LEMMA FirstExists ==
    ASSUME NEW S, S \subseteq Nat, S # {}
    PROVE  \E n \in S : \A m \in S : n <= m
<1> DEFINE R == {p \in Nat \X Nat : p[1] < p[2]}
<1>1. IsWellFoundedOn(R, Nat)
  BY NatLessThanWellFounded DEF OpToRel
<1>2. PICK n \in S : \A m \in S : <<m, n>> \notin R
  <2> HIDE DEF R
  <2> QED
    BY <1>1, WFMin
<1>3. ASSUME NEW m \in S
      PROVE  n <= m
  <2>1. m \in Nat /\ n \in Nat
    OBVIOUS
  <2>2. ~(m < n)
    BY <1>2, <2>1
  <2> QED
    BY <2>1, <2>2
<1> QED
  BY <1>3

\* A session begins with everything to do.
LEMMA NewLifeOK ==
    ASSUME NEW channels, channels \subseteq Channels, channels # {}
    PROVE  LifeOK(NewLife(channels))
  BY DEF LifeOK, NewLife, NoLife, Life

\* A session that is not there is in order.
LEMMA NoLifeOK == LifeOK(NoLife)
  BY DEF LifeOK, NoLife, Life

\* A cancelled session is as it was.
LEMMA CancelledOK ==
    ASSUME NEW l, LifeOK(l)
    PROVE  LifeOK([l EXCEPT !.cancelled = TRUE])
  BY DEF LifeOK, Life

\* The session stays a session after each of its steps.
LEMMA StepsOK ==
    ASSUME NEW l, LifeOK(l), l.step # "none"
    PROVE  /\ l.step = "lease" => LifeOK([l EXCEPT !.step = "dial"])
           /\ l.step = "dial" /\ l.resubscribe =>
                 LifeOK([l EXCEPT !.step = "first", !.todo = l.channels])
           /\ l.step = "dial" /\ ~l.resubscribe /\ l.held # {} =>
                 LifeOK([l EXCEPT !.step = "up", !.subs = l.held, !.held = {}])
           /\ l.step = "rest" /\ ~l.failed /\ l.todo = {} => LifeOK([l EXCEPT !.step = "up"])
           /\ l.step = "up" =>
                 LifeOK([l EXCEPT !.step = "lease", !.url = "reconnect",
                                  !.resubscribe = FALSE, !.held = l.subs, !.subs = {}])
           /\ LifeOK([l EXCEPT !.held = {}])
<1>1. l.step = "lease" => LifeOK([l EXCEPT !.step = "dial"])
  BY DEF LifeOK, Life
<1>2. l.step = "dial" /\ l.resubscribe => LifeOK([l EXCEPT !.step = "first", !.todo = l.channels])
  BY DEF LifeOK, Life
<1>3. l.step = "dial" /\ ~l.resubscribe /\ l.held # {} =>
          LifeOK([l EXCEPT !.step = "up", !.subs = l.held, !.held = {}])
  BY DEF LifeOK, Life
<1>4. l.step = "rest" /\ ~l.failed /\ l.todo = {} => LifeOK([l EXCEPT !.step = "up"])
  BY DEF LifeOK, Life
<1>5. l.step = "up" => LifeOK([l EXCEPT !.step = "lease", !.url = "reconnect",
                                        !.resubscribe = FALSE, !.held = l.subs, !.subs = {}])
  BY DEF LifeOK, Life
<1>6. LifeOK([l EXCEPT !.held = {}])
  BY DEF LifeOK, Life
<1> QED
  BY <1>1, <1>2, <1>3, <1>4, <1>5, <1>6

\* The subscriptions that are made and those to be made are the channels, unless
\* one failed.
LEMMA SubscribeOK ==
    ASSUME NEW l, LifeOK(l), NEW ch \in l.todo
    PROVE  /\ l.step = "first" => LifeOK([l EXCEPT !.step = "rest", !.todo = @ \ {ch}, !.subs = {ch}])
           /\ l.step = "rest" =>
                 /\ LifeOK([l EXCEPT !.todo = @ \ {ch}, !.subs = @ \cup {ch}])
                 /\ LifeOK([l EXCEPT !.todo = @ \ {ch}, !.failed = TRUE])
<1>1. l.step = "first" => LifeOK([l EXCEPT !.step = "rest", !.todo = @ \ {ch}, !.subs = {ch}])
  BY DEF LifeOK, Life
<1>2. l.step = "rest" => LifeOK([l EXCEPT !.todo = @ \ {ch}, !.subs = @ \cup {ch}])
  BY DEF LifeOK, Life
<1>3. l.step = "rest" => LifeOK([l EXCEPT !.todo = @ \ {ch}, !.failed = TRUE])
  BY DEF LifeOK, Life
<1> QED
  BY <1>1, <1>2, <1>3

\* A step of one session concerns that session only.
LEMMA BecomesOK ==
    ASSUME ChatInv, NEW s \in Users \X Lives, NEW l, LifeOK(l), Becomes(s, l),
           upsets' \in 0..MaxUpsets
    PROVE  ChatInv'
<1>1. lives' \in [Users \X Lives -> Life]
  BY DEF ChatInv, ChatTypeOK, Becomes, LifeOK
<1>2. \A t \in Users \X Lives : LifeOK(lives'[t])
  BY DEF ChatInv, ChatTypeOK, Becomes
<1> QED
  BY <1>1, <1>2 DEF ChatInv, ChatTypeOK, Becomes

\* Failures are counted up to their bound.
LEMMA UpsetOK ==
    ASSUME ChatInv, Upset \/ UNCHANGED upsets
    PROVE  upsets' \in 0..MaxUpsets
  BY ChatAssumption DEF ChatInv, ChatTypeOK, Upset

\* Each step of a session keeps the invariant.
LEMMA SessionKeeps ==
    ASSUME ChatInv, NEW s \in Users \X Lives,
           SessionStep(s) \/ SessionReconnect(s) \/ UrlExpires(s) \/ SessionBreaks(s)
    PROVE  ChatInv'
<1>1. PICK l : l = lives[s]
  OBVIOUS
<1>2. LifeOK(l)
  BY <1>1 DEF ChatInv
<1>3. upsets' \in 0..MaxUpsets
  BY UpsetOK DEF SessionStep, SessionLease, SessionDial, SubscribeFirst, SubscribeRest, Subscribed,
       SessionReconnect, UrlExpires, SessionBreaks, SessionEnd
<1>4. l.step # "none" => LifeOK(StartOver(s))
  BY <1>1, <1>2, NewLifeOK DEF StartOver, LifeOK, Life
<1>5. CASE SessionLease(s)
  <2>1. CASE Becomes(s, [l EXCEPT !.step = "dial"])
    BY <1>1, <1>2, <1>3, <1>5, <2>1, StepsOK, BecomesOK DEF SessionLease
  <2>2. CASE UNCHANGED <<regs, signedIn, sessions, lives, changes>>
    BY <1>3, <2>2 DEF ChatInv, ChatTypeOK
  <2> QED
    BY <1>1, <1>5, <2>1, <2>2 DEF SessionLease
<1>6. CASE SessionDial(s)
  <2>1. CASE Becomes(s, StartOver(s))
    BY <1>1, <1>3, <1>4, <1>6, <2>1, BecomesOK DEF SessionDial
  <2>2. CASE l.resubscribe /\ Becomes(s, [l EXCEPT !.step = "first", !.todo = l.channels])
    BY <1>1, <1>2, <1>3, <1>6, <2>2, StepsOK, BecomesOK DEF SessionDial
  <2>3. CASE /\ ~l.resubscribe /\ (l.url = "reconnect" => l.held # {})
             /\ Becomes(s, [l EXCEPT !.step = "up", !.subs = l.held, !.held = {}])
    <3>1. l.held # {}
      BY <1>2, <2>3 DEF LifeOK
    <3> QED
      BY <1>1, <1>2, <1>3, <1>6, <2>3, <3>1, StepsOK, BecomesOK DEF SessionDial
  <2> QED
    BY <1>1, <1>6, <2>1, <2>2, <2>3 DEF SessionDial
<1>7. CASE SubscribeFirst(s)
  <2>1. CASE Becomes(s, StartOver(s))
    BY <1>1, <1>3, <1>4, <1>7, <2>1, BecomesOK DEF SubscribeFirst
  <2> DEFINE first == CHOOSE ch \in l.todo : \A other \in l.todo : ch <= other
  <2>2. l.step = "first" /\ l.todo # {} /\ l.todo \subseteq Nat
    BY <1>1, <1>2, <1>7, ChatAssumption DEF SubscribeFirst, LifeOK, Life
  <2>3. first \in l.todo
    BY <2>2, FirstExists
  <2>4. CASE Becomes(s, [l EXCEPT !.step = "rest", !.todo = @ \ {first}, !.subs = {first}])
    <3> HIDE DEF first
    <3> QED
      BY <1>2, <1>3, <2>2, <2>3, <2>4, SubscribeOK, BecomesOK
  <2> QED
    BY <1>1, <1>7, <2>1, <2>4 DEF SubscribeFirst
<1>8. ASSUME NEW ch \in lives[s].todo, SubscribeRest(s, ch)
      PROVE  ChatInv'
  <2>1. l.step = "rest" /\ ch \in l.todo
    BY <1>1, <1>8 DEF SubscribeRest
  <2>2. CASE Becomes(s, [l EXCEPT !.todo = @ \ {ch}, !.subs = @ \cup {ch}])
    BY <1>2, <1>3, <2>1, <2>2, SubscribeOK, BecomesOK
  <2>3. CASE Becomes(s, [l EXCEPT !.todo = @ \ {ch}, !.failed = TRUE])
    BY <1>2, <1>3, <2>1, <2>3, SubscribeOK, BecomesOK
  <2> QED
    BY <1>1, <1>8, <2>2, <2>3 DEF SubscribeRest
<1>9. CASE Subscribed(s)
  <2>1. CASE l.failed
    BY <1>1, <1>3, <1>4, <1>9, <2>1, BecomesOK DEF Subscribed
  <2>2. CASE ~l.failed
    BY <1>1, <1>2, <1>3, <1>9, <2>2, StepsOK, BecomesOK DEF Subscribed
  <2> QED
    BY <2>1, <2>2
<1>10. CASE SessionEnd(s)
  BY <1>3, <1>10, NoLifeOK, BecomesOK DEF SessionEnd
<1>11. CASE SessionReconnect(s)
  BY <1>1, <1>2, <1>3, <1>11, StepsOK, BecomesOK DEF SessionReconnect
<1>12. CASE UrlExpires(s)
  <2>1. LifeOK([l EXCEPT !.held = {}])
    BY <1>2 DEF LifeOK, Life
  <2> QED
    BY <1>1, <1>3, <1>12, <2>1, BecomesOK DEF UrlExpires
<1>13. CASE SessionBreaks(s)
  BY <1>1, <1>3, <1>4, <1>13, BecomesOK DEF SessionBreaks
<1> QED
  BY <1>5, <1>6, <1>7, <1>8, <1>9, <1>10, <1>11, <1>12, <1>13 DEF SessionStep

\* The number of a new session is one that no goroutine of the user has.
LEMMA FreeExists ==
    ASSUME NEW u, FreeLives(u) # {}
    PROVE  FirstFree(u) \in FreeLives(u) /\ FirstFree(u) \in Lives
<1>1. FreeLives(u) \subseteq Nat /\ FreeLives(u) \subseteq Lives
  BY ChatAssumption DEF FreeLives
<1> HIDE DEF FreeLives
<1> QED
  BY <1>1, FirstExists DEF FirstFree

\* The manager starts sessions with the channels of one of its assignments.
LEMMA ReconcileKeeps ==
    ASSUME ChatInv, ReconcileChat
    PROVE  ChatInv'
<1>1. PICK saved : Apply(Assign(saved))
  BY DEF ReconcileChat
<1>2. PICK desired : desired = Assign(saved)
  OBVIOUS
<1>3. \A u \in Users : desired[u] \subseteq Channels
  BY <1>2 DEF Assign
<1>4. Apply(desired)
  BY <1>1, <1>2
<1>5. \A u \in Users : FreeLives(u) # {} => FirstFree(u) \in Lives
  BY FreeExists
<1>6. sessions' \in [Users -> Lives \cup {None}]
  BY <1>4, <1>5 DEF Apply, ChatInv, ChatTypeOK, Same
<1>7. \A s \in Users \X Lives : LifeOK(lives'[s])
  <2> TAKE s \in Users \X Lives
  <2>1. s[1] \in Users
    OBVIOUS
  <2>2. LifeOK(Cancelled(s)) /\ LifeOK(lives[s])
    BY CancelledOK DEF Cancelled, ChatInv
  <2>3. desired[s[1]] # {} => LifeOK(NewLife(desired[s[1]]))
    BY <1>3, <2>1, NewLifeOK
  <2>4. \/ lives'[s] = Cancelled(s) \/ lives'[s] = lives[s]
        \/ lives'[s] = NewLife(desired[s[1]]) /\ desired[s[1]] # {}
    BY <1>4 DEF Apply
  <2> QED
    BY <2>2, <2>3, <2>4
<1>8. lives' \in [Users \X Lives -> Life]
  BY <1>4, <1>7 DEF Apply, LifeOK
<1>9. upsets' \in 0..MaxUpsets
  BY UpsetOK DEF ReconcileChat
<1> QED
  BY <1>6, <1>7, <1>8, <1>9 DEF ReconcileChat, ChatInv, ChatTypeOK

\* The inductive invariant of the chat sessions.
THEOREM ChatInvariant == ChatSpec => []ChatInv
<1>1. ChatInit => ChatInv
  BY NoLifeOK, ChatAssumption DEF ChatInit, ChatInv, ChatTypeOK, LifeOK
<1>2. ChatInv /\ [ChatNext]_chatVars => ChatInv'
  <2> SUFFICES ASSUME ChatInv, [ChatNext]_chatVars
               PROVE  ChatInv'
    OBVIOUS
  <2>1. ASSUME NEW i \in Installations, NEW r \in RegValues \cup {None}, SaveRegistration(i, r)
        PROVE  ChatInv'
    BY <2>1, ChatAssumption DEF SaveRegistration, Change, ChatInv, ChatTypeOK
  <2>2. CASE ChatCrash
    <3>1. \A s \in Users \X Lives : LifeOK(lives'[s])
      BY <2>2, NoLifeOK DEF ChatCrash
    <3>2. upsets' \in 0..MaxUpsets
      BY <2>2, UpsetOK DEF ChatCrash
    <3>3. lives' \in [Users \X Lives -> Life]
      BY <2>2, NoLifeOK DEF ChatCrash, LifeOK
    <3> QED
      BY <2>2, <3>1, <3>2, <3>3 DEF ChatCrash, ChatInv, ChatTypeOK
  <2>3. CASE UNCHANGED chatVars
    BY <2>3 DEF chatVars, ChatInv, ChatTypeOK
  <2>4. ASSUME NEW u \in Users, SignIn(u)
        PROVE  ChatInv'
    BY <2>4, ChatAssumption DEF SignIn, Change, ChatInv, ChatTypeOK
  <2>5. ASSUME NEW u \in Users, SignOut(u)
        PROVE  ChatInv'
    BY <2>5, UpsetOK DEF SignOut, ChatInv, ChatTypeOK
  <2> QED
    BY <2>1, <2>2, <2>3, <2>4, <2>5, ReconcileKeeps, SessionKeeps DEF ChatNext
<1> QED
  BY <1>1, <1>2, PTL DEF ChatSpec

\* The manager and its sessions keep their types.
THEOREM ChatTypes == ChatSpec => []ChatTypeOK
<1>1. ChatInv => ChatTypeOK
  BY DEF ChatInv
<1> QED
  BY <1>1, ChatInvariant, PTL

\* A session that listens has the subscriptions of all of its channels: those made
\* by createChatSubscriptions without a failure, or those that Twitch kept for a
\* reconnect URL, which runSession forgets after any error.
THEOREM UpIsSubscribed == ChatSpec => []UpMeansSubscribed
<1>1. ChatInv => UpMeansSubscribed
  BY DEF ChatInv, ChatTypeOK, UpMeansSubscribed, LifeOK
<1> QED
  BY <1>1, ChatInvariant, PTL

-----------------------------------------------------------------------------
(* The assignment.                                                         *)

\* The channels that are given away before ch, their number, and the loads by then.
Earlier(saved, ch) == {c \in Channels : Before(saved, c, ch)}
Rank(saved, ch) == Cardinality(Earlier(saved, ch))
LoadAt(saved, f, ch) ==
    [u \in Users |-> Cardinality({c \in Channels : Before(saved, c, ch) /\ u \in f[c]})]

\* What a user is given in the end.
GivenTo(f, u) == {c \in Channels : u \in f[c]}

\* Those who watch a channel are users, and can be counted.
LEMMA WatchersCounted ==
    ASSUME NEW saved \in SUBSET RegValues, NEW ch
    PROVE  WatchersOf(saved, ch) \subseteq Users /\ Cardinality(WatchersOf(saved, ch)) \in Nat
<1>1. WatchersOf(saved, ch) \subseteq Users
  BY ChatAssumption DEF WatchersOf
<1>2. IsFiniteSet(WatchersOf(saved, ch))
  BY <1>1, ChatAssumption, FS_Subset
<1> QED
  BY <1>1, <1>2, FS_CardinalityType

\* The channels are given away in a strict order.
LEMMA BeforeOrder ==
    ASSUME NEW saved \in SUBSET RegValues, NEW a \in Channels, NEW b \in Channels
    PROVE  /\ ~Before(saved, a, a)
           /\ a # b => Before(saved, a, b) \/ Before(saved, b, a)
           /\ \A c \in Channels : Before(saved, a, b) /\ Before(saved, b, c) => Before(saved, a, c)
<1> DEFINE n(ch) == Cardinality(WatchersOf(saved, ch))
<1>1. /\ \A ch \in Channels : n(ch) \in Nat /\ ch \in Nat
      /\ \A x, y \in Channels : Before(saved, x, y) <=> n(x) < n(y) \/ (n(x) = n(y) /\ x < y)
  BY WatchersCounted, ChatAssumption DEF Before
<1> HIDE DEF n
<1> QED
  BY <1>1

\* The channels that come before one are fewer than those that come before a later one.
LEMMA RankGrows ==
    ASSUME NEW saved \in SUBSET RegValues, NEW a \in Channels
    PROVE  /\ Rank(saved, a) \in Nat /\ Rank(saved, a) <= Cardinality(Channels)
           /\ \A b \in Channels : Before(saved, a, b) => Rank(saved, a) < Rank(saved, b)
<1>1. \A b \in Channels : /\ Earlier(saved, b) \in SUBSET Channels
                          /\ IsFiniteSet(Earlier(saved, b))
                          /\ Rank(saved, b) \in Nat /\ Rank(saved, b) <= Cardinality(Channels)
  <2> TAKE b \in Channels
  <2>1. Earlier(saved, b) \in SUBSET Channels
    BY DEF Earlier
  <2>2. IsFiniteSet(Earlier(saved, b)) /\ Rank(saved, b) <= Cardinality(Channels)
    BY <2>1, ChatAssumption, FS_Subset DEF Rank
  <2> QED
    BY <2>1, <2>2, FS_CardinalityType DEF Rank
<1>2. ASSUME NEW b \in Channels, Before(saved, a, b)
      PROVE  Rank(saved, a) < Rank(saved, b)
  <2>1. \A c \in Channels : Before(saved, c, a) => Before(saved, c, b)
    BY <1>2, BeforeOrder
  <2>2. Earlier(saved, a) \in SUBSET Earlier(saved, b)
    BY <2>1 DEF Earlier
  <2>3. a \in Earlier(saved, b) /\ a \notin Earlier(saved, a)
    BY <1>2, BeforeOrder DEF Earlier
  <2>4. /\ Cardinality(Earlier(saved, a)) <= Cardinality(Earlier(saved, b))
        /\ Cardinality(Earlier(saved, b)) = Cardinality(Earlier(saved, a)) =>
              Earlier(saved, b) = Earlier(saved, a)
    BY <1>1, <2>2, FS_Subset
  <2> QED
    BY <1>1, <2>3, <2>4 DEF Rank
<1> QED
  BY <1>1, <1>2

\* The loads by the time a channel is given away depend on the earlier channels only.
LEMMA LoadsEqual ==
    ASSUME NEW saved, NEW f, NEW g, NEW ch,
           \A c \in Channels : Before(saved, c, ch) => f[c] = g[c]
    PROVE  LoadAt(saved, f, ch) = LoadAt(saved, g, ch)
<1>1. \A u \in Users : {c \in Channels : Before(saved, c, ch) /\ u \in f[c]}
                       = {c \in Channels : Before(saved, c, ch) /\ u \in g[c]}
  OBVIOUS
<1> QED
  BY <1>1 DEF LoadAt

\* There is an assignment: the first channel that could not be given away could.
LEMMA GivenExists ==
    ASSUME NEW saved \in SUBSET RegValues
    PROVE  \E f \in [Channels -> SUBSET Users] : Given(saved, f)
<1> DEFINE Upto(m, f) == \A ch \in Channels : Rank(saved, ch) < m =>
                             f[ch] = Pick(LoadAt(saved, f, ch), WatchersOf(saved, ch))
           Bad == {m \in Nat : ~\E f \in [Channels -> SUBSET Users] : Upto(m, f)}
<1>1. 0 \notin Bad
  <2> DEFINE none == [ch \in Channels |-> {}]
  <2>1. none \in [Channels -> SUBSET Users]
    OBVIOUS
  <2>2. Upto(0, none)
    BY RankGrows
  <2> QED
    BY <2>1, <2>2
<1>2. ASSUME NEW m \in Nat, m \notin Bad
      PROVE  m + 1 \notin Bad
  <2>1. PICK f \in [Channels -> SUBSET Users] : Upto(m, f)
    BY <1>2
  <2> DEFINE g == [ch \in Channels |->
                      IF Rank(saved, ch) = m THEN Pick(LoadAt(saved, f, ch), WatchersOf(saved, ch))
                      ELSE f[ch]]
  <2>2. g \in [Channels -> SUBSET Users]
    BY WatchersCounted DEF Pick
  <2>3. ASSUME NEW ch \in Channels, Rank(saved, ch) < m + 1
        PROVE  g[ch] = Pick(LoadAt(saved, g, ch), WatchersOf(saved, ch))
    <3>1. \A c \in Channels : Before(saved, c, ch) => g[c] = f[c]
      BY <1>2, <2>3, RankGrows
    <3>2. LoadAt(saved, g, ch) = LoadAt(saved, f, ch)
      <4> HIDE DEF g
      <4> QED
        BY <3>1, LoadsEqual
    <3>3. CASE Rank(saved, ch) = m
      BY <3>2, <3>3
    <3>4. CASE Rank(saved, ch) # m
      <4>1. Rank(saved, ch) < m
        BY <1>2, <2>3, <3>4, RankGrows
      <4> QED
        BY <2>1, <3>2, <3>4, <4>1
    <3> QED
      BY <3>3, <3>4
  <2>4. Upto(m + 1, g)
    <3> HIDE DEF g
    <3> QED
      BY <2>3
  <2> QED
    <3> HIDE DEF g, Upto
    <3> QED
      BY <2>2, <2>4
<1>3. Bad = {}
  <2> HIDE DEF Upto
  <2> SUFFICES ASSUME Bad # {} PROVE FALSE
    OBVIOUS
  <2>1. PICK m \in Bad : \A k \in Bad : m <= k
    <3>1. Bad \subseteq Nat
      OBVIOUS
    <3> HIDE DEF Bad
    <3> QED
      BY <3>1, FirstExists
  <2>2. m \in Nat /\ m # 0
    BY <1>1, <2>1
  <2>3. m - 1 \in Nat /\ m - 1 \notin Bad /\ (m - 1) + 1 = m
    <3> HIDE DEF Bad
    <3> QED
      BY <2>1, <2>2
  <2> HIDE DEF Bad
  <2> QED
    BY <1>2, <2>1, <2>3
<1>4. Cardinality(Channels) \in Nat
  BY ChatAssumption, FS_CardinalityType
<1>5. PICK f \in [Channels -> SUBSET Users] : Upto(Cardinality(Channels) + 1, f)
  <2> HIDE DEF Upto
  <2> QED
    BY <1>3, <1>4
<1>6. \A ch \in Channels : f[ch] = Pick(LoadAt(saved, f, ch), WatchersOf(saved, ch))
  <2> TAKE ch \in Channels
  <2>1. Rank(saved, ch) < Cardinality(Channels) + 1
    BY <1>4, RankGrows
  <2> QED
    BY <1>5, <2>1
<1>7. Given(saved, f)
  BY <1>6 DEF Given, LoadAt
<1> QED
  BY <1>7

\* There is exactly one assignment, so the choice in Assignments stands for the loop of
\* assignUserChatChannels: the first channel that two assignments give away differently
\* would meet the same loads.
THEOREM AssignmentUnique ==
    ASSUME NEW saved \in SUBSET RegValues
    PROVE  \E f \in [Channels -> SUBSET Users] :
              Given(saved, f) /\ \A g \in [Channels -> SUBSET Users] : Given(saved, g) => g = f
<1>1. PICK f \in [Channels -> SUBSET Users] : Given(saved, f)
  BY GivenExists
<1>2. ASSUME NEW g \in [Channels -> SUBSET Users], Given(saved, g)
      PROVE  g = f
  <2> DEFINE Differ == {Rank(saved, ch) : ch \in {c \in Channels : g[c] # f[c]}}
  <2>1. Differ = {}
    <3> SUFFICES ASSUME Differ # {} PROVE FALSE
      OBVIOUS
    <3>1. Differ \subseteq Nat
      BY RankGrows
    <3>2. PICK n \in Differ : \A k \in Differ : n <= k
      <4> HIDE DEF Differ
      <4> QED
        BY <3>1, FirstExists
    <3>3. PICK ch \in Channels : g[ch] # f[ch] /\ n = Rank(saved, ch)
      BY <3>2
    <3>4. ASSUME NEW c \in Channels, Before(saved, c, ch)
          PROVE  g[c] = f[c]
      <4>1. Rank(saved, c) < Rank(saved, ch) /\ Rank(saved, c) \in Nat /\ Rank(saved, ch) \in Nat
        BY <3>4, RankGrows
      <4>2. g[c] # f[c] => Rank(saved, ch) <= Rank(saved, c)
        BY <3>2, <3>3
      <4> QED
        BY <4>1, <4>2
    <3>5. LoadAt(saved, g, ch) = LoadAt(saved, f, ch)
      BY <3>4, LoadsEqual
    <3>6. /\ g[ch] = Pick(LoadAt(saved, g, ch), WatchersOf(saved, ch))
          /\ f[ch] = Pick(LoadAt(saved, f, ch), WatchersOf(saved, ch))
      BY <1>1, <1>2 DEF Given, LoadAt
    <3> QED
      BY <3>3, <3>5, <3>6
  <2>2. \A ch \in Channels : g[ch] = f[ch]
    BY <2>1
  <2> QED
    BY <2>2
<1> QED
  BY <1>1, <1>2

\* What is computed is such an assignment.
LEMMA AssignGiven ==
    ASSUME NEW saved \in SUBSET RegValues
    PROVE  \E f \in [Channels -> SUBSET Users] :
              /\ \A ch \in Channels : f[ch] = Pick(LoadAt(saved, f, ch), WatchersOf(saved, ch))
              /\ Assign(saved) = [u \in Users |-> {ch \in Channels : u \in f[ch]}]
<1> DEFINE Taker(s) == CHOOSE f \in [Channels -> SUBSET Users] : Given(s, f)
<1>1. Taker(saved) \in [Channels -> SUBSET Users] /\ Given(saved, Taker(saved))
  BY GivenExists
<1>2. Assignments = {[saved |-> s, taker |-> Taker(s)] : s \in SUBSET RegValues}
  BY DEF Assignments
<1> HIDE DEF Taker
<1>3. PICK a : a = CHOOSE x \in Assignments : x.saved = saved
  OBVIOUS
<1>4. \E x \in Assignments : x.saved = saved
  <2>1. [saved |-> saved, taker |-> Taker(saved)] \in Assignments
    BY <1>2
  <2>2. [saved |-> saved, taker |-> Taker(saved)].saved = saved
    OBVIOUS
  <2> QED
    BY <2>1, <2>2
<1>5. a \in Assignments /\ a.saved = saved
  BY <1>3, <1>4
<1>6. a.taker = Taker(saved)
  BY <1>2, <1>5
<1>7. Assign(saved) = [u \in Users |-> {ch \in Channels : u \in a.taker[ch]}]
  BY <1>3 DEF Assign
<1>8. \A ch \in Channels :
          Taker(saved)[ch] = Pick(LoadAt(saved, Taker(saved), ch), WatchersOf(saved, ch))
  BY <1>1 DEF Given, LoadAt
<1> QED
  BY <1>1, <1>6, <1>7, <1>8

\* One candidate is picked, within the limit, unless all are at the limit.
LEMMA PickOne ==
    ASSUME NEW load \in [Users -> Nat], NEW W \in SUBSET Users, NEW P, P = Pick(load, W)
    PROVE  /\ P \subseteq W
           /\ \A u, v \in P : u = v
           /\ \A u \in P : load[u] < MaxChannels
           /\ P = {} => \A u \in W : load[u] >= MaxChannels
<1>1. /\ P \subseteq W /\ \A u \in P : load[u] < MaxChannels
      /\ \A u \in P, v \in W : load[u] < load[v] \/ (load[u] = load[v] /\ u <= v)
  BY DEF Pick
<1>2. \A u \in W : u \in Nat /\ load[u] \in Nat
  BY ChatAssumption
<1>3. \A u, v \in P : u = v
  BY <1>1, <1>2
<1>4. ASSUME NEW u \in W, ~(load[u] >= MaxChannels)
      PROVE  P # {}
  <2>1. {load[v] : v \in W} \subseteq Nat /\ {load[v] : v \in W} # {}
    BY <1>2
  <2>2. PICK n \in {load[v] : v \in W} : \A k \in {load[v] : v \in W} : n <= k
    BY <2>1, FirstExists
  <2> DEFINE Least == {v \in W : load[v] = n}
  <2>3. Least \subseteq Nat /\ Least # {}
    BY <1>2, <2>2
  <2>4. PICK w \in Least : \A v \in Least : w <= v
    <3> HIDE DEF Least
    <3> QED
      BY <2>3, FirstExists
  <2>5. n \in Nat /\ load[w] = n /\ w \in W /\ n <= load[u]
    BY <1>2, <2>2, <2>4
  <2>6. MaxChannels \in Nat
    BY ChatAssumption
  <2>7. load[w] < MaxChannels
    BY <1>2, <1>4, <2>5, <2>6
  <2>8. \A v \in W : load[w] < load[v] \/ (load[w] = load[v] /\ w <= v)
    <3> TAKE v \in W
    <3>1. n <= load[v] /\ load[v] \in Nat
      BY <1>2, <2>2
    <3>2. load[v] = n => w <= v
      BY <2>4
    <3> QED
      BY <2>5, <3>1, <3>2
  <2> QED
    BY <2>5, <2>7, <2>8 DEF Pick
<1> QED
  BY <1>1, <1>3, <1>4

\* A load is a part of what a user is given in the end.
LEMMA LoadsBounded ==
    ASSUME NEW saved, NEW f, NEW ch
    PROVE  /\ LoadAt(saved, f, ch) \in [Users -> Nat]
           /\ \A u \in Users : LoadAt(saved, f, ch)[u] <= Cardinality(GivenTo(f, u))
           /\ \A u \in Users : Cardinality(GivenTo(f, u)) \in Nat
<1>1. ASSUME NEW u \in Users
      PROVE  /\ Cardinality({c \in Channels : Before(saved, c, ch) /\ u \in f[c]}) \in Nat
             /\ Cardinality(GivenTo(f, u)) \in Nat
             /\ Cardinality({c \in Channels : Before(saved, c, ch) /\ u \in f[c]})
                <= Cardinality(GivenTo(f, u))
  <2> DEFINE part == {c \in Channels : Before(saved, c, ch) /\ u \in f[c]}
             all == GivenTo(f, u)
  <2>1. all \in SUBSET Channels /\ part \in SUBSET all
    BY DEF GivenTo
  <2> HIDE DEF part, all
  <2>2. IsFiniteSet(all)
    BY <2>1, ChatAssumption, FS_Subset
  <2>3. IsFiniteSet(part) /\ Cardinality(part) <= Cardinality(all)
    BY <2>1, <2>2, FS_Subset
  <2>4. Cardinality(part) \in Nat /\ Cardinality(all) \in Nat
    BY <2>2, <2>3, FS_CardinalityType
  <2> QED
    BY <2>3, <2>4 DEF part, all
<1> QED
  BY <1>1 DEF LoadAt

\* The last channel that a user is given finds room.
LEMMA WithinLimit ==
    ASSUME NEW saved \in SUBSET RegValues, NEW f \in [Channels -> SUBSET Users], NEW u \in Users,
           \A ch \in Channels : f[ch] = Pick(LoadAt(saved, f, ch), WatchersOf(saved, ch))
    PROVE  Cardinality(GivenTo(f, u)) <= MaxChannels
<1> DEFINE A == GivenTo(f, u)
<1>0. A \in SUBSET Channels /\ \A ch \in Channels : ch \in A <=> u \in f[ch]
  BY DEF GivenTo
<1>1. IsFiniteSet(A) /\ Cardinality(Channels) \in Nat
  BY <1>0, ChatAssumption, FS_Subset, FS_CardinalityType
<1>2. CASE A = {}
  <2>1. Cardinality(A) = 0 /\ MaxChannels \in Nat
    BY <1>2, FS_EmptySet, ChatAssumption
  <2> QED
    BY <2>1
<1>3. CASE A # {}
  <2> DEFINE Left == {Cardinality(Channels) - Rank(saved, ch) : ch \in A}
  <2>1. Left \subseteq Nat /\ Left # {}
    <3>1. \A ch \in A : Cardinality(Channels) - Rank(saved, ch) \in Nat
      <4> TAKE ch \in A
      <4>1. Rank(saved, ch) \in Nat /\ Rank(saved, ch) <= Cardinality(Channels)
        BY <1>0, RankGrows
      <4> QED
        BY <1>1, <4>1
    <3> QED
      BY <1>3, <3>1
  <2>2. PICK n \in Left : \A k \in Left : n <= k
    <3> HIDE DEF Left
    <3> QED
      BY <2>1, FirstExists
  <2>3. PICK last \in A : n = Cardinality(Channels) - Rank(saved, last)
    BY <2>2
  <2>4. \A c \in A : Rank(saved, c) <= Rank(saved, last)
    <3> TAKE c \in A
    <3>1. n <= Cardinality(Channels) - Rank(saved, c)
      BY <2>2
    <3>2. Rank(saved, c) \in Nat /\ Rank(saved, last) \in Nat
      BY <1>0, RankGrows
    <3> HIDE DEF A
    <3> QED
      BY <1>1, <2>3, <3>1, <3>2
  <2>5. \A c \in Channels : c \in A \ {last} <=> (Before(saved, c, last) /\ u \in f[c])
    <3> TAKE c \in Channels
    <3>1. last \in Channels /\ ~Before(saved, last, last)
      BY <1>0, BeforeOrder
    <3>2. ASSUME c \in A, c # last
          PROVE  Before(saved, c, last)
      <4>1. Before(saved, c, last) \/ Before(saved, last, c)
        BY <3>1, <3>2, BeforeOrder
      <4>2. Rank(saved, c) <= Rank(saved, last) /\ Rank(saved, c) \in Nat /\ Rank(saved, last) \in Nat
        BY <2>4, <3>1, <3>2, RankGrows
      <4>3. Before(saved, last, c) => Rank(saved, last) < Rank(saved, c)
        BY <3>1, RankGrows
      <4> QED
        BY <4>1, <4>2, <4>3
    <3> QED
      BY <1>0, <3>1, <3>2
  <2>6. {c \in Channels : Before(saved, c, last) /\ u \in f[c]} = A \ {last}
    <3> HIDE DEF A
    <3> QED
      BY <1>0, <2>5
  <2>7. LoadAt(saved, f, last)[u] = Cardinality(A \ {last})
    <3> HIDE DEF A
    <3> QED
      BY <2>6 DEF LoadAt
  <2>8. LoadAt(saved, f, last)[u] < MaxChannels
    <3>1. last \in Channels /\ u \in Pick(LoadAt(saved, f, last), WatchersOf(saved, last))
      BY <1>0, <2>3
    <3>2. LoadAt(saved, f, last) \in [Users -> Nat] /\ WatchersOf(saved, last) \in SUBSET Users
      BY LoadsBounded, WatchersCounted
    <3> QED
      BY <3>1, <3>2, PickOne
  <2>9. Cardinality(A \ {last}) = Cardinality(A) - 1 /\ Cardinality(A) \in Nat
    <3> HIDE DEF A
    <3> QED
      BY <1>1, <2>3, FS_RemoveElement, FS_CardinalityType
  <2> HIDE DEF A
  <2>10. Cardinality(A) <= MaxChannels
    BY <2>7, <2>8, <2>9, ChatAssumption
  <2> QED
    BY <2>10 DEF A
<1> QED
  BY <1>2, <1>3

\* The registrations of a state are some that devices may save.
LEMMA SavedValues ==
    ASSUME ChatTypeOK
    PROVE  Saved \in SUBSET RegValues
  BY DEF ChatTypeOK, Saved

\* The assignment leaves a watched channel out only when all who watch it have their fill,
\* and gives it to one of them otherwise, within the limit, for any registrations.
THEOREM AssignmentsSound == ChatSpec => []AssignmentSound
<1>1. ASSUME ChatTypeOK
      PROVE  AssignmentSound
  <2>1. PICK saved \in SUBSET RegValues : saved = Saved
    BY <1>1, SavedValues
  <2>2. PICK f \in [Channels -> SUBSET Users] :
           /\ \A ch \in Channels : f[ch] = Pick(LoadAt(saved, f, ch), WatchersOf(saved, ch))
           /\ Assign(saved) = [u \in Users |-> {ch \in Channels : u \in f[ch]}]
    BY AssignGiven
  <2>3. PICK assigned : assigned = Assign(saved)
    OBVIOUS
  <2>4. \A u \in Users : assigned[u] = GivenTo(f, u)
    BY <2>2, <2>3 DEF GivenTo
  <2>5. \A u \in Users : Cardinality(assigned[u]) <= MaxChannels
    <3> TAKE u \in Users
    <3>1. Cardinality(GivenTo(f, u)) <= MaxChannels
      BY <2>2, WithinLimit
    <3> QED
      BY <2>4, <3>1
  <2>6. ASSUME NEW ch \in Channels, NEW takers, takers = {u \in Users : ch \in assigned[u]}
        PROVE  /\ Cardinality(takers) <= 1 /\ takers \subseteq WatchersOf(saved, ch)
               /\ takers = {} => \A u \in WatchersOf(saved, ch) : Cardinality(assigned[u]) = MaxChannels
    <3>1. takers = f[ch]
      BY <2>4, <2>6 DEF GivenTo
    <3>2. PICK load : load = LoadAt(saved, f, ch)
      OBVIOUS
    <3>3. /\ load \in [Users -> Nat] /\ WatchersOf(saved, ch) \in SUBSET Users
          /\ \A u \in Users : load[u] <= Cardinality(assigned[u]) /\ Cardinality(assigned[u]) \in Nat
      <4>1. load \in [Users -> Nat] /\ WatchersOf(saved, ch) \in SUBSET Users
        BY <3>2, LoadsBounded, WatchersCounted
      <4>2. ASSUME NEW u \in Users
            PROVE  load[u] <= Cardinality(assigned[u]) /\ Cardinality(assigned[u]) \in Nat
        <5>1. load[u] <= Cardinality(GivenTo(f, u)) /\ Cardinality(GivenTo(f, u)) \in Nat
          BY <3>2, LoadsBounded
        <5> QED
          BY <2>4, <5>1
      <4> QED
        BY <4>1, <4>2
    <3>4. takers = Pick(load, WatchersOf(saved, ch))
      BY <2>2, <3>1, <3>2
    <3>5. /\ takers \subseteq WatchersOf(saved, ch)
          /\ \A u, v \in takers : u = v
          /\ takers = {} => \A u \in WatchersOf(saved, ch) : load[u] >= MaxChannels
      BY <3>3, <3>4, PickOne
    <3>6. Cardinality(takers) <= 1
      <4>1. CASE takers = {}
        BY <4>1, FS_EmptySet
      <4>2. CASE takers # {}
        <5>1. PICK u \in takers : TRUE
          BY <4>2
        <5>2. takers = {u}
          BY <3>5, <5>1
        <5>3. Cardinality({u}) = 1
          BY FS_Singleton
        <5> QED
          BY <5>2, <5>3
      <4> QED
        BY <4>1, <4>2
    <3>7. ASSUME takers = {}, NEW u \in WatchersOf(saved, ch)
          PROVE  Cardinality(assigned[u]) = MaxChannels
      <4>1. u \in Users /\ load[u] \in Nat /\ load[u] >= MaxChannels
        BY <3>3, <3>5, <3>7
      <4>2. Cardinality(assigned[u]) <= MaxChannels /\ load[u] <= Cardinality(assigned[u])
            /\ Cardinality(assigned[u]) \in Nat /\ MaxChannels \in Nat
        BY <2>5, <3>3, <4>1, ChatAssumption
      <4> QED
        BY <4>1, <4>2
    <3> QED
      BY <3>5, <3>6, <3>7
  <2> QED
    BY <2>1, <2>3, <2>5, <2>6 DEF AssignmentSound
<1> QED
  BY <1>1, ChatTypes, PTL

-----------------------------------------------------------------------------
(* The sessions beside each other.                                         *)

\* A goroutine that is not cancelled is its user's session in the manager's map.
SessionOK(s) ==
    /\ lives[s].step = "none" => lives[s] = NoLife
    /\ lives[s].step # "none" /\ Live(s) <=> sessions[s[1]] = s[2]

Apart ==
    \A s, t \in Users \X Lives :
        s # t /\ Live(s) /\ Live(t) => lives[s].channels \cap lives[t].channels = {}

ListenInv == Apart /\ \A s \in Users \X Lives : SessionOK(s)

\* A step of a session leaves it its channels, or is its end after it was cancelled.
Continues(k, l) ==
    \/ /\ k.step # "none" /\ l.step # "none" /\ l.channels = k.channels
       /\ l.cancelled <=> k.cancelled
    \/ l = NoLife /\ k.cancelled

\* No channel is given to two users.
LEMMA AssignDisjoint ==
    ASSUME NEW saved \in SUBSET RegValues, NEW u \in Users, NEW v \in Users, u # v
    PROVE  Assign(saved)[u] \cap Assign(saved)[v] = {}
<1>1. PICK f \in [Channels -> SUBSET Users] :
         /\ \A ch \in Channels : f[ch] = Pick(LoadAt(saved, f, ch), WatchersOf(saved, ch))
         /\ Assign(saved) = [x \in Users |-> {ch \in Channels : x \in f[ch]}]
  BY AssignGiven
<1>2. ASSUME NEW ch \in Channels
      PROVE  \A x, y \in f[ch] : x = y
  <2>1. LoadAt(saved, f, ch) \in [Users -> Nat] /\ WatchersOf(saved, ch) \in SUBSET Users
    BY LoadsBounded, WatchersCounted
  <2>2. f[ch] = Pick(LoadAt(saved, f, ch), WatchersOf(saved, ch))
    BY <1>1
  <2> QED
    BY <2>1, <2>2, PickOne
<1> QED
  BY <1>1, <1>2

\* What a session's steps do to it.
LEMMA SessionContinues ==
    ASSUME ChatInv, NEW s \in Users \X Lives, SessionOK(s),
           SessionStep(s) \/ SessionReconnect(s) \/ UrlExpires(s) \/ SessionBreaks(s)
    PROVE  \/ UNCHANGED <<sessions, lives>>
           \/ \E l : Becomes(s, l) /\ Continues(lives[s], l)
<1>1. PICK k : k = lives[s] /\ k \in Life
  BY DEF ChatInv, ChatTypeOK
<1>2. ~k.cancelled /\ k.step # "none" => Continues(k, StartOver(s))
  BY <1>1 DEF Continues, StartOver, NewLife, NoLife
<1>3. CASE SessionLease(s)
  <2>1. k.step = "lease" => Continues(k, [k EXCEPT !.step = "dial"])
    BY <1>1 DEF Continues, Life
  <2> QED
    BY <1>1, <1>3, <2>1 DEF SessionLease
<1>4. CASE SessionDial(s)
  <2>1. k.step = "dial" =>
            /\ Continues(k, [k EXCEPT !.step = "first", !.todo = k.channels])
            /\ Continues(k, [k EXCEPT !.step = "up", !.subs = k.held, !.held = {}])
    BY <1>1 DEF Continues, Life
  <2> QED
    BY <1>1, <1>2, <1>4, <2>1 DEF SessionDial, Live
<1>5. CASE SubscribeFirst(s)
  <2>1. \A first : k.step = "first" =>
            Continues(k, [k EXCEPT !.step = "rest", !.todo = @ \ {first}, !.subs = {first}])
    BY <1>1 DEF Continues, Life
  <2> QED
    BY <1>1, <1>2, <1>5, <2>1 DEF SubscribeFirst, Live
<1>6. ASSUME NEW ch \in lives[s].todo, SubscribeRest(s, ch)
      PROVE  \E l : Becomes(s, l) /\ Continues(lives[s], l)
  <2>1. k.step = "rest" => /\ Continues(k, [k EXCEPT !.todo = @ \ {ch}, !.subs = @ \cup {ch}])
                           /\ Continues(k, [k EXCEPT !.todo = @ \ {ch}, !.failed = TRUE])
    BY <1>1 DEF Continues, Life
  <2> QED
    BY <1>1, <1>6, <2>1 DEF SubscribeRest
<1>7. CASE Subscribed(s)
  <2>1. k.step = "rest" => Continues(k, [k EXCEPT !.step = "up"])
    BY <1>1 DEF Continues, Life
  <2> QED
    BY <1>1, <1>2, <1>7, <2>1 DEF Subscribed, Live
<1>8. CASE SessionEnd(s)
  BY <1>1, <1>8 DEF SessionEnd, Continues
<1>9. CASE SessionReconnect(s)
  <2>1. k.step = "up" =>
            Continues(k, [k EXCEPT !.step = "lease", !.url = "reconnect", !.resubscribe = FALSE,
                                   !.held = k.subs, !.subs = {}])
    BY <1>1 DEF Continues, Life
  <2> QED
    BY <1>1, <1>9, <2>1 DEF SessionReconnect
<1>10. CASE UrlExpires(s)
  <2>1. k.step # "none"
    BY <1>1, <1>10 DEF UrlExpires, SessionOK, NoLife
  <2>2. Continues(k, [k EXCEPT !.held = {}])
    BY <1>1, <2>1 DEF Continues, Life
  <2> QED
    BY <1>1, <1>10, <2>2 DEF UrlExpires
<1>11. CASE SessionBreaks(s)
  BY <1>1, <1>2, <1>11 DEF SessionBreaks, Live
<1> QED
  BY <1>3, <1>4, <1>5, <1>6, <1>7, <1>8, <1>9, <1>10, <1>11 DEF SessionStep

\* Such a step keeps the sessions apart.
LEMMA ContinuesApart ==
    ASSUME ChatInv, ListenInv, NEW s \in Users \X Lives, NEW l, Becomes(s, l),
           Continues(lives[s], l)
    PROVE  ListenInv'
<1>1. PICK k : k = lives[s]
  OBVIOUS
<1>2. /\ lives'[s] = l /\ UNCHANGED sessions
      /\ \A t \in Users \X Lives : t # s => lives'[t] = lives[t]
  BY DEF Becomes, ChatInv, ChatTypeOK
<1>3. SessionOK(s)
  BY DEF ListenInv
<1>4. SessionOK(s)' /\ (~l.cancelled => l.channels = {} \/ (~k.cancelled /\ l.channels = k.channels))
  <2>1. CASE l = NoLife /\ k.cancelled
    <3>1. l.step = "none" /\ ~l.cancelled /\ l.channels = {}
      BY <2>1 DEF NoLife
    <3>2. sessions[s[1]] # s[2]
      BY <1>1, <1>3, <2>1 DEF SessionOK, Live
    <3> QED
      BY <1>2, <2>1, <3>1, <3>2 DEF SessionOK, Live
  <2>2. CASE /\ k.step # "none" /\ l.step # "none" /\ l.channels = k.channels
             /\ l.cancelled <=> k.cancelled
    BY <1>1, <1>2, <1>3, <2>2 DEF SessionOK, Live
  <2> QED
    BY <1>1, <2>1, <2>2 DEF Continues
<1>5. \A t \in Users \X Lives : t # s => SessionOK(t)'
  BY <1>2 DEF ListenInv, SessionOK, Live
<1>6. Apart'
  <2> SUFFICES ASSUME NEW a \in Users \X Lives, NEW b \in Users \X Lives, a # b,
                      ~lives'[a].cancelled, ~lives'[b].cancelled
               PROVE  lives'[a].channels \cap lives'[b].channels = {}
    BY DEF Apart, Live
  <2>1. \A x \in {a, b} : \/ lives'[x].channels = {}
                          \/ ~lives[x].cancelled /\ lives'[x].channels = lives[x].channels
    BY <1>1, <1>2, <1>4
  <2> QED
    BY <2>1 DEF ListenInv, Apart, Live
<1> QED
  BY <1>4, <1>5, <1>6 DEF ListenInv

\* After a reconciliation the sessions are those of the assignment.
LEMMA ApplyApart ==
    ASSUME ChatInv, ListenInv, NEW desired, Apply(desired),
           \A u, v \in Users : u # v => desired[u] \cap desired[v] = {}
    PROVE  ListenInv'
<1> DEFINE Fine(s) == /\ SessionOK(s)'
                      /\ ~lives'[s].cancelled =>
                            \/ lives'[s].channels = {}
                            \/ sessions'[s[1]] = s[2] /\ lives'[s].channels = desired[s[1]]
<1>1. ASSUME NEW u \in Users, NEW n \in Lives
      PROVE  Fine(<<u, n>>)
  <2>1. PICK s : s = <<u, n>>
    OBVIOUS
  <2>2. s = <<u, n>> /\ s \in Users \X Lives /\ s[1] = u /\ s[2] = n
    BY <2>1
  <2>3. PICK k : k = lives[s] /\ k \in Life
    BY <2>2 DEF ChatInv, ChatTypeOK
  <2>4. /\ k.step = "none" => k = NoLife
        /\ k.step # "none" /\ ~k.cancelled <=> sessions[u] = n
    BY <2>2, <2>3 DEF ListenInv, SessionOK, Live
  <2>5. NoLife.step = "none" /\ ~NoLife.cancelled /\ NoLife.channels = {}
    BY DEF NoLife
  <2>6. CASE ~Same(u, desired) /\ sessions[u] = n
    <3>1. lives'[s] = Cancelled(s)
      BY <2>2, <2>6 DEF Apply
    <3>2. lives'[s] = [k EXCEPT !.cancelled = TRUE]
      BY <2>3, <3>1 DEF Cancelled
    <3>3. lives'[s].step = k.step /\ lives'[s].cancelled
      BY <2>3, <3>2 DEF Life
    <3>4. sessions'[u] # n
      <4>1. CASE desired[u] # {}
        <5>1. sessions'[u] = FirstFree(u) /\ FreeLives(u) # {}
          BY <2>6, <4>1 DEF Apply
        <5>2. FirstFree(u) \in FreeLives(u)
          BY <5>1, FreeExists
        <5>3. n \notin FreeLives(u)
          BY <2>2, <2>3, <2>4, <2>6 DEF FreeLives
        <5> QED
          BY <5>1, <5>2, <5>3
      <4>2. CASE desired[u] = {}
        <5>1. sessions'[u] = None
          BY <2>6, <4>2 DEF Apply
        <5> QED
          BY <5>1, ChatAssumption
      <4> QED
        BY <4>1, <4>2
    <3> QED
      BY <2>2, <2>4, <2>6, <3>3, <3>4 DEF SessionOK, Live
  <2>7. CASE /\ ~Same(u, desired) /\ sessions[u] # n
             /\ desired[u] # {} /\ sessions'[u] = n
    <3>1. sessions'[u] = FirstFree(u)
      BY <2>7 DEF Apply
    <3>2. lives'[s] = NewLife(desired[u])
      BY <2>2, <2>7, <3>1 DEF Apply
    <3>3. lives'[s].step # "none" /\ ~lives'[s].cancelled /\ lives'[s].channels = desired[u]
      BY <3>2 DEF NewLife, NoLife
    <3> QED
      BY <2>2, <2>7, <3>3 DEF SessionOK, Live
  <2>8. CASE /\ ~Same(u, desired) /\ sessions[u] # n
             /\ ~(desired[u] # {} /\ sessions'[u] = n)
    <3>1. sessions'[u] = IF desired[u] # {} THEN FirstFree(u) ELSE None
      BY <2>8 DEF Apply
    <3>2. sessions'[u] # n
      BY <2>8, <3>1, ChatAssumption
    <3>3. lives'[s] = k
      BY <2>2, <2>3, <2>8, <3>1, <3>2 DEF Apply
    <3> QED
      BY <2>2, <2>4, <2>5, <2>8, <3>2, <3>3 DEF SessionOK, Live
  <2>9. CASE Same(u, desired)
    <3>1. sessions'[u] = sessions[u]
      BY <2>9 DEF Apply
    <3>2. lives'[s] = k
      BY <2>2, <2>3, <2>9 DEF Apply
    <3>3. sessions[u] = n => k.channels = desired[u]
      BY <2>2, <2>3, <2>9 DEF Same
    <3> QED
      BY <2>2, <2>4, <2>5, <3>1, <3>2, <3>3 DEF SessionOK, Live
  <2> QED
    BY <2>6, <2>7, <2>8, <2>9
<1>2. \A s \in Users \X Lives : Fine(s)
  <2> TAKE s \in Users \X Lives
  <2>1. s[1] \in Users /\ s[2] \in Lives /\ s = <<s[1], s[2]>>
    OBVIOUS
  <2> HIDE DEF Fine
  <2> QED
    BY <1>1, <2>1
<1>3. Apart'
  <2> SUFFICES ASSUME NEW a \in Users \X Lives, NEW b \in Users \X Lives, a # b,
                      ~lives'[a].cancelled, ~lives'[b].cancelled
               PROVE  lives'[a].channels \cap lives'[b].channels = {}
    BY DEF Apart, Live
  <2>1. \A s \in {a, b} : \/ lives'[s].channels = {}
                          \/ sessions'[s[1]] = s[2] /\ lives'[s].channels = desired[s[1]]
    BY <1>2
  <2>2. a[1] \in Users /\ b[1] \in Users /\ (a[1] = b[1] => a[2] # b[2])
    OBVIOUS
  <2> QED
    BY <2>1, <2>2
<1> QED
  BY <1>2, <1>3 DEF ListenInv

\* The goroutines that are not cancelled are the manager's sessions, and no two of them
\* have a channel in common, however reconciliations, failures and ends interleave.
THEOREM SoleListeners == ChatSpec => []SoleListener
<1>1. ASSUME \A s \in Users \X Lives : lives[s] = NoLife, \A u \in Users : sessions[u] = None
      PROVE  ListenInv
  <2>1. NoLife.step = "none" /\ NoLife.channels = {}
    BY DEF NoLife
  <2>2. \A s \in Users \X Lives : sessions[s[1]] # s[2]
    BY <1>1, ChatAssumption
  <2> QED
    BY <1>1, <2>1, <2>2 DEF ListenInv, Apart, SessionOK
<1>2. ChatInit => ListenInv
  BY <1>1 DEF ChatInit
<1>3. ASSUME ChatInv, ListenInv, [ChatNext]_chatVars
      PROVE  ListenInv'
  <2>1. ASSUME UNCHANGED <<sessions, lives>>
        PROVE  ListenInv'
    BY <1>3, <2>1 DEF ListenInv, Apart, SessionOK, Live
  <2>2. CASE ReconcileChat
    <3>1. PICK saved \in SUBSET RegValues : Apply(Assign(saved))
      BY <1>3, <2>2, SavedValues DEF ReconcileChat, ChatInv
    <3> QED
      BY <1>3, <3>1, AssignDisjoint, ApplyApart
  <2>3. ASSUME NEW s \in Users \X Lives,
               SessionStep(s) \/ SessionReconnect(s) \/ UrlExpires(s) \/ SessionBreaks(s)
        PROVE  ListenInv'
    <3>1. SessionOK(s)
      BY <1>3 DEF ListenInv
    <3> QED
      BY <1>3, <2>1, <2>3, <3>1, SessionContinues, ContinuesApart
  <2>4. CASE ChatCrash
    <3>1. (\A s \in Users \X Lives : lives'[s] = NoLife) /\ (\A u \in Users : sessions'[u] = None)
      BY <2>4 DEF ChatCrash
    <3>2. NoLife.step = "none" /\ NoLife.channels = {}
      BY DEF NoLife
    <3>3. \A s \in Users \X Lives : sessions'[s[1]] # s[2]
      BY <3>1, ChatAssumption
    <3> QED
      BY <3>1, <3>2, <3>3 DEF ListenInv, Apart, SessionOK
  <2>5. CASE \E i \in Installations, r \in RegValues \cup {None} : SaveRegistration(i, r)
    BY <2>1, <2>5 DEF SaveRegistration
  <2>6. CASE UNCHANGED chatVars
    BY <2>1, <2>6 DEF chatVars
  <2>7. CASE \E u \in Users : SignIn(u) \/ SignOut(u)
    BY <2>1, <2>7 DEF SignIn, SignOut
  <2> QED
    BY <1>3, <2>2, <2>3, <2>4, <2>5, <2>6, <2>7 DEF ChatNext
<1>4. ChatInv /\ ListenInv => SoleListener
  BY DEF ChatInv, ChatTypeOK, ListenInv, Apart, SessionOK, SoleListener
<1> QED
  BY <1>2, <1>3, <1>4, ChatInvariant, PTL DEF ChatSpec
=============================================================================
