--------------------------- MODULE PushSystemProofs ----------------------------
(***************************************************************************)
(* Proofs about PushSystem, for any number of connections.                 *)
(***************************************************************************)
EXTENDS PushSystem, PushDeliveryProofs

\* The types of what the hub and the handlers add to the queue.
HubTypeOK ==
    /\ hub \in [Installations -> Conns \cup {None}]
    /\ phase \in [Conns -> Phases]
    /\ home \in [Conns -> Installations \cup {None}]
    /\ prev \in [Conns -> Conns \cup {None}]
    /\ link \in [Conns -> {"up", "cut", "closed"}]
    /\ target \in [Installations -> Conns \cup {None}]
    /\ closing \in SUBSET Installations

\* A handler past its authentication has an installation.
Homed == \A c \in Conns : phase[c] # "new" => home[c] \in Installations

\* The inductive invariant of the hub.
HubInv == HubTypeOK /\ Homed /\ HubLive /\ SupersededCloses

\* A step that leaves the hub, the handlers and the links alone.
LEMMA QuietHub ==
    ASSUME HubInv, UNCHANGED <<hub, phase, home, prev, link>>,
           target' \in [Installations -> Conns \cup {None}], closing' \in SUBSET Installations
    PROVE  HubInv' /\ DetachStep
  BY DEF HubInv, HubTypeOK, Homed, HubLive, SupersededCloses, DetachStep

\* Closing connections is safe at any time.
LEMMA ClosedLinks ==
    ASSUME HubTypeOK, NEW cs
    PROVE  /\ Closed(cs) \in [Conns -> {"up", "cut", "closed"}]
           /\ \A c \in Conns : link[c] = "closed" \/ c \in cs => Closed(cs)[c] = "closed"
  BY DEF HubTypeOK, Closed

\* A handler that enters a phase past its authentication, and stays attached if
\* it was, leaves the hub's promises as they are.
LEMMA EnterPhase ==
    ASSUME HubInv, NEW c \in Conns, NEW p \in Phases, Enter(c, p), phase[c] # "greet",
           phase[c] # "new", p # "greet",
           p \in Attached <=> phase[c] \in Attached,
           UNCHANGED <<hub, home, prev, link, target, closing>>
    PROVE  HubInv' /\ DetachStep
  <1> USE DEF HubInv
  <1>1. HubTypeOK'
    BY DEF HubTypeOK, Enter
  <1>2. Homed'
    BY DEF HubTypeOK, Homed, Enter
  <1>3. HubLive'
    BY DEF HubTypeOK, HubLive, Enter
  <1>4. SupersededCloses'
    BY DEF HubTypeOK, SupersededCloses, Enter
  <1> QED
    BY <1>1, <1>2, <1>3, <1>4 DEF DetachStep

\* The handler of c leaves after it closed what it replaced: Detach takes out
\* its own entry only.
LEMMA LeaveHub ==
    ASSUME HubInv, NEW c \in Conns, phase[c] \in Attached, Left(c),
           UNCHANGED <<home, target, closing>>,
           \/ link' = Closed({prev[c], c}) /\ prev' = [prev EXCEPT ![c] = None]
           \/ link' = Closed({c}) /\ prev' = prev /\ phase[c] # "greet"
    PROVE  HubInv' /\ DetachStep
  <1> USE DEF HubInv
  <1>1. home[c] \in Installations
    BY DEF Homed, HubTypeOK, Attached
  <1>2. /\ hub' \in [Installations -> Conns \cup {None}]
        /\ \A i \in Installations : hub'[i] = IF i = home[c] /\ hub[i] = c THEN None ELSE hub[i]
    BY <1>1 DEF Left, HubTypeOK
  <1>3. /\ phase' \in [Conns -> Phases] /\ phase'[c] = "gone"
        /\ \A d \in Conns \ {c} : phase'[d] = phase[d]
    BY DEF Left, Enter, HubTypeOK, Phases
  <1>4. /\ link' \in [Conns -> {"up", "cut", "closed"}]
        /\ \A d \in Conns : link[d] = "closed" \/ d = c => link'[d] = "closed"
    BY ClosedLinks
  <1>5. HubTypeOK'
    BY <1>2, <1>3, <1>4 DEF HubTypeOK
  <1>6. Homed'
    BY <1>1, <1>3 DEF Homed
  <1>7. HubLive'
    <2> SUFFICES ASSUME NEW i \in Installations, hub'[i] # None
                 PROVE  home[hub'[i]] = i /\ phase'[hub'[i]] \in Attached
      BY DEF HubLive
    <2>1. hub'[i] = hub[i] /\ ~(i = home[c] /\ hub[i] = c)
      BY <1>2
    <2>2. home[hub[i]] = i /\ phase[hub[i]] \in Attached /\ hub[i] \in Conns
      BY <2>1 DEF HubLive, HubTypeOK
    <2>3. hub[i] # c
      BY <2>1, <2>2
    <2> QED
      BY <1>3, <2>1, <2>2, <2>3
  <1>8. SupersededCloses'
    <2> SUFFICES ASSUME NEW d \in Conns, phase'[d] \in Attached, hub'[home[d]] # d,
                        link'[d] # "closed"
                 PROVE  \E o \in Conns : prev'[o] = d /\ phase'[o] = "greet"
      BY DEF SupersededCloses
    <2>1. d # c
      BY <1>4
    <2>2. phase[d] \in Attached /\ home[d] \in Installations /\ link[d] # "closed"
      BY <1>3, <1>4, <2>1 DEF Homed, Attached
    <2>3. hub[home[d]] # d
      BY <1>2, <2>1, <2>2
    <2>4. PICK o \in Conns : prev[o] = d /\ phase[o] = "greet"
      BY <2>2, <2>3 DEF SupersededCloses
    <2>5. o # c
      BY <2>4, ClosedLinks
    <2>6. prev'[o] = d /\ phase'[o] = "greet"
      BY <1>3, <2>4, <2>5 DEF HubTypeOK
    <2> QED
      BY <2>6
  <1>9. DetachStep
    BY <1>2, <1>3 DEF DetachStep
  <1> QED
    BY <1>5, <1>6, <1>7, <1>8, <1>9

\* Attach: what it replaces waits to be closed by the newcomer.
LEMMA AttachHub ==
    ASSUME HubInv, NEW c \in Conns, SocketAttach(c)
    PROVE  HubInv' /\ DetachStep
  <1> USE DEF HubInv
  <1>1. home[c] \in Installations /\ c # None
    BY DeliveryAssumption DEF SocketAttach, Homed
  <1>2. /\ hub' \in [Installations -> Conns \cup {None}] /\ hub'[home[c]] = c
        /\ \A i \in Installations \ {home[c]} : hub'[i] = hub[i]
    BY <1>1 DEF SocketAttach, HubTypeOK
  <1>3. /\ phase' \in [Conns -> Phases] /\ phase[c] = "attach" /\ phase'[c] = "greet"
        /\ \A d \in Conns \ {c} : phase'[d] = phase[d]
    BY DEF SocketAttach, Enter, HubTypeOK, Phases
  <1>4. /\ prev' \in [Conns -> Conns \cup {None}] /\ prev'[c] = hub[home[c]]
        /\ \A d \in Conns \ {c} : prev'[d] = prev[d]
    BY <1>1 DEF SocketAttach, HubTypeOK
  <1>5. UNCHANGED <<home, link, target, closing>>
    BY DEF SocketAttach
  <1>6. HubTypeOK' /\ Homed'
    BY <1>1, <1>2, <1>3, <1>4, <1>5 DEF HubTypeOK, Homed
  <1>7. HubLive'
    <2> SUFFICES ASSUME NEW i \in Installations, hub'[i] # None
                 PROVE  home[hub'[i]] = i /\ phase'[hub'[i]] \in Attached
      BY <1>5 DEF HubLive
    <2>1. CASE i = home[c]
      BY <1>2, <1>3, <2>1 DEF Attached
    <2>2. CASE i # home[c]
      <3>1. hub'[i] = hub[i] /\ home[hub[i]] = i /\ phase[hub[i]] \in Attached /\ hub[i] \in Conns
        BY <1>2, <2>2 DEF HubLive, HubTypeOK
      <3> QED
        BY <1>3, <2>2, <3>1
    <2> QED
      BY <2>1, <2>2
  <1>8. SupersededCloses'
    <2> SUFFICES ASSUME NEW d \in Conns, phase'[d] \in Attached, hub'[home[d]] # d,
                        link[d] # "closed"
                 PROVE  \E o \in Conns : prev'[o] = d /\ phase'[o] = "greet"
      BY <1>5 DEF SupersededCloses
    <2>1. d # c /\ phase[d] \in Attached /\ home[d] \in Installations
      BY <1>2, <1>3 DEF Homed, Attached
    <2>2. CASE hub[home[d]] = d
      BY <1>2, <1>3, <1>4, <2>1, <2>2
    <2>3. CASE hub[home[d]] # d
      <3>1. PICK o \in Conns : prev[o] = d /\ phase[o] = "greet"
        BY <2>1, <2>3 DEF SupersededCloses
      <3> QED
        BY <1>3, <1>4, <3>1
    <2> QED
      BY <2>2, <2>3
  <1>9. DetachStep
    BY <1>1, <1>2 DEF DetachStep
  <1> QED
    BY <1>6, <1>7, <1>8, <1>9

\* The greeting: whether it arrives or not, the replaced connection is closed.
LEMMA GreetHub ==
    ASSUME HubInv, NEW c \in Conns, SocketGreet(c)
    PROVE  HubInv' /\ DetachStep
  <1> USE DEF HubInv
  <1>1. CASE Left(c) /\ link' = Closed({prev[c], c})
    BY <1>1, LeaveHub DEF SocketGreet, Attached
  <1>2. CASE Enter(c, "first") /\ link' = Closed({prev[c]}) /\ UNCHANGED hub
    <2>1. /\ phase' \in [Conns -> Phases] /\ phase[c] = "greet" /\ phase'[c] = "first"
          /\ \A d \in Conns \ {c} : phase'[d] = phase[d]
      BY <1>2 DEF SocketGreet, Enter, HubTypeOK, Phases
    <2>2. /\ prev' \in [Conns -> Conns \cup {None}]
          /\ \A d \in Conns \ {c} : prev'[d] = prev[d]
      BY DEF SocketGreet, HubTypeOK
    <2>3. /\ link' \in [Conns -> {"up", "cut", "closed"}]
          /\ \A d \in Conns : link[d] = "closed" \/ d = prev[c] => link'[d] = "closed"
      BY <1>2, ClosedLinks
    <2>4. UNCHANGED <<home, target, closing>>
      BY DEF SocketGreet
    <2>5. HubTypeOK' /\ Homed'
      BY <1>2, <2>1, <2>2, <2>3, <2>4 DEF HubTypeOK, Homed
    <2>6. \A d \in Conns : phase'[d] \in Attached <=> phase[d] \in Attached
      BY <2>1 DEF Attached
    <2>7. HubLive'
      BY <1>2, <2>4, <2>6 DEF HubLive, HubTypeOK
    <2>8. SupersededCloses'
      BY <1>2, <2>1, <2>2, <2>3, <2>4, <2>6 DEF SupersededCloses
    <2> QED
      BY <1>2, <2>5, <2>7, <2>8 DEF DetachStep
  <1> QED
    BY <1>1, <1>2 DEF SocketGreet

\* The end of the process empties the hub.
LEMMA CrashHub ==
    ASSUME HubInv, SystemCrash
    PROVE  HubInv' /\ DetachStep
  <1> USE DEF HubInv
  <1>1. HubTypeOK'
    BY DEF SystemCrash, HubTypeOK, Phases
  <1>2. \A c \in Conns : phase'[c] = IF phase[c] = "new" THEN "new" ELSE "gone"
    BY DEF SystemCrash
  <1>3. Homed' /\ HubLive' /\ SupersededCloses'
    BY <1>2 DEF SystemCrash, Homed, HubLive, SupersededCloses, Attached
  <1>4. DetachStep
    BY <1>2 DEF DetachStep, HubLive, HubTypeOK, Attached
  <1> QED
    BY <1>1, <1>3, <1>4

\* Links that are cut or closed.
LEMMA LinkHub ==
    ASSUME HubInv, UNCHANGED <<hub, phase, home, prev>>,
           link' \in [Conns -> {"up", "cut", "closed"}],
           \A c \in Conns : link[c] = "closed" => link'[c] = "closed",
           target' \in [Installations -> Conns \cup {None}], closing' \in SUBSET Installations
    PROVE  HubInv' /\ DetachStep
  BY DEF HubInv, HubTypeOK, Homed, HubLive, SupersededCloses, DetachStep

\* Every step of the system keeps the hub's promises.
LEMMA HubStep ==
    ASSUME HubInv, [SystemNext]_systemVars
    PROVE  HubInv' /\ DetachStep
  <1>1. CASE UNCHANGED hubVars
    BY <1>1, QuietHub DEF hubVars, HubInv, HubTypeOK
  <1>2. CASE QueueOnly \/ UNCHANGED systemVars
    BY <1>1, <1>2 DEF QueueOnly, systemVars
  <1>3. ASSUME NEW c \in Conns, SocketStep(c)
        PROVE  HubInv' /\ DetachStep
    <2>1. CASE SocketResume(c)
      BY <2>1, EnterPhase DEF SocketResume, Attached, Phases
    <2>2. CASE SocketAttach(c)
      BY <2>2, AttachHub
    <2>3. CASE SocketGreet(c)
      BY <2>3, GreetHub
    <2>4. CASE SocketFlush(c)
      BY <2>4, EnterPhase DEF SocketFlush, Attached, Phases
    <2>5. CASE SocketHeartbeat(c)
      BY <2>5, EnterPhase DEF SocketHeartbeat, InLoop, Attached, Phases
    <2>6. CASE SocketLeave(c)
      BY <2>6, LeaveHub DEF SocketLeave, InLoop, Attached
    <2> QED
      BY <1>3, <2>1, <2>2, <2>3, <2>4, <2>5, <2>6 DEF SocketStep
  <1>4. ASSUME NEW c \in Conns, DeviceGone(c)
        PROVE  HubInv' /\ DetachStep
    BY <1>4, LinkHub DEF DeviceGone, HubInv, HubTypeOK
  <1>5. ASSUME NEW c \in Conns, NEW i \in Installations, SocketAuthenticate(c, i)
        PROVE  HubInv' /\ DetachStep
    <2> USE DEF HubInv
    <2>1. /\ phase' \in [Conns -> Phases] /\ phase[c] = "new" /\ phase'[c] = "resume"
          /\ \A d \in Conns \ {c} : phase'[d] = phase[d]
      BY <1>5 DEF SocketAuthenticate, Enter, HubTypeOK, Phases
    <2>2. /\ home' \in [Conns -> Installations \cup {None}] /\ home'[c] = i
          /\ \A d \in Conns \ {c} : home'[d] = home[d]
      BY <1>5 DEF SocketAuthenticate, HubTypeOK
    <2>3. UNCHANGED <<hub, prev, link, target, closing>>
      BY <1>5 DEF SocketAuthenticate
    <2>4. HubTypeOK' /\ Homed'
      BY <2>1, <2>2, <2>3 DEF HubTypeOK, Homed
    <2>5. HubLive'
      BY <2>1, <2>2, <2>3 DEF HubLive, HubTypeOK, Attached
    <2>6. SupersededCloses'
      BY <2>1, <2>2, <2>3 DEF SupersededCloses, Attached
    <2> QED
      BY <2>3, <2>4, <2>5, <2>6 DEF DetachStep
  <1>6. ASSUME NEW c \in Conns, NEW e \in Events, SocketAck(c, e)
        PROVE  HubInv' /\ DetachStep
    BY <1>1, <1>6 DEF SocketAck
  <1>7. ASSUME NEW i \in Installations, SendLookup(i)
        PROVE  HubInv' /\ DetachStep
    BY <1>7, QuietHub DEF SendLookup, HubInv, HubTypeOK
  <1>8. ASSUME NEW i \in Installations, SendNotFound(i) \/ SenderWrite(i)
        PROVE  HubInv' /\ DetachStep
    BY <1>1, <1>8 DEF SendNotFound, SenderWrite
  <1>9. ASSUME NEW i \in Installations, SendWrite(i)
        PROVE  HubInv' /\ DetachStep
    <2>1. link' = link \/ link' = Closed({target[i]})
      BY <1>9 DEF SendWrite
    <2>2. /\ link' \in [Conns -> {"up", "cut", "closed"}]
          /\ \A c \in Conns : link[c] = "closed" => link'[c] = "closed"
      BY <2>1, ClosedLinks DEF HubInv, HubTypeOK
    <2> QED
      BY <1>9, <2>2, LinkHub DEF SendWrite, HubInv, HubTypeOK
  <1>10. ASSUME NEW i \in Installations, HubClose(i)
         PROVE  HubInv' /\ DetachStep
    <2>1. /\ link' \in [Conns -> {"up", "cut", "closed"}]
          /\ \A c \in Conns : link[c] = "closed" => link'[c] = "closed"
      BY <1>10, ClosedLinks DEF HubClose, HubInv
    <2> QED
      BY <1>10, <2>1, LinkHub DEF HubClose, HubInv, HubTypeOK
  <1>11. ASSUME NEW i \in Installations, SystemDelete(i)
         PROVE  HubInv' /\ DetachStep
    BY <1>11, QuietHub DEF SystemDelete, HubInv, HubTypeOK
  <1>12. CASE SystemCrash
    BY <1>12, CrashHub
  <1> QED
    BY <1>2, <1>3, <1>4, <1>5, <1>6, <1>7, <1>8, <1>9, <1>10, <1>11, <1>12 DEF SystemNext

\* The hub's invariant holds in every behaviour of the system.
THEOREM HubInvariant == SystemSpec => []HubInv
  <1>1. SystemInit => HubInv
    BY DEF SystemInit, HubInv, HubTypeOK, Homed, HubLive, SupersededCloses, Phases, Attached
  <1>2. HubInv /\ [SystemNext]_systemVars => HubInv'
    BY HubStep
  <1> QED
    BY <1>1, <1>2, PTL DEF SystemSpec

\* The hub never lists a connection whose handler has left, or one of another
\* installation.
THEOREM HubStaysLive == SystemSpec => []HubLive
  BY HubInvariant, PTL DEF HubInv

\* A replaced connection is closed or about to be closed.
THEOREM SupersededIsClosed == SystemSpec => []SupersededCloses
  BY HubInvariant, PTL DEF HubInv

\* No handler detaches another's connection.
THEOREM DetachesOwn == SystemSpec => DetachOwn
  <1>1. HubInv /\ [SystemNext]_systemVars => DetachStep
    BY HubStep
  <1> QED
    BY <1>1, HubInvariant, PTL DEF SystemSpec, DetachOwn

\* Every step of the system is a step of the queue or leaves it alone.
LEMMA StepImplements ==
    ASSUME HubInv, [SystemNext]_systemVars
    PROVE  [QueueNext]_queueVars
  <1>1. CASE UNCHANGED queueVars
    BY <1>1
  <1>2. \A c \in Conns : phase[c] # "new" => home[c] \in Installations
    BY DEF HubInv, Homed
  <1>3. CASE QueueOnly
    BY <1>3 DEF QueueOnly, QueueNext, FlushRest, BatchDone, FlushStep
  <1>4. ASSUME NEW c \in Conns, SocketStep(c)
        PROVE  [QueueNext]_queueVars
    <2>1. CASE SocketResume(c)
      BY <1>2, <2>1 DEF SocketResume, QueueNext
    <2>2. CASE SocketFlush(c)
      BY <1>2, <2>2 DEF SocketFlush, QueueNext, Callers
    <2>3. CASE SocketAttach(c) \/ SocketGreet(c) \/ SocketHeartbeat(c) \/ SocketLeave(c)
      BY <1>1, <2>3 DEF SocketAttach, SocketGreet, SocketHeartbeat, SocketLeave
    <2> QED
      BY <1>4, <2>1, <2>2, <2>3 DEF SocketStep
  <1>5. ASSUME NEW c \in Conns, NEW e \in Events, SocketAck(c, e)
        PROVE  [QueueNext]_queueVars
    BY <1>2, <1>5 DEF SocketAck, QueueNext
  <1>6. ASSUME NEW c \in Conns, DeviceGone(c) \/ \E i \in Installations : SocketAuthenticate(c, i)
        PROVE  [QueueNext]_queueVars
    BY <1>1, <1>6 DEF DeviceGone, SocketAuthenticate
  <1>7. ASSUME NEW i \in Installations, SendLookup(i) \/ HubClose(i)
        PROVE  [QueueNext]_queueVars
    BY <1>1, <1>7 DEF SendLookup, HubClose
  <1>8. ASSUME NEW i \in Installations, SendNotFound(i) \/ SendWrite(i) \/ SenderWrite(i)
        PROVE  [QueueNext]_queueVars
    <2>1. \/ FlushEnd(i) \/ FlushWriteError(i)
          \/ \E arrives \in BOOLEAN : FlushWrite(i, arrives)
      BY <1>8 DEF SendNotFound, SendWrite, SenderWrite
    <2> QED
      BY <2>1 DEF FlushStep, QueueNext
  <1>9. ASSUME NEW i \in Installations, SystemDelete(i)
        PROVE  [QueueNext]_queueVars
    BY <1>9 DEF SystemDelete, QueueNext
  <1>10. CASE SystemCrash
    BY <1>10 DEF SystemCrash, QueueNext
  <1>11. CASE UNCHANGED systemVars
    BY <1>1, <1>11 DEF systemVars
  <1> QED
    BY <1>3, <1>4, <1>5, <1>6, <1>7, <1>8, <1>9, <1>10, <1>11 DEF SystemNext

\* The queue behind the push WebSocket and its hub implements the queue with an
\* open transport.
THEOREM SystemImplementsQueue == SystemSpec => ImplementsQueue
  <1>1. SystemInit => QueueInit
    BY DEF SystemInit
  <1>2. HubInv /\ [SystemNext]_systemVars => [QueueNext]_queueVars
    BY StepImplements
  <1> QED
    BY <1>1, <1>2, HubInvariant, PTL DEF SystemSpec, QueueSpec, ImplementsQueue

\* The system keeps its types.
THEOREM SystemTypes == SystemSpec => []SystemTypeOK
  <1>1. TypeOK /\ HubInv => SystemTypeOK
    BY DEF HubInv, HubTypeOK, SystemTypeOK
  <1>2. SystemSpec => []TypeOK
    BY SystemImplementsQueue, QueueTypeOK DEF ImplementsQueue
  <1> QED
    BY <1>1, <1>2, HubInvariant, PTL

=============================================================================
