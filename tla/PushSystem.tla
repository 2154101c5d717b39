------------------------------ MODULE PushSystem ------------------------------
(***************************************************************************)
(* The notification queue with the push WebSocket as its transport: the    *)
(* pushSocket handler of every connection, the PushHub that knows one      *)
(* connection per installation, and flushPending writing through it.       *)
(*                                                                         *)
(* Every action is an action of PushDelivery under the conditions that the *)
(* hub and the sockets put on it, or leaves the queue alone.               *)
(***************************************************************************)
EXTENDS PushDelivery

VARIABLES
    hub,        \* PushHub.connections
    phase,      \* how far each pushSocket handler is
    home,       \* the installation a connection authenticated for
    prev,       \* the connection it replaced in the hub and has yet to close
    link,       \* "up", "cut" (the network lost it, nobody noticed) or "closed"
    target,     \* the connection the flush has looked up in the hub
    closing     \* installations with a hub.Close still to come

hubVars == <<hub, phase, home, prev, link, target, closing>>
systemVars == <<queueVars, hubVars>>

Phases == {"new", "resume", "attach", "greet", "first", "flushed", "serve", "beat", "gone"}
Attached == {"greet", "first", "flushed", "serve", "beat"}

SystemInit ==
    /\ QueueInit
    /\ hub = [i \in Installations |-> None]
    /\ phase = [c \in Conns |-> "new"]
    /\ home = [c \in Conns |-> None]
    /\ prev = [c \in Conns |-> None]
    /\ link = [c \in Conns |-> "up"]
    /\ target = [i \in Installations |-> None]
    /\ closing = {}

\* pushSocketConnection.close of every connection of a set.
Closed(cs) == [c \in Conns |-> IF c \in cs THEN "closed" ELSE link[c]]

Enter(c, p) == phase' = [phase EXCEPT ![c] = p]

-----------------------------------------------------------------------------
(* pushSocket.                                                             *)

SocketAuthenticate(c, i) ==
    /\ phase[c] = "new" /\ link[c] = "up"
    /\ registrations[i] = "embedded_socket"
    /\ Enter(c, "resume")
    /\ home' = [home EXCEPT ![c] = i]
    /\ UNCHANGED <<queueVars, hub, prev, link, target, closing>>

\* The device names its last event or none; an error of AckThrough is ignored.
SocketResume(c) ==
    /\ phase[c] = "resume"
    /\ UNCHANGED queueVars \/ \E e \in Events : DeviceResume(home[c], e)
    /\ Enter(c, "attach")
    /\ UNCHANGED <<hub, home, prev, link, target, closing>>

\* Attach up to its unlock.
SocketAttach(c) ==
    /\ phase[c] = "attach"
    /\ hub' = [hub EXCEPT ![home[c]] = c]
    /\ prev' = [prev EXCEPT ![c] = hub[home[c]]]
    /\ Enter(c, "greet")
    /\ UNCHANGED <<queueVars, home, link, target, closing>>

\* Wrong on purpose, for mutation testing: no Detach.
LeftAttached(c) == UNCHANGED hub /\ Enter(c, "gone")

\* Wrong on purpose, for mutation testing: Detach does not compare.
LeftAny(c) == hub' = [hub EXCEPT ![home[c]] = None] /\ Enter(c, "gone")

\* The deferred Detach, and the return.
Left(c) ==
    /\ hub' = [hub EXCEPT ![home[c]] = IF @ = c THEN None ELSE @]
    /\ Enter(c, "gone")

\* Wrong on purpose, for mutation testing: the replaced one stays open.
SocketGreetOnly(c) ==
    /\ phase[c] = "greet"
    /\ prev' = [prev EXCEPT ![c] = None]
    /\ link[c] # "closed"
    /\ Enter(c, "first")
    /\ UNCHANGED <<queueVars, hub, home, link, target, closing>>

\* Attach closes the connection it replaced, then comes the greeting.
SocketGreet(c) ==
    /\ phase[c] = "greet"
    /\ prev' = [prev EXCEPT ![c] = None]
    /\ \/ /\ link[c] # "closed"
          /\ Enter(c, "first")
          /\ link' = Closed({prev[c]})
          /\ UNCHANGED hub
       \/ /\ link[c] # "up"
          /\ Left(c)
          /\ link' = Closed({prev[c], c})
    /\ UNCHANGED <<queueVars, home, target, closing>>

\* Wrong on purpose, for mutation testing: a flush without the lock.
SocketFlushUnlocked(c) ==
    /\ phase[c] \in {"first", "beat"} /\ registrations[home[c]] # "none"
    /\ flush' = [flush EXCEPT ![home[c]] =
            [step |-> "list", holder |-> c, provider |-> registrations[home[c]],
             batch |-> {}, cur |-> None]]
    /\ Enter(c, IF phase[c] = "first" THEN "flushed" ELSE "serve")
    /\ UNCHANGED <<deliveries, registrations, producers, sweep, now, seq, upsets, received>>
    /\ UNCHANGED <<hub, home, prev, link, target, closing>>

\* The flush at the start, and the one after each heartbeat.
SocketFlush(c) ==
    /\ phase[c] \in {"first", "beat"}
    /\ FlushBegin(home[c], c)
    /\ Enter(c, IF phase[c] = "first" THEN "flushed" ELSE "serve")
    /\ UNCHANGED <<hub, home, prev, link, target, closing>>

\* The main loop is in its select; a first flush is over when it is.
InLoop(c) == phase[c] \in {"flushed", "serve"} /\ flush[home[c]].holder # c

SocketHeartbeat(c) ==
    /\ InLoop(c) /\ link[c] # "closed"
    /\ Enter(c, "beat")
    /\ UNCHANGED <<queueVars, hub, home, prev, link, target, closing>>

\* The device left, its reader failed, or somebody closed the connection.
SocketLeave(c) ==
    /\ InLoop(c)
    /\ Left(c)
    /\ link' = Closed({c})
    /\ UNCHANGED <<queueVars, home, prev, target, closing>>

\* The reader goroutine runs beside the loop and may still hold a message when
\* the handler has left.
SocketAck(c, e) ==
    /\ phase[c] \in {"flushed", "serve", "beat", "gone"}
    /\ phase[c] = "flushed" => InLoop(c)
    /\ DeviceAck(home[c], e)
    /\ UNCHANGED hubVars

DeviceGone(c) ==
    /\ link[c] = "up" /\ phase[c] \notin {"new", "gone"}
    /\ link' = [link EXCEPT ![c] = "cut"]
    /\ UNCHANGED <<queueVars, hub, phase, home, prev, target, closing>>

-----------------------------------------------------------------------------
(* PushHub.Send inside flushPending.                                       *)

SendLookup(i) ==
    /\ flush[i].step = "next" /\ flush[i].batch # {}
    /\ flush[i].provider = "embedded_socket"
    /\ target[i] = None /\ hub[i] # None
    /\ target' = [target EXCEPT ![i] = hub[i]]
    /\ UNCHANGED <<queueVars, hub, phase, home, prev, link, closing>>

SendNotFound(i) ==
    /\ flush[i].batch # {} /\ flush[i].provider = "embedded_socket"
    /\ target[i] = None /\ hub[i] = None
    /\ FlushEnd(i)
    /\ UNCHANGED hubVars

SendWrite(i) ==
    LET c == target[i]
    IN  /\ c # None
        /\ \/ link[c] # "closed" /\ FlushWrite(i, link[c] = "up") /\ UNCHANGED link
           \/ link[c] # "up" /\ FlushWriteError(i) /\ link' = Closed({c})
        /\ target' = [target EXCEPT ![i] = None]
        /\ UNCHANGED <<hub, phase, home, prev, closing>>

\* APNs, FCM or UnifiedPush.
SenderWrite(i) ==
    /\ flush[i].provider = "push"
    /\ FlushWrite(i, TRUE) \/ FlushWriteError(i)
    /\ UNCHANGED hubVars

\* hub.Close of deleteRegistration and of a revocation.
HubClose(i) ==
    /\ i \in closing
    /\ closing' = closing \ {i}
    /\ link' = Closed({hub[i]})
    /\ UNCHANGED <<queueVars, hub, phase, home, prev, target>>

SystemCrash ==
    /\ QueueCrash
    /\ hub' = [i \in Installations |-> None]
    /\ phase' = [c \in Conns |-> IF phase[c] = "new" THEN "new" ELSE "gone"]
    /\ prev' = [c \in Conns |-> None]
    /\ link' = [c \in Conns |-> IF phase[c] = "new" THEN link[c] ELSE "closed"]
    /\ target' = [i \in Installations |-> None]
    /\ closing' = {}
    /\ UNCHANGED home

SystemDelete(i) ==
    /\ DeleteRegistration(i)
    /\ closing' = closing \cup {i}
    /\ UNCHANGED <<hub, phase, home, prev, link, target>>

BatchDone(i) == flush[i].batch = {} /\ FlushEnd(i)

\* The steps of flushPending that write to no transport.
FlushRest(i) ==
    FlushList(i) \/ BatchDone(i) \/ FlushMarkSent(i) \/ FlushAck(i) \/ FlushMarkFailed(i)

\* The steps of the queue that no socket takes part in.
QueueOnly ==
    /\ \/ \E i \in Installations :
            \/ \E x \in Callers \ Conns : FlushBegin(i, x)
            \/ FlushRest(i) \/ DeleteForInstallation(i)
            \/ \E p \in Providers : UpsertRegistration(i, p)
       \/ \E p \in Producers :
            ProducerStep(p) \/ \E i \in Installations, e \in Events : DeliverStart(p, i, e)
       \/ WorkerTick \/ WorkerCleanup \/ Tick
    /\ UNCHANGED hubVars

SocketStep(c) ==
    \/ SocketResume(c) \/ SocketAttach(c) \/ SocketGreet(c) \/ SocketFlush(c)
    \/ SocketHeartbeat(c) \/ SocketLeave(c)

SystemNext ==
    \/ QueueOnly
    \/ \E c \in Conns :
          \/ SocketStep(c) \/ DeviceGone(c)
          \/ \E i \in Installations : SocketAuthenticate(c, i)
          \/ \E e \in Events : SocketAck(c, e)
    \/ \E i \in Installations :
          \/ SendLookup(i) \/ SendNotFound(i) \/ SendWrite(i) \/ SenderWrite(i)
          \/ HubClose(i) \/ SystemDelete(i)
    \/ SystemCrash

SystemSpec == SystemInit /\ [][SystemNext]_systemVars

-----------------------------------------------------------------------------
(* Properties.                                                             *)

\* The type of the hub and of the handlers' local state.
SystemTypeOK ==
    /\ TypeOK
    /\ hub \in [Installations -> Conns \cup {None}]
    /\ phase \in [Conns -> Phases]
    /\ home \in [Conns -> Installations \cup {None}]
    /\ prev \in [Conns -> Conns \cup {None}]
    /\ link \in [Conns -> {"up", "cut", "closed"}]
    /\ target \in [Installations -> Conns \cup {None}]
    /\ closing \in SUBSET Installations

\* The hub lists a connection only for its own installation and only while its
\* handler runs: no handler leaves itself behind, whatever replaced it.
HubLive ==
    \A i \in Installations :
        hub[i] # None => home[hub[i]] = i /\ phase[hub[i]] \in Attached

\* A connection that was replaced in the hub is closed, or the connection that
\* replaced it is about to close it: a device never keeps two live sockets.
SupersededCloses ==
    \A c \in Conns : phase[c] \in Attached /\ hub[home[c]] # c =>
        link[c] = "closed" \/ \E d \in Conns : prev[d] = c /\ phase[d] = "greet"

\* A connection that is in the hub is taken out by its own handler, by a newer
\* one that takes its place, or by the end of the process; the late exit of a
\* replaced handler never detaches its successor.
DetachStep ==
    \A i \in Installations : hub[i] # None /\ hub'[i] = None =>
        phase'[hub[i]] = "gone"

DetachOwn == [][DetachStep]_systemVars

\* The queue with sockets is an implementation of the queue with an open
\* transport: what is checked and proved of PushDelivery holds of it.
ImplementsQueue == QueueSpec

\* Handlers and flushes run on, a mutex is handed over in the end, and a
\* select that finds its connection closed takes that branch in the end.
SystemFairness ==
    /\ \A c \in Conns :
        /\ WF_systemVars(SocketResume(c) \/ SocketAttach(c) \/ SocketGreet(c))
        /\ SF_systemVars(SocketFlush(c))
        /\ SF_systemVars(link[c] = "closed" /\ SocketLeave(c))
    /\ \A i \in Installations :
        /\ WF_systemVars(FlushRest(i) /\ UNCHANGED hubVars)
        /\ WF_systemVars(SendLookup(i) \/ SendNotFound(i) \/ SendWrite(i) \/ SenderWrite(i))

SystemFairSpec == SystemSpec /\ SystemFairness

\* The handler of a replaced connection ends and frees what it holds, even if
\* it was inside a flush when it was replaced.
ReplacedEnds ==
    \A c \in Conns : phase[c] \in Attached /\ hub[home[c]] # c ~> phase[c] = "gone"
=============================================================================
