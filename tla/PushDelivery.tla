----------------------------- MODULE PushDelivery -----------------------------
(***************************************************************************)
(* The durable notification queue of one backend process:                  *)
(* deliverToRegistration, flushPending under its per-installation lock,    *)
(* the delivery worker, what a device does to the queue over its socket,   *)
(* and the crash of the process between any two of these steps.            *)
(*                                                                         *)
(* Every SQL statement or transaction is one step, and so is every write   *)
(* to a transport: between two steps any other goroutine may run.  The     *)
(* transports are left open: a write ends in any way it can.  PushSystem   *)
(* puts the push WebSocket and its hub in their place.                     *)
(***************************************************************************)
EXTENDS DeliveryTable

CONSTANTS
    Conns,          \* push WebSocket handlers
    Producers,      \* goroutines that call deliverToRegistration
    Worker,         \* the delivery worker
    None,           \* no value
    MaxRecords,     \* MaxDeliveryRecords
    MaxTime,        \* bound: the clock stops here
    MaxSeq,         \* bound: calls of deliverToRegistration
    MaxUpsets       \* bound: failed statements, crashes, changed registrations

ASSUME DeliveryAssumption ==
    /\ MaxRecords \in Nat \ {0}
    /\ MaxTime \in Nat /\ MaxSeq \in Nat /\ MaxUpsets \in Nat
    /\ IsFiniteSet(Producers)
    /\ None \notin Conns \cup Producers \cup {Worker}
    /\ Worker \notin Conns \cup Producers
    /\ Conns \cap Producers = {}

VARIABLES
    deliveries,     \* the deliveries table
    registrations,  \* the provider of each registration, "none" without one
    flush,          \* the flushPending that holds each installation's lock
    producers,      \* the deliverToRegistration call of each producer
    sweep,          \* runDeliveryWorker: the installations left in this tick
    now,            \* the clock
    seq,            \* readings of the clock by deliverToRegistration
    upsets,         \* how many upsets there were
    received        \* history: the events that reached each device

queueVars == <<deliveries, registrations, flush, producers, sweep, now, seq, upsets, received>>

Providers == {"embedded_socket", "push"}
Callers == Conns \cup Producers \cup {Worker}

Idle == [step |-> "idle", holder |-> None, provider |-> "none", batch |-> {}, cur |-> None]
Resting == [step |-> "idle", inst |-> None, event |-> None, seq |-> 0, createdAt |-> 0]
Asleep == [busy |-> FALSE, todo |-> {}]

QueueInit ==
    /\ deliveries = {}
    /\ registrations \in [Installations -> Providers]
    /\ flush = [i \in Installations |-> Idle]
    /\ producers = [p \in Producers |-> Resting]
    /\ sweep = Asleep
    /\ now = 0 /\ seq = 0 /\ upsets = 0
    /\ received = [i \in Installations |-> {}]

Upset == upsets < MaxUpsets /\ upsets' = upsets + 1

\* A statement whose error the caller ignores: it commits, or nothing happens.
Exec(rows) ==
    \/ deliveries' = rows /\ UNCHANGED upsets
    \/ UNCHANGED deliveries /\ Upset

-----------------------------------------------------------------------------
(* deliverToRegistration and the Enqueue transaction.                      *)

\* What follows is done with this registration even if it is deleted meanwhile.
DeliverStart(p, i, e) ==
    /\ producers[p].step = "idle"
    /\ registrations[i] # "none"
    /\ seq < MaxSeq /\ now + TTL[e] <= MaxTime
    /\ producers' = [producers EXCEPT ![p] = [step |-> "count", inst |-> i, event |-> e,
                                              seq |-> seq + 1, createdAt |-> now]]
    /\ seq' = seq + 1
    /\ UNCHANGED <<deliveries, registrations, flush, sweep, now, upsets, received>>

\* Wrong on purpose, for mutation testing: a full table takes one more.
EnqueueCountFull(p) ==
    /\ producers[p].step = "count"
    /\ Cardinality(Cleaned(deliveries, now)) <= MaxRecords
    /\ deliveries' = Cleaned(deliveries, now)
    /\ producers' = [producers EXCEPT ![p].step = "insert"]
    /\ UNCHANGED <<registrations, flush, sweep, now, seq, upsets, received>>

\* The transaction up to its count.  Two may count before either inserts.  What
\* the cleanup changed stays locked until the commit, so it is shown at once; a
\* full table or a failed statement rolls it back.
EnqueueCount(p) ==
    /\ producers[p].step = "count"
    /\ \/ /\ Cardinality(Cleaned(deliveries, now)) < MaxRecords
          /\ deliveries' = Cleaned(deliveries, now)
          /\ producers' = [producers EXCEPT ![p].step = "insert"]
          /\ UNCHANGED upsets
       \/ /\ Cardinality(Cleaned(deliveries, now)) >= MaxRecords
          /\ producers' = [producers EXCEPT ![p] = Resting]
          /\ UNCHANGED <<deliveries, upsets>>
       \/ /\ producers' = [producers EXCEPT ![p] = Resting]
          /\ UNCHANGED deliveries
          /\ Upset
    /\ UNCHANGED <<registrations, flush, sweep, now, seq, received>>

\* Created or not, deliverToRegistration goes on to flushPending.
EnqueueInsert(p) ==
    /\ producers[p].step = "insert"
    /\ deliveries' = Inserted(deliveries, producers[p])
    /\ producers' = [producers EXCEPT ![p].step = "flush"]
    /\ UNCHANGED <<registrations, flush, sweep, now, seq, upsets, received>>

-----------------------------------------------------------------------------
(* flushPending: the lock, the two reads, then one record after the other. *)

\* The same call goes on at another step.
Goto(i, step, batch, cur) ==
    /\ flush' = [flush EXCEPT ![i] =
            [step |-> step, holder |-> @.holder, provider |-> @.provider,
             batch |-> batch, cur |-> cur]]
    /\ UNCHANGED <<producers, sweep>>

\* The deferred Unlock, and the return to the caller x.
Unlock(i, x) ==
    /\ flush' = [flush EXCEPT ![i] = Idle]
    /\ producers' = [p \in Producers |-> IF p = x THEN Resting ELSE producers[p]]
    /\ sweep' = IF x = Worker THEN [sweep EXCEPT !.todo = @ \ {i}] ELSE sweep

Wants(x, i) ==
    \/ x \in Producers /\ producers[x].inst = i /\ producers[x].step = "flush"
    \/ x = Worker /\ i \in sweep.todo
    \/ x \in Conns

\* Lock, then Get the registration.
FlushBegin(i, x) ==
    /\ flush[i].step = "idle"
    /\ Wants(x, i)
    /\ \/ /\ registrations[i] # "none"
          /\ flush' = [flush EXCEPT ![i] =
                [step |-> "list", holder |-> x, provider |-> registrations[i],
                 batch |-> {}, cur |-> None]]
          /\ UNCHANGED <<producers, sweep, upsets>>
       \/ registrations[i] = "none" /\ Unlock(i, x) /\ UNCHANGED upsets
       \/ Unlock(i, x) /\ Upset
    /\ UNCHANGED <<deliveries, registrations, now, seq, received>>

\* What PendingForInstallation returns.
Listed(i) ==
    {[event |-> r.event, seq |-> r.seq] : r \in PendingForInstallation(deliveries, i, now)}

FlushList(i) ==
    /\ flush[i].step = "list"
    /\ \/ /\ Goto(i, "next", Listed(i), None)
          /\ UNCHANGED upsets
       \/ Unlock(i, flush[i].holder) /\ Upset
    /\ UNCHANGED <<deliveries, registrations, now, seq, received>>

\* The loop ends, or hub.Send finds no connection (ErrNotFound).
FlushEnd(i) ==
    /\ flush[i].step = "next"
    /\ flush[i].batch = {} \/ flush[i].provider = "embedded_socket"
    /\ Unlock(i, flush[i].holder)
    /\ UNCHANGED <<deliveries, registrations, now, seq, upsets, received>>

\* The oldest record left in the batch.
Foremost(i) == {s \in flush[i].batch : \A q \in flush[i].batch : s.seq <= q.seq}

\* The write reports success.  A frame on a dead connection may still be lost.
FlushWrite(i, arrives) ==
    /\ flush[i].step = "next"
    /\ flush[i].provider = "push" => arrives
    /\ \E s \in Foremost(i) :
          /\ Goto(i, "ok", flush[i].batch, s)
          /\ received' = [received EXCEPT ![i] = IF arrives THEN @ \cup {s.event} ELSE @]
    /\ UNCHANGED <<deliveries, registrations, now, seq, upsets>>

FlushWriteError(i) ==
    /\ flush[i].step = "next"
    /\ \E s \in Foremost(i) : Goto(i, "bad", flush[i].batch, s)
    /\ UNCHANGED <<deliveries, registrations, now, seq, upsets, received>>

\* Wrong on purpose, for mutation testing: the record stays in the batch.
GotoSame(i) == Goto(i, "next", flush[i].batch, None)

GotoNext(i) == Goto(i, "next", flush[i].batch \ {flush[i].cur}, None)

\* A push service has no acknowledgement of its own: Ack follows at once.
FlushMarkSent(i) ==
    LET f == flush[i]
    IN  /\ f.step = "ok"
        /\ Exec(MarkSent(deliveries, f.cur.seq, now))
        /\ IF f.provider = "push" THEN Goto(i, "ack", f.batch, f.cur) ELSE GotoNext(i)
        /\ UNCHANGED <<registrations, now, seq, received>>

FlushAck(i) ==
    /\ flush[i].step = "ack"
    /\ Exec(Ack(deliveries, i, flush[i].cur.event, now))
    /\ GotoNext(i)
    /\ UNCHANGED <<registrations, now, seq, received>>

\* One failure ends the flush.
FlushMarkFailed(i) ==
    /\ flush[i].step = "bad"
    /\ Exec(MarkFailed(deliveries, flush[i].cur.seq, now))
    /\ Unlock(i, flush[i].holder)
    /\ UNCHANGED <<registrations, now, seq, received>>

-----------------------------------------------------------------------------
(* What a device does: it acknowledges, and on a new connection it reports *)
(* its last event, in both cases an event it has.                          *)

DeviceAck(i, e) ==
    /\ e \in received[i]
    /\ deliveries' = Ack(deliveries, i, e, now)
    /\ UNCHANGED <<registrations, flush, producers, sweep, now, seq, upsets, received>>

DeviceResume(i, e) ==
    /\ e \in received[i]
    /\ deliveries' = AckThrough(deliveries, i, e, now)
    /\ UNCHANGED <<registrations, flush, producers, sweep, now, seq, upsets, received>>

-----------------------------------------------------------------------------
(* Registrations, the delivery worker, time and crashes.                   *)

UpsertRegistration(i, p) ==
    /\ registrations[i] # p
    /\ registrations' = [registrations EXCEPT ![i] = p]
    /\ Upset
    /\ UNCHANGED <<deliveries, flush, producers, sweep, now, seq, received>>

\* The queued deliveries stay.
DeleteRegistration(i) ==
    /\ registrations[i] # "none"
    /\ registrations' = [registrations EXCEPT ![i] = "none"]
    /\ Upset
    /\ UNCHANGED <<deliveries, flush, producers, sweep, now, seq, received>>

\* The second step of a revocation; a registration may be back by then.
DeleteForInstallation(i) ==
    /\ \E r \in deliveries : r.inst = i
    /\ deliveries' = {r \in deliveries : r.inst # i}
    /\ Upset
    /\ UNCHANGED <<registrations, flush, producers, sweep, now, seq, received>>

WorkerTick ==
    /\ ~sweep.busy
    /\ sweep' = [busy |-> TRUE, todo |-> {i \in Installations : registrations[i] # "none"}]
    /\ UNCHANGED <<deliveries, registrations, flush, producers, now, seq, upsets, received>>

WorkerCleanup ==
    /\ sweep.busy /\ sweep.todo = {}
    /\ Exec(Cleaned(deliveries, now))
    /\ sweep' = Asleep
    /\ UNCHANGED <<registrations, flush, producers, now, seq, received>>

Tick ==
    /\ now < MaxTime
    /\ now' = now + 1
    /\ UNCHANGED <<deliveries, registrations, flush, producers, sweep, seq, upsets, received>>

\* Only PostgreSQL and the devices survive.
QueueCrash ==
    /\ Upset
    /\ flush' = [i \in Installations |-> Idle]
    /\ producers' = [p \in Producers |-> Resting]
    /\ sweep' = Asleep
    /\ UNCHANGED <<deliveries, registrations, now, seq, received>>

FlushStep(i) ==
    \/ FlushList(i) \/ FlushEnd(i)
    \/ \E arrives \in BOOLEAN : FlushWrite(i, arrives)
    \/ FlushWriteError(i) \/ FlushMarkSent(i) \/ FlushAck(i) \/ FlushMarkFailed(i)

ProducerStep(p) == EnqueueCount(p) \/ EnqueueInsert(p)

QueueNext ==
    \/ \E i \in Installations :
          \/ \E x \in Callers : FlushBegin(i, x)
          \/ FlushStep(i) \/ DeleteRegistration(i) \/ DeleteForInstallation(i)
          \/ \E p \in Providers : UpsertRegistration(i, p)
          \/ \E e \in Events : DeviceAck(i, e) \/ DeviceResume(i, e)
    \/ \E p \in Producers :
          ProducerStep(p) \/ \E i \in Installations, e \in Events : DeliverStart(p, i, e)
    \/ WorkerTick \/ WorkerCleanup \/ Tick \/ QueueCrash

QueueSpec == QueueInit /\ [][QueueNext]_queueVars

\* Goroutines run on, a waiting sync.Mutex is handed over in the end, every
\* write to a transport has a deadline, and time passes.
QueueFairness ==
    /\ \A i \in Installations : WF_queueVars(FlushStep(i)) /\ SF_queueVars(FlushBegin(i, Worker))
    /\ \A p \in Producers : WF_queueVars(ProducerStep(p))
    /\ \A p \in Producers, i \in Installations : SF_queueVars(FlushBegin(i, p))
    /\ WF_queueVars(WorkerTick) /\ WF_queueVars(WorkerCleanup) /\ WF_queueVars(Tick)

QueueFairSpec == QueueSpec /\ QueueFairness

-----------------------------------------------------------------------------
(* Properties.                                                             *)

FlushState ==
    [step : {"idle", "list", "next", "ok", "bad", "ack"}, holder : Callers \cup {None},
     provider : Providers \cup {"none"}, batch : SUBSET Snapshot, cur : Snapshot \cup {None}]

ProducerState ==
    [step : {"idle", "count", "insert", "flush"}, inst : Installations \cup {None},
     event : Events \cup {None}, seq : Nat, createdAt : Nat]

\* The type of the table and of every goroutine's local state.
TypeOK ==
    /\ deliveries \in SUBSET DeliveryRecord
    /\ registrations \in [Installations -> Providers \cup {"none"}]
    /\ flush \in [Installations -> FlushState]
    /\ producers \in [Producers -> ProducerState]
    /\ sweep \in [busy : BOOLEAN, todo : SUBSET Installations]
    /\ now \in Nat /\ seq \in Nat /\ upsets \in Nat
    /\ received \in [Installations -> SUBSET Events]

\* A duplicate of an event that races the first one, follows it, or meets its
\* purge never makes a second row for the installation, and no two rows share
\* an id (the unique index behind Enqueue's ON CONFLICT).
UniqueDelivery == UniqueKeys(deliveries)

\* A row is given up only when it has expired or when its attempts are used up,
\* and one that waits for a retry has attempts left (MarkFailed, cleanup).
DeathEarned ==
    \A r \in deliveries :
        /\ r.status = "dead" => ExpiresAt(r) <= now \/ r.attempts >= MaxAttempts
        /\ r.status = "pending" => r.attempts < MaxAttempts

\* Transactions that count before the others insert overshoot the capacity by
\* at most one row for each further producer.
CapacityOvershoot ==
    Cardinality(deliveries) + Cardinality({p \in Producers : producers[p].step = "insert"})
        < MaxRecords + Cardinality(Producers)

\* The counter that feeds power(2, attempt_count) stops one past its limit,
\* whatever a flush does with rows that were listed before they changed.
AttemptsBounded == \A r \in deliveries : r.attempts <= PowerLimit + 1

SameRow(r, q) == r.seq = q.seq

\* A row becomes acked only if its event reached the device, or if a row that is
\* not older and whose event did reach the device lies beside it: the resume of
\* a device may acknowledge what it skipped, and nothing else may.
AckStep ==
    \A r \in deliveries, q \in deliveries' :
        SameRow(r, q) /\ r.status # "acked" /\ q.status = "acked" =>
            \E t \in deliveries :
                /\ t.inst = r.inst /\ t.event \in received[r.inst]
                /\ t = r \/ r.seq < t.seq

AckNeedsReceipt == [][AckStep]_queueVars

\* An acked row changes its status again only by the flush that wrote this very
\* row before and has yet to record the outcome: no retry, sweep, cleanup or
\* later flush takes an acknowledgement back.
RegressStep ==
    \A r \in deliveries, q \in deliveries' :
        SameRow(r, q) /\ r.status = "acked" /\ q.status # "acked" =>
            /\ flush[r.inst].step \in {"ok", "bad"}
            /\ flush[r.inst].cur.seq = r.seq

AckOnlyRaced == [][RegressStep]_queueVars

\* What delivery_store_test.go expects of a resumed device: an event that is
\* acknowledged is not pending again.
AckIsFinal ==
    [][\A r \in deliveries, q \in deliveries' :
          SameRow(r, q) /\ r.status = "acked" => q.status = "acked"]_queueVars

Open(n) == \E r \in deliveries : r.seq = n /\ r.status \in {"pending", "sent"}

\* Every notification in the queue is acknowledged, given up or removed in the
\* end, even if its device never returns or its registration is gone.
Settles == \A n \in 1..MaxSeq : Open(n) ~> ~Open(n)

\* flushPending gives its installation's lock back.
FlushReturns == \A i \in Installations : flush[i].step # "idle" ~> flush[i].step = "idle"
=============================================================================
