-------------------------- MODULE PushDeliveryProofs ---------------------------
(***************************************************************************)
(* Proofs about PushDelivery, for any number of installations, events,     *)
(* producers and connections and for every value of the bounds.            *)
(***************************************************************************)
EXTENDS PushDelivery, FiniteSetTheorems, TLAPS

-----------------------------------------------------------------------------
(* What the statements on the deliveries table preserve, for every set of  *)
(* rows: each yields rows, keeps them unique, and leaves to every row that *)
(* remains its key.                                                        *)

\* q is what a statement made of the row r.
SameKey(q, r) ==
    q.inst = r.inst /\ q.event = r.event /\ q.seq = r.seq /\ q.createdAt = r.createdAt

\* The times of a row are natural numbers (notificationTTL is a duration).
LEMMA TimesAreNat ==
    ASSUME NEW r \in DeliveryRecord
    PROVE  ExpiresAt(r) \in Nat
  BY TableAssumption DEF ExpiresAt, DeliveryRecord

\* The backoff LEAST(64, power(2, n)) is a number of seconds.
LEMMA BackoffIsNat ==
    ASSUME NEW n \in Nat
    PROVE  Backoff(n) \in Nat
  <1>1. n < 6 => n \in {0, 1, 2, 3, 4, 5}
    OBVIOUS
  <1> QED
    BY <1>1 DEF Backoff

\* Expired changes the status of an expired row and nothing else.
LEMMA ExpiredRow ==
    ASSUME NEW r \in DeliveryRecord, NEW clock \in Nat
    PROVE  /\ Expired(r, clock) \in DeliveryRecord
           /\ SameKey(Expired(r, clock), r)
           /\ Expired(r, clock).attempts = r.attempts
           /\ \/ Expired(r, clock).status = r.status
              \/ /\ r.status # "acked" /\ Expired(r, clock).status = "dead"
                 /\ ExpiresAt(r) <= clock
  BY DEF Expired, DeliveryRecord, Statuses, SameKey

\* The outcome of an attempt sets the status and counts the attempt.
LEMMA AttemptedRow ==
    ASSUME NEW r \in DeliveryRecord, NEW s \in Statuses
    PROVE  /\ Attempted(r, s) \in DeliveryRecord /\ SameKey(Attempted(r, s), r)
           /\ Attempted(r, s).status = s /\ Attempted(r, s).attempts = r.attempts + 1
  <1> DEFINE u == [r EXCEPT !.status = s]
  <1>1. /\ u \in DeliveryRecord /\ SameKey(u, r)
        /\ u.status = s /\ u.attempts = r.attempts
    BY DEF DeliveryRecord, Statuses, SameKey
  <1>2. Attempted(r, s) = [u EXCEPT !.attempts = @ + 1]
    BY DEF Attempted, DeliveryRecord, Statuses
  <1> HIDE DEF u
  <1> QED
    BY <1>1, <1>2 DEF DeliveryRecord, SameKey

\* Setting available_at leaves the rest of the row.
LEMMA LaterRow ==
    ASSUME NEW r \in DeliveryRecord, NEW t \in Nat
    PROVE  /\ Later(r, t) \in DeliveryRecord /\ SameKey(Later(r, t), r)
           /\ Later(r, t).status = r.status /\ Later(r, t).attempts = r.attempts
  BY DEF Later, DeliveryRecord, Statuses, SameKey

\* Sent counts an attempt, or leaves the row alone when power() overflows.
LEMMA SentRow ==
    ASSUME NEW r \in DeliveryRecord, NEW clock \in Nat
    PROVE  /\ Sent(r, clock) \in DeliveryRecord
           /\ SameKey(Sent(r, clock), r)
           /\ \/ Sent(r, clock) = r
              \/ /\ Sent(r, clock).status = "sent"
                 /\ Sent(r, clock).attempts = r.attempts + 1
                 /\ r.attempts < PowerLimit
  <1> DEFINE t == clock + Backoff(r.attempts)
             u == Attempted(r, "sent")
  <1>1. t \in Nat
    BY BackoffIsNat DEF DeliveryRecord
  <1>2. /\ u \in DeliveryRecord /\ SameKey(u, r)
        /\ u.status = "sent" /\ u.attempts = r.attempts + 1
    BY AttemptedRow DEF Statuses
  <1>3. Sent(r, clock) = IF r.attempts < PowerLimit THEN Later(u, t) ELSE r
    BY DEF Sent
  <1> HIDE DEF t, u
  <1>4. /\ Later(u, t) \in DeliveryRecord /\ SameKey(Later(u, t), u)
        /\ Later(u, t).status = u.status /\ Later(u, t).attempts = u.attempts
    BY <1>1, <1>2, LaterRow
  <1> QED
    BY <1>2, <1>3, <1>4 DEF SameKey

\* Failed counts an attempt, and the row dies or waits for the next one.
LEMMA FailedRow ==
    ASSUME NEW r \in DeliveryRecord, NEW clock \in Nat
    PROVE  /\ Failed(r, clock) \in DeliveryRecord
           /\ SameKey(Failed(r, clock), r)
           /\ Failed(r, clock).attempts = r.attempts + 1
           /\ \/ /\ Failed(r, clock).status = "dead"
                 /\ r.attempts + 1 >= MaxAttempts \/ ExpiresAt(r) <= clock
              \/ /\ Failed(r, clock).status = "pending"
                 /\ r.attempts + 1 < MaxAttempts
  <1> DEFINE t == clock + Backoff(r.attempts)
             u == Attempted(r, "pending")
             d == Attempted(r, "dead")
             over == r.attempts + 1 >= MaxAttempts \/ ExpiresAt(r) <= clock
  <1>1. t \in Nat
    BY BackoffIsNat DEF DeliveryRecord
  <1>2. /\ u \in DeliveryRecord /\ SameKey(u, r)
        /\ u.status = "pending" /\ u.attempts = r.attempts + 1
        /\ d \in DeliveryRecord /\ SameKey(d, r)
        /\ d.status = "dead" /\ d.attempts = r.attempts + 1
    BY AttemptedRow DEF Statuses
  <1>3. Failed(r, clock) = IF over THEN d ELSE Later(u, t)
    BY DEF Failed
  <1>4. ~over => r.attempts + 1 < MaxAttempts
    BY TableAssumption DEF DeliveryRecord
  <1> HIDE DEF t, u, d
  <1>5. /\ Later(u, t) \in DeliveryRecord /\ SameKey(Later(u, t), u)
        /\ Later(u, t).status = u.status /\ Later(u, t).attempts = u.attempts
    BY <1>1, <1>2, LaterRow
  <1> QED
    BY <1>2, <1>3, <1>4, <1>5 DEF SameKey

\* Acked keeps everything but the status and its time.
LEMMA AckedRow ==
    ASSUME NEW r \in DeliveryRecord, NEW clock \in Nat
    PROVE  /\ Acked(r, clock) \in DeliveryRecord
           /\ SameKey(Acked(r, clock), r)
           /\ Acked(r, clock).attempts = r.attempts
           /\ Acked(r, clock).status = "acked"
  BY DEF Acked, DeliveryRecord, Statuses, SameKey

\* Cleanup: rows die of age or disappear.
LEMMA CleanedRows ==
    ASSUME NEW rows \in SUBSET DeliveryRecord, NEW clock \in Nat
    PROVE  /\ Cleaned(rows, clock) \in SUBSET DeliveryRecord
           /\ UniqueKeys(rows) => UniqueKeys(Cleaned(rows, clock))
           /\ \A q \in Cleaned(rows, clock) : \E r \in rows :
                 /\ SameKey(q, r) /\ q.attempts = r.attempts
                 /\ \/ q.status = r.status
                    \/ r.status # "acked" /\ q.status = "dead" /\ ExpiresAt(r) <= clock
  <1>1. \A q \in Cleaned(rows, clock) : \E r \in rows : q = Expired(r, clock)
    BY DEF Cleaned
  <1> QED
    BY <1>1, ExpiredRow DEF UniqueKeys, SameKey

\* MarkSent changes the row with the given id.
LEMMA MarkSentRows ==
    ASSUME NEW rows \in SUBSET DeliveryRecord, NEW clock \in Nat, NEW id
    PROVE  /\ MarkSent(rows, id, clock) \in SUBSET DeliveryRecord
           /\ UniqueKeys(rows) => UniqueKeys(MarkSent(rows, id, clock))
           /\ \A q \in MarkSent(rows, id, clock) : \E r \in rows :
                 /\ SameKey(q, r)
                 /\ \/ q = r
                    \/ /\ r.seq = id /\ q.status = "sent"
                       /\ q.attempts = r.attempts + 1 /\ r.attempts < PowerLimit
  <1>1. \A q \in MarkSent(rows, id, clock) : \E r \in rows :
            q = IF r.seq = id THEN Sent(r, clock) ELSE r
    BY DEF MarkSent
  <1> QED
    BY <1>1, SentRow DEF UniqueKeys, SameKey

\* MarkFailed changes the row with the given id.
LEMMA MarkFailedRows ==
    ASSUME NEW rows \in SUBSET DeliveryRecord, NEW clock \in Nat, NEW id
    PROVE  /\ MarkFailed(rows, id, clock) \in SUBSET DeliveryRecord
           /\ UniqueKeys(rows) => UniqueKeys(MarkFailed(rows, id, clock))
           /\ \A q \in MarkFailed(rows, id, clock) : \E r \in rows :
                 /\ SameKey(q, r)
                 /\ \/ q = r
                    \/ /\ r.seq = id /\ q.attempts = r.attempts + 1
                       /\ \/ /\ q.status = "dead"
                             /\ q.attempts >= MaxAttempts \/ ExpiresAt(r) <= clock
                          \/ q.status = "pending" /\ q.attempts < MaxAttempts
  <1>1. \A q \in MarkFailed(rows, id, clock) : \E r \in rows :
            q = IF r.seq = id THEN Failed(r, clock) ELSE r
    BY DEF MarkFailed
  <1> QED
    BY <1>1, FailedRow DEF UniqueKeys, SameKey

\* Ack changes the row of the event.
LEMMA AckRows ==
    ASSUME NEW rows \in SUBSET DeliveryRecord, NEW clock \in Nat, NEW i, NEW e
    PROVE  /\ Ack(rows, i, e, clock) \in SUBSET DeliveryRecord
           /\ UniqueKeys(rows) => UniqueKeys(Ack(rows, i, e, clock))
           /\ \A q \in Ack(rows, i, e, clock) : \E r \in rows :
                 /\ SameKey(q, r) /\ q.attempts = r.attempts
                 /\ \/ q = r
                    \/ r.inst = i /\ r.event = e /\ q.status = "acked"
  <1>1. \A q \in Ack(rows, i, e, clock) : \E r \in rows :
            q = IF r.inst = i /\ r.event = e THEN Acked(r, clock) ELSE r
    BY DEF Ack
  <1> QED
    BY <1>1, AckedRow DEF UniqueKeys, SameKey

\* AckThrough changes rows that are not newer than the row of the event.
LEMMA AckThroughRows ==
    ASSUME NEW rows \in SUBSET DeliveryRecord, NEW clock \in Nat, NEW i, NEW e
    PROVE  /\ AckThrough(rows, i, e, clock) \in SUBSET DeliveryRecord
           /\ UniqueKeys(rows) => UniqueKeys(AckThrough(rows, i, e, clock))
           /\ \A q \in AckThrough(rows, i, e, clock) : \E r \in rows :
                 /\ SameKey(q, r) /\ q.attempts = r.attempts
                 /\ \/ q = r
                    \/ /\ r.inst = i /\ q.status = "acked"
                       /\ \E t \in rows : t.inst = i /\ t.event = e /\ r.seq <= t.seq
  <1>1. \A q \in AckThrough(rows, i, e, clock) : \E r \in rows :
            q = IF /\ r.inst = i
                   /\ \E t \in rows : t.inst = i /\ t.event = e /\ r.seq <= t.seq
                  THEN Acked(r, clock) ELSE r
    BY DEF AckThrough
  <1> QED
    BY <1>1, AckedRow DEF UniqueKeys, SameKey

\* Inserted adds at most the one pending row.
LEMMA InsertedRows ==
    ASSUME NEW rows \in SUBSET DeliveryRecord, NEW d,
           d.inst \in Installations, d.event \in Events, d.seq \in Nat, d.createdAt \in Nat
    PROVE  /\ Inserted(rows, d) \in SUBSET DeliveryRecord
           /\ UniqueKeys(rows) /\ (\A r \in rows : r.seq # d.seq) =>
                 UniqueKeys(Inserted(rows, d))
           /\ \A q \in Inserted(rows, d) :
                 \/ q \in rows
                 \/ /\ q.inst = d.inst /\ q.event = d.event /\ q.seq = d.seq
                    /\ q.status = "pending" /\ q.attempts = 0
  <1> DEFINE n == [inst |-> d.inst, event |-> d.event, seq |-> d.seq,
                   createdAt |-> d.createdAt, availableAt |-> d.createdAt,
                   status |-> "pending", attempts |-> 0, ackedAt |-> 0]
  <1>1. n \in DeliveryRecord
    BY DEF DeliveryRecord, Statuses
  <1>2. CASE Holds(rows, d.inst, d.event)
    BY <1>2 DEF Inserted
  <1>3. CASE ~Holds(rows, d.inst, d.event)
    <2>1. Inserted(rows, d) = rows \cup {n}
      BY <1>3 DEF Inserted
    <2>2. /\ n.inst = d.inst /\ n.event = d.event /\ n.seq = d.seq
          /\ n.status = "pending" /\ n.attempts = 0
      OBVIOUS
    <2>3. \A r \in rows : ~(r.inst = n.inst /\ r.event = n.event)
      BY <1>3, <2>2 DEF Holds
    <2> HIDE DEF n
    <2> QED
      BY <1>1, <2>1, <2>2, <2>3 DEF UniqueKeys
  <1> QED
    BY <1>2, <1>3

-----------------------------------------------------------------------------
(* The queue.                                                              *)

\* A call of deliverToRegistration that is under way has its arguments.
Addressed ==
    \A p \in Producers : producers[p].step # "idle" =>
        producers[p].inst \in Installations /\ producers[p].event \in Events

\* The call still holds an id that it may insert.
Inserting(p) == producers[p].step \in {"count", "insert"}

\* Ids are drawn once: no row, no listed record and no other call has the id of
\* a call that may still insert.
IdsFresh ==
    /\ \A r \in deliveries : r.seq <= seq
    /\ \A p \in Producers : Inserting(p) => producers[p].seq <= seq
    /\ \A p, q \in Producers :
          Inserting(p) /\ Inserting(q) /\ producers[p].seq = producers[q].seq => p = q
    /\ \A p \in Producers : Inserting(p) => \A r \in deliveries : r.seq # producers[p].seq

\* The record in hand is one of the listed ones.
InHand ==
    \A i \in Installations :
        flush[i].step \in {"ok", "bad", "ack"} => flush[i].cur \in flush[i].batch

\* What a flush has listed: if the row is still there, it is a row of this
\* installation with an attempt left, and nobody can insert another with its id.
Listings ==
    \A i \in Installations : \A s \in flush[i].batch :
        /\ s.seq <= seq
        /\ \A p \in Producers : Inserting(p) => s.seq # producers[p].seq
        /\ \A r \in deliveries : r.seq = s.seq => r.inst = i /\ r.attempts <= PowerLimit

\* Only a row that is settled can have used its last attempt.
OpenHasAttempts ==
    \A r \in deliveries : r.status \in {"pending", "sent"} => r.attempts <= PowerLimit

\* A flush records the outcome of a push only after the push went out.
PushedReceived ==
    \A i \in Installations :
        flush[i].step = "ack" \/ (flush[i].step = "ok" /\ flush[i].provider = "push") =>
            flush[i].cur.event \in received[i]

\* The inductive invariant.
QueueInv ==
    /\ TypeOK /\ Addressed
    /\ IdsFresh /\ UniqueDelivery
    /\ InHand /\ Listings /\ PushedReceived
    /\ OpenHasAttempts /\ AttemptsBounded /\ DeathEarned

-----------------------------------------------------------------------------
(* Type correctness.                                                       *)

\* The records that a flush lists are snapshots of rows.
LEMMA ListedSnapshots ==
    ASSUME deliveries \in SUBSET DeliveryRecord, NEW i
    PROVE  /\ Listed(i) \in SUBSET Snapshot
           /\ \A s \in Listed(i) : \E r \in deliveries :
                 /\ s.seq = r.seq /\ s.event = r.event
                 /\ r.inst = i /\ r.status \in {"pending", "sent"}
  <1>1. \A r \in PendingForInstallation(deliveries, i, now) :
            r \in deliveries /\ r.inst = i /\ r.status \in {"pending", "sent"}
    BY DEF PendingForInstallation, Oldest
  <1>2. \A s \in Listed(i) : \E r \in PendingForInstallation(deliveries, i, now) :
            s = [event |-> r.event, seq |-> r.seq]
    BY DEF Listed
  <1> QED
    BY <1>1, <1>2 DEF Snapshot, DeliveryRecord

\* A caller comes back to the lock's release in every case.
LEMMA UnlockType ==
    ASSUME TypeOK, Addressed, NEW i \in Installations, NEW x, Unlock(i, x)
    PROVE  /\ flush' \in [Installations -> FlushState]
           /\ producers' \in [Producers -> ProducerState]
           /\ sweep' \in [busy : BOOLEAN, todo : SUBSET Installations]
           /\ Addressed'
  <1>1. Idle \in FlushState
    BY DEF Idle, FlushState, Snapshot
  <1>2. Resting \in ProducerState
    BY DEF Resting, ProducerState
  <1>3. flush' \in [Installations -> FlushState]
    BY <1>1 DEF TypeOK, Unlock
  <1>4. producers' \in [Producers -> ProducerState]
    BY <1>2 DEF TypeOK, Unlock
  <1>5. sweep' \in [busy : BOOLEAN, todo : SUBSET Installations]
    BY DEF TypeOK, Unlock
  <1>6. Addressed'
    BY DEF Addressed, Unlock, Resting, TypeOK
  <1> QED
    BY <1>3, <1>4, <1>5, <1>6

\* The next step of the same flush.
LEMMA GotoType ==
    ASSUME TypeOK, Addressed, NEW i \in Installations,
           NEW step \in {"idle", "list", "next", "ok", "bad", "ack"},
           NEW batch \in SUBSET Snapshot, NEW cur \in Snapshot \cup {None},
           Goto(i, step, batch, cur)
    PROVE  /\ flush' \in [Installations -> FlushState]
           /\ producers' \in [Producers -> ProducerState]
           /\ sweep' \in [busy : BOOLEAN, todo : SUBSET Installations]
           /\ Addressed'
  BY DEF TypeOK, Goto, FlushState, Addressed

\* A statement whose error is ignored leaves rows behind in either case.
LEMMA ExecType ==
    ASSUME TypeOK, NEW rows \in SUBSET DeliveryRecord, Exec(rows)
    PROVE  deliveries' \in SUBSET DeliveryRecord /\ upsets' \in Nat
  BY DEF TypeOK, Exec, Upset

\* The steps of flushPending keep the types.
LEMMA FlushType ==
    ASSUME TypeOK, Addressed, NEW i \in Installations,
           FlushStep(i) \/ \E x \in Callers : FlushBegin(i, x)
    PROVE  TypeOK' /\ Addressed'
  <1>1. ASSUME NEW x \in Callers, FlushBegin(i, x)
        PROVE  TypeOK' /\ Addressed'
    <2>1. CASE Unlock(i, x)
      BY <1>1, <2>1, UnlockType DEF FlushBegin, TypeOK, Upset
    <2>2. CASE ~Unlock(i, x)
      <3>1. /\ flush' = [flush EXCEPT ![i] =
                    [step |-> "list", holder |-> x, provider |-> registrations[i],
                     batch |-> {}, cur |-> None]]
            /\ UNCHANGED <<deliveries, registrations, producers, sweep, now, seq, upsets, received>>
        BY <1>1, <2>2 DEF FlushBegin
      <3>2. registrations[i] \in Providers \cup {"none"} /\ {} \in SUBSET Snapshot
        BY DEF TypeOK
      <3>3. [step |-> "list", holder |-> x, provider |-> registrations[i],
             batch |-> {}, cur |-> None] \in FlushState
        BY <3>2 DEF FlushState
      <3> QED
        BY <3>1, <3>3 DEF TypeOK, Addressed
    <2> QED
      BY <2>1, <2>2
  <1>2. CASE FlushList(i)
    <2>1. CASE Goto(i, "next", Listed(i), None)
      <3>1. Listed(i) \in SUBSET Snapshot
        BY ListedSnapshots DEF TypeOK
      <3>2. /\ flush' \in [Installations -> FlushState]
            /\ producers' \in [Producers -> ProducerState]
            /\ sweep' \in [busy : BOOLEAN, todo : SUBSET Installations]
            /\ Addressed'
        BY <2>1, <3>1, GotoType
      <3> QED
        BY <1>2, <3>2 DEF FlushList, TypeOK, Upset
    <2>2. CASE Unlock(i, flush[i].holder)
      BY <1>2, <2>2, UnlockType DEF FlushList, TypeOK, Upset
    <2> QED
      BY <1>2, <2>1, <2>2 DEF FlushList
  <1>3. CASE FlushEnd(i)
    BY <1>3, UnlockType DEF FlushEnd, TypeOK
  <1>4. flush[i].batch \in SUBSET Snapshot /\ flush[i].cur \in Snapshot \cup {None}
    BY DEF TypeOK, FlushState
  <1>5. ASSUME NEW arrives \in BOOLEAN, FlushWrite(i, arrives)
        PROVE  TypeOK' /\ Addressed'
    <2>1. PICK s \in Foremost(i) :
              /\ Goto(i, "ok", flush[i].batch, s)
              /\ received' = [received EXCEPT ![i] = IF arrives THEN @ \cup {s.event} ELSE @]
      BY <1>5 DEF FlushWrite
    <2>2. s \in Snapshot /\ s.event \in Events
      BY <1>4 DEF Foremost, Snapshot
    <2>3. received' \in [Installations -> SUBSET Events]
      BY <2>1, <2>2 DEF TypeOK
    <2> QED
      BY <1>4, <1>5, <2>1, <2>2, <2>3, GotoType DEF FlushWrite, TypeOK
  <1>6. CASE FlushWriteError(i)
    <2>1. PICK s \in Foremost(i) : Goto(i, "bad", flush[i].batch, s)
      BY <1>6 DEF FlushWriteError
    <2>2. s \in Snapshot
      BY <1>4 DEF Foremost
    <2> QED
      BY <1>4, <1>6, <2>1, <2>2, GotoType DEF FlushWriteError, TypeOK
  <1>7. ASSUME GotoNext(i)
        PROVE  /\ flush' \in [Installations -> FlushState]
               /\ producers' \in [Producers -> ProducerState]
               /\ sweep' \in [busy : BOOLEAN, todo : SUBSET Installations]
               /\ Addressed'
    <2>1. flush[i].batch \ {flush[i].cur} \in SUBSET Snapshot
      BY <1>4
    <2> QED
      BY <1>7, <2>1, GotoType DEF GotoNext
  <1>8. CASE FlushMarkSent(i)
    <2>1. MarkSent(deliveries, flush[i].cur.seq, now) \in SUBSET DeliveryRecord
      BY MarkSentRows DEF TypeOK
    <2>2. deliveries' \in SUBSET DeliveryRecord /\ upsets' \in Nat
      BY <1>8, <2>1, ExecType DEF FlushMarkSent
    <2>3. Goto(i, "ack", flush[i].batch, flush[i].cur) \/ GotoNext(i)
      BY <1>8 DEF FlushMarkSent
    <2>4. /\ flush' \in [Installations -> FlushState]
          /\ producers' \in [Producers -> ProducerState]
          /\ sweep' \in [busy : BOOLEAN, todo : SUBSET Installations]
          /\ Addressed'
      BY <1>4, <1>7, <2>3, GotoType
    <2> QED
      BY <1>8, <2>2, <2>4 DEF FlushMarkSent, TypeOK
  <1>9. CASE FlushAck(i)
    <2>1. Ack(deliveries, i, flush[i].cur.event, now) \in SUBSET DeliveryRecord
      BY AckRows DEF TypeOK
    <2>2. deliveries' \in SUBSET DeliveryRecord /\ upsets' \in Nat
      BY <1>9, <2>1, ExecType DEF FlushAck
    <2> QED
      BY <1>7, <1>9, <2>2 DEF FlushAck, TypeOK
  <1>10. CASE FlushMarkFailed(i)
    <2>1. MarkFailed(deliveries, flush[i].cur.seq, now) \in SUBSET DeliveryRecord
      BY MarkFailedRows DEF TypeOK
    <2>2. deliveries' \in SUBSET DeliveryRecord /\ upsets' \in Nat
      BY <1>10, <2>1, ExecType DEF FlushMarkFailed
    <2> QED
      BY <1>10, <2>2, UnlockType DEF FlushMarkFailed, TypeOK
  <1> QED
    BY <1>1, <1>2, <1>3, <1>5, <1>6, <1>8, <1>9, <1>10 DEF FlushStep

\* So do those of deliverToRegistration.
LEMMA ProducerType ==
    ASSUME TypeOK, Addressed, NEW p \in Producers,
           ProducerStep(p) \/ \E i \in Installations, e \in Events : DeliverStart(p, i, e)
    PROVE  TypeOK' /\ Addressed'
  <1>1. Resting \in ProducerState
    BY DEF Resting, ProducerState
  <1>2. CASE EnqueueCount(p)
    <2>1. Cleaned(deliveries, now) \in SUBSET DeliveryRecord
      BY CleanedRows DEF TypeOK
    <2>2. deliveries' \in SUBSET DeliveryRecord /\ upsets' \in Nat
      BY <1>2, <2>1 DEF EnqueueCount, TypeOK, Upset
    <2>3. CASE producers' = [producers EXCEPT ![p] = Resting]
      BY <1>1, <1>2, <2>2, <2>3 DEF EnqueueCount, TypeOK, Addressed, Resting
    <2>4. CASE producers' = [producers EXCEPT ![p].step = "insert"]
      <3>1. producers' \in [Producers -> ProducerState]
        BY <2>4 DEF TypeOK, ProducerState
      <3>2. Addressed'
        BY <1>2, <2>4 DEF EnqueueCount, TypeOK, Addressed, ProducerState
      <3> QED
        BY <1>2, <2>2, <3>1, <3>2 DEF EnqueueCount, TypeOK
    <2> QED
      BY <1>2, <2>3, <2>4 DEF EnqueueCount
  <1>3. CASE EnqueueInsert(p)
    <2>1. /\ producers[p].inst \in Installations /\ producers[p].event \in Events
          /\ producers[p].seq \in Nat /\ producers[p].createdAt \in Nat
      BY <1>3 DEF EnqueueInsert, Addressed, TypeOK, ProducerState
    <2>2. deliveries' \in SUBSET DeliveryRecord
      BY <1>3, <2>1, InsertedRows DEF EnqueueInsert, TypeOK
    <2>3. producers' \in [Producers -> ProducerState]
      BY <1>3 DEF EnqueueInsert, TypeOK, ProducerState
    <2>4. Addressed'
      BY <1>3 DEF EnqueueInsert, TypeOK, Addressed, ProducerState
    <2> QED
      BY <1>3, <2>2, <2>3, <2>4 DEF EnqueueInsert, TypeOK
  <1>4. ASSUME NEW i \in Installations, NEW e \in Events, DeliverStart(p, i, e)
        PROVE  TypeOK' /\ Addressed'
    <2> DEFINE d == [step |-> "count", inst |-> i, event |-> e, seq |-> seq + 1, createdAt |-> now]
    <2>1. d \in ProducerState /\ d.inst = i /\ d.event = e
      BY DEF ProducerState, TypeOK
    <2>2. producers' = [producers EXCEPT ![p] = d]
      BY <1>4 DEF DeliverStart
    <2> HIDE DEF d
    <2> QED
      BY <1>4, <2>1, <2>2 DEF DeliverStart, TypeOK, Addressed
  <1> QED
    BY <1>2, <1>3, <1>4 DEF ProducerStep

\* Every step of the queue keeps the types.
LEMMA TypeStep ==
    ASSUME TypeOK, Addressed, [QueueNext]_queueVars
    PROVE  TypeOK' /\ Addressed'
  <1>1. CASE UNCHANGED queueVars
    BY <1>1 DEF queueVars, TypeOK, Addressed
  <1>2. ASSUME NEW i \in Installations, FlushStep(i) \/ \E x \in Callers : FlushBegin(i, x)
        PROVE  TypeOK' /\ Addressed'
    BY <1>2, FlushType
  <1>3. ASSUME NEW p \in Producers,
               ProducerStep(p) \/ \E i \in Installations, e \in Events : DeliverStart(p, i, e)
        PROVE  TypeOK' /\ Addressed'
    BY <1>3, ProducerType
  <1>4. ASSUME NEW i \in Installations,
               DeleteRegistration(i) \/ \E q \in Providers : UpsertRegistration(i, q)
        PROVE  TypeOK' /\ Addressed'
    BY <1>4 DEF DeleteRegistration, UpsertRegistration, Upset, TypeOK, Addressed
  <1>5. ASSUME NEW i \in Installations, DeleteForInstallation(i)
        PROVE  TypeOK' /\ Addressed'
    BY <1>5 DEF DeleteForInstallation, Upset, TypeOK, Addressed
  <1>6. ASSUME NEW i \in Installations, NEW e \in Events, DeviceAck(i, e)
        PROVE  TypeOK' /\ Addressed'
    BY <1>6, AckRows DEF DeviceAck, TypeOK, Addressed
  <1>7. ASSUME NEW i \in Installations, NEW e \in Events, DeviceResume(i, e)
        PROVE  TypeOK' /\ Addressed'
    BY <1>7, AckThroughRows DEF DeviceResume, TypeOK, Addressed
  <1>8. CASE WorkerTick
    BY <1>8 DEF WorkerTick, TypeOK, Addressed
  <1>9. CASE WorkerCleanup
    <2>1. Cleaned(deliveries, now) \in SUBSET DeliveryRecord
      BY CleanedRows DEF TypeOK
    <2>2. deliveries' \in SUBSET DeliveryRecord /\ upsets' \in Nat
      BY <1>9, <2>1, ExecType DEF WorkerCleanup
    <2> QED
      BY <1>9, <2>2 DEF WorkerCleanup, Asleep, TypeOK, Addressed
  <1>10. CASE Tick
    BY <1>10 DEF Tick, TypeOK, Addressed
  <1>11. CASE QueueCrash
    <2>1. Idle \in FlushState
      BY DEF Idle, FlushState, Snapshot
    <2>2. Resting \in ProducerState /\ Resting.step = "idle"
      BY DEF Resting, ProducerState
    <2> QED
      BY <1>11, <2>1, <2>2 DEF QueueCrash, Upset, Asleep, TypeOK, Addressed
  <1> QED
    BY <1>1, <1>2, <1>3, <1>4, <1>5, <1>6, <1>7, <1>8, <1>9, <1>10, <1>11 DEF QueueNext

\* The table and every goroutine's local state keep their types in every
\* behaviour of the queue.
THEOREM QueueTypeOK == QueueSpec => []TypeOK
  <1>1. QueueInit => TypeOK /\ Addressed
    <2>1. Idle \in FlushState
      BY DEF Idle, FlushState, Snapshot
    <2>2. Resting \in ProducerState /\ Resting.step = "idle"
      BY DEF Resting, ProducerState
    <2> QED
      BY <2>1, <2>2 DEF QueueInit, TypeOK, Addressed, Asleep
  <1>2. TypeOK /\ Addressed /\ [QueueNext]_queueVars => (TypeOK /\ Addressed)'
    BY TypeStep
  <1> QED
    BY <1>1, <1>2, PTL DEF QueueSpec

-----------------------------------------------------------------------------
(* What a step may do to a row: q is the row after it, r before it.        *)

Kept(q, r) == q.status = r.status /\ q.attempts = r.attempts

Aged(q, r) ==
    /\ r.status # "acked" /\ q.status = "dead" /\ q.attempts = r.attempts
    /\ ExpiresAt(r) <= now

Acknowledged(q, r) ==
    /\ q.status = "acked" /\ q.attempts = r.attempts
    /\ \E t \in deliveries :
          t.inst = r.inst /\ t.event \in received[r.inst] /\ r.seq <= t.seq

Written(q, r) ==
    /\ q.status = "sent" /\ q.attempts = r.attempts + 1 /\ r.attempts < PowerLimit
    /\ \E i \in Installations : flush[i].step = "ok" /\ flush[i].cur.seq = r.seq

Refused(q, r) ==
    /\ q.attempts = r.attempts + 1
    /\ \/ q.status = "dead" /\ (q.attempts >= MaxAttempts \/ ExpiresAt(r) <= now)
       \/ q.status = "pending" /\ q.attempts < MaxAttempts
    /\ \E i \in Installations :
          flush[i].step = "bad" /\ flush[i].cur.seq = r.seq /\ flush'[i] = Idle

Created(q) ==
    /\ q.status = "pending" /\ q.attempts = 0
    /\ \E p \in Producers :
          /\ producers[p].step = "insert" /\ producers'[p].step = "flush"
          /\ q.seq = producers[p].seq

RowStep(q) ==
    \/ Created(q)
    \/ \E r \in deliveries :
          /\ SameKey(q, r)
          /\ Kept(q, r) \/ Aged(q, r) \/ Acknowledged(q, r) \/ Written(q, r) \/ Refused(q, r)

\* What a step may do to the table.
RowSteps == UniqueKeys(deliveries') /\ \A q \in deliveries' : RowStep(q)

\* A step that leaves the table alone.
LEMMA QuietRows ==
    ASSUME UniqueDelivery, UNCHANGED deliveries
    PROVE  RowSteps
  BY DEF RowSteps, RowStep, Kept, SameKey, UniqueDelivery

\* Cleanup, in an Enqueue or in the worker's tick.
LEMMA CleanedSteps ==
    ASSUME TypeOK, UniqueDelivery, deliveries' = Cleaned(deliveries, now)
    PROVE  RowSteps
  <1>1. /\ UniqueKeys(deliveries')
        /\ \A q \in deliveries' : \E r \in deliveries :
              /\ SameKey(q, r) /\ q.attempts = r.attempts
              /\ \/ q.status = r.status
                 \/ r.status # "acked" /\ q.status = "dead" /\ ExpiresAt(r) <= now
    BY CleanedRows DEF TypeOK, UniqueDelivery
  <1>2. \A q \in deliveries' : \E r \in deliveries :
            SameKey(q, r) /\ (Kept(q, r) \/ Aged(q, r))
    BY <1>1 DEF Kept, Aged
  <1> QED
    BY <1>1, <1>2 DEF RowSteps, RowStep

\* An acknowledgement of one event that reached the device.
LEMMA AckSteps ==
    ASSUME TypeOK, UniqueDelivery, NEW i \in Installations, NEW e \in received[i],
           deliveries' = Ack(deliveries, i, e, now)
    PROVE  RowSteps
  <1>1. /\ UniqueKeys(deliveries')
        /\ \A q \in deliveries' : \E r \in deliveries :
              /\ SameKey(q, r) /\ q.attempts = r.attempts
              /\ q = r \/ (r.inst = i /\ r.event = e /\ q.status = "acked")
    BY AckRows DEF TypeOK, UniqueDelivery
  <1>2. \A r \in deliveries : r.seq <= r.seq
    BY DEF TypeOK, DeliveryRecord
  <1>3. \A q \in deliveries' : \E r \in deliveries :
            SameKey(q, r) /\ (Kept(q, r) \/ Acknowledged(q, r))
    BY <1>1, <1>2 DEF Kept, Acknowledged
  <1> QED
    BY <1>1, <1>3 DEF RowSteps, RowStep

\* A resume at an event that reached the device.
LEMMA AckThroughSteps ==
    ASSUME TypeOK, UniqueDelivery, NEW i \in Installations, NEW e \in received[i],
           deliveries' = AckThrough(deliveries, i, e, now)
    PROVE  RowSteps
  <1>1. /\ UniqueKeys(deliveries')
        /\ \A q \in deliveries' : \E r \in deliveries :
              /\ SameKey(q, r) /\ q.attempts = r.attempts
              /\ \/ q = r
                 \/ /\ r.inst = i /\ q.status = "acked"
                    /\ \E t \in deliveries : t.inst = i /\ t.event = e /\ r.seq <= t.seq
    BY AckThroughRows DEF TypeOK, UniqueDelivery
  <1>2. \A q \in deliveries' : \E r \in deliveries :
            SameKey(q, r) /\ (Kept(q, r) \/ Acknowledged(q, r))
    BY <1>1 DEF Kept, Acknowledged
  <1> QED
    BY <1>1, <1>2 DEF RowSteps, RowStep

\* The outcome of a write that succeeded.
LEMMA MarkSentSteps ==
    ASSUME TypeOK, UniqueDelivery, NEW i \in Installations, flush[i].step = "ok",
           deliveries' = MarkSent(deliveries, flush[i].cur.seq, now)
    PROVE  RowSteps
  <1>1. /\ UniqueKeys(deliveries')
        /\ \A q \in deliveries' : \E r \in deliveries :
              /\ SameKey(q, r)
              /\ \/ q = r
                 \/ /\ r.seq = flush[i].cur.seq /\ q.status = "sent"
                    /\ q.attempts = r.attempts + 1 /\ r.attempts < PowerLimit
    BY MarkSentRows DEF TypeOK, UniqueDelivery
  <1>2. \A q \in deliveries' : \E r \in deliveries :
            SameKey(q, r) /\ (Kept(q, r) \/ Written(q, r))
    BY <1>1 DEF Kept, Written
  <1> QED
    BY <1>1, <1>2 DEF RowSteps, RowStep

\* The outcome of a write that failed.
LEMMA MarkFailedSteps ==
    ASSUME TypeOK, UniqueDelivery, NEW i \in Installations, flush[i].step = "bad",
           flush'[i] = Idle,
           deliveries' = MarkFailed(deliveries, flush[i].cur.seq, now)
    PROVE  RowSteps
  <1>1. /\ UniqueKeys(deliveries')
        /\ \A q \in deliveries' : \E r \in deliveries :
              /\ SameKey(q, r)
              /\ \/ q = r
                 \/ /\ r.seq = flush[i].cur.seq /\ q.attempts = r.attempts + 1
                    /\ \/ /\ q.status = "dead"
                          /\ q.attempts >= MaxAttempts \/ ExpiresAt(r) <= now
                       \/ q.status = "pending" /\ q.attempts < MaxAttempts
    BY MarkFailedRows DEF TypeOK, UniqueDelivery
  <1>2. \A q \in deliveries' : \E r \in deliveries :
            SameKey(q, r) /\ (Kept(q, r) \/ Refused(q, r))
    BY <1>1 DEF Kept, Refused
  <1> QED
    BY <1>1, <1>2 DEF RowSteps, RowStep

\* The insert of an Enqueue.
LEMMA InsertSteps ==
    ASSUME TypeOK, Addressed, IdsFresh, UniqueDelivery,
           NEW p \in Producers, EnqueueInsert(p)
    PROVE  RowSteps
  <1>1. /\ producers[p].inst \in Installations /\ producers[p].event \in Events
        /\ producers[p].seq \in Nat /\ producers[p].createdAt \in Nat
    BY DEF EnqueueInsert, Addressed, TypeOK, ProducerState
  <1>2. \A r \in deliveries : r.seq # producers[p].seq
    BY DEF EnqueueInsert, IdsFresh, Inserting
  <1>3. /\ UniqueKeys(deliveries')
        /\ \A q \in deliveries' :
              \/ q \in deliveries
              \/ q.seq = producers[p].seq /\ q.status = "pending" /\ q.attempts = 0
    BY <1>1, <1>2, InsertedRows DEF EnqueueInsert, TypeOK, UniqueDelivery
  <1>4. producers[p].step = "insert" /\ producers'[p].step = "flush"
    BY DEF EnqueueInsert, TypeOK, ProducerState
  <1> QED
    BY <1>3, <1>4 DEF RowSteps, RowStep, Created, Kept, SameKey

\* Every step treats the rows of the table in one of these ways.
LEMMA TableStep ==
    ASSUME QueueInv, [QueueNext]_queueVars
    PROVE  RowSteps
  <1> USE DEF QueueInv
  <1>1. CASE UNCHANGED deliveries
    BY <1>1, QuietRows
  <1>2. ASSUME NEW i \in Installations, FlushStep(i)
        PROVE  RowSteps
    <2>1. CASE FlushMarkSent(i)
      BY <2>1, <1>1, MarkSentSteps DEF FlushMarkSent, Exec
    <2>2. CASE FlushAck(i)
      <3>1. flush[i].cur.event \in received[i]
        BY <2>2 DEF FlushAck, PushedReceived
      <3> QED
        BY <2>2, <3>1, <1>1, AckSteps DEF FlushAck, Exec
    <2>3. CASE FlushMarkFailed(i)
      <3>1. flush'[i] = Idle
        BY <2>3 DEF FlushMarkFailed, Unlock, TypeOK
      <3> QED
        BY <2>3, <3>1, <1>1, MarkFailedSteps DEF FlushMarkFailed, Exec
    <2> QED
      BY <1>1, <1>2, <2>1, <2>2, <2>3
      DEF FlushStep, FlushList, FlushEnd, FlushWrite, FlushWriteError
  <1>3. ASSUME NEW p \in Producers, ProducerStep(p)
        PROVE  RowSteps
    BY <1>1, <1>3, CleanedSteps, InsertSteps DEF ProducerStep, EnqueueCount
  <1>4. ASSUME NEW i \in Installations, NEW e \in Events, DeviceAck(i, e) \/ DeviceResume(i, e)
        PROVE  RowSteps
    BY <1>4, AckSteps, AckThroughSteps DEF DeviceAck, DeviceResume
  <1>5. ASSUME NEW i \in Installations, DeleteForInstallation(i)
        PROVE  RowSteps
    BY <1>5 DEF DeleteForInstallation, RowSteps, RowStep, Kept, SameKey, UniqueDelivery, UniqueKeys
  <1>6. CASE WorkerCleanup
    BY <1>1, <1>6, CleanedSteps DEF WorkerCleanup, Exec
  <1>7. ASSUME NEW i \in Installations,
               \/ \E x \in Callers : FlushBegin(i, x)
               \/ DeleteRegistration(i)
               \/ \E p \in Providers : UpsertRegistration(i, p)
        PROVE  RowSteps
    BY <1>1, <1>7 DEF FlushBegin, DeleteRegistration, UpsertRegistration
  <1>8. ASSUME NEW p \in Producers, NEW i \in Installations, NEW e \in Events, DeliverStart(p, i, e)
        PROVE  RowSteps
    BY <1>1, <1>8 DEF DeliverStart
  <1>9. CASE WorkerTick \/ Tick \/ QueueCrash \/ UNCHANGED queueVars
    BY <1>1, <1>9 DEF WorkerTick, Tick, QueueCrash, queueVars
  <1> QED
    BY <1>2, <1>3, <1>4, <1>5, <1>6, <1>7, <1>8, <1>9 DEF QueueNext

-----------------------------------------------------------------------------
(* What a step may do to the calls under way and to the listed records.    *)

\* p has just started, with the newest id.
Started(p) ==
    /\ seq' = seq + 1 /\ producers'[p].seq = seq + 1
    /\ \A q \in Producers \ {p} : producers'[q] = producers[q]

\* The clock does not run backwards, ids are drawn in order, and a call that may
\* insert has just started or holds the id it had.
CallSteps ==
    /\ seq' >= seq /\ now' >= now
    /\ \A p \in Producers : Inserting(p)' =>
          Started(p) \/ (Inserting(p) /\ producers'[p].seq = producers[p].seq)

\* A flush returns to its caller, or stays where it is.
LEMMA UnlockCalls ==
    ASSUME TypeOK, NEW i, NEW x, Unlock(i, x), UNCHANGED <<seq, now>>
    PROVE  CallSteps
  BY DEF TypeOK, Unlock, Resting, CallSteps, Inserting

\* Nothing happens to the calls.
LEMMA QuietCalls ==
    ASSUME TypeOK, UNCHANGED <<producers, seq>>, now' = now \/ now' = now + 1
    PROVE  CallSteps
  BY DEF TypeOK, CallSteps, Inserting

\* Every step treats the calls in this way.
LEMMA CallStep ==
    ASSUME TypeOK, [QueueNext]_queueVars
    PROVE  CallSteps
  <1>1. ASSUME NEW i \in Installations, FlushStep(i) \/ \E x \in Callers : FlushBegin(i, x)
        PROVE  CallSteps
    BY <1>1, UnlockCalls, QuietCalls
    DEF FlushStep, FlushBegin, FlushList, FlushEnd, FlushWrite, FlushWriteError,
        FlushMarkSent, FlushAck, FlushMarkFailed, GotoNext, Goto
  <1>2. ASSUME NEW p \in Producers, EnqueueCount(p) \/ EnqueueInsert(p)
        PROVE  CallSteps
    <2>1. UNCHANGED <<seq, now>> /\ seq \in Nat /\ now \in Nat
      BY <1>2 DEF EnqueueCount, EnqueueInsert, TypeOK
    <2>2. producers'[p].step \in {"idle", "flush"} \/
             (Inserting(p) /\ producers'[p].seq = producers[p].seq)
      BY <1>2 DEF EnqueueCount, EnqueueInsert, TypeOK, ProducerState, Resting, Inserting
    <2>3. \A q \in Producers \ {p} : producers'[q] = producers[q]
      BY <1>2 DEF EnqueueCount, EnqueueInsert, TypeOK
    <2> QED
      BY <2>1, <2>2, <2>3 DEF CallSteps, Inserting
  <1>3. ASSUME NEW p \in Producers, NEW i \in Installations, NEW e \in Events, DeliverStart(p, i, e)
        PROVE  CallSteps
    BY <1>3 DEF DeliverStart, TypeOK, CallSteps, Started, Inserting
  <1>4. CASE QueueCrash
    BY <1>4 DEF QueueCrash, TypeOK, CallSteps, Inserting, Resting
  <1>5. ASSUME NEW i \in Installations, DeleteRegistration(i) \/ DeleteForInstallation(i)
        PROVE  CallSteps
    BY <1>5, QuietCalls DEF DeleteRegistration, DeleteForInstallation
  <1>6. ASSUME NEW i \in Installations, NEW p \in Providers, UpsertRegistration(i, p)
        PROVE  CallSteps
    BY <1>6, QuietCalls DEF UpsertRegistration
  <1>7. ASSUME NEW i \in Installations, NEW e \in Events, DeviceAck(i, e) \/ DeviceResume(i, e)
        PROVE  CallSteps
    BY <1>7, QuietCalls DEF DeviceAck, DeviceResume
  <1>8. CASE WorkerTick \/ WorkerCleanup \/ Tick \/ UNCHANGED queueVars
    BY <1>8, QuietCalls DEF WorkerTick, WorkerCleanup, Tick, queueVars
  <1> QED
    BY <1>1, <1>2, <1>3, <1>4, <1>5, <1>6, <1>7, <1>8 DEF QueueNext, ProducerStep

\* A flush keeps its listing but for the record it is done with, or lists anew.
BatchSteps ==
    \A i \in Installations :
        \/ flush'[i].batch \subseteq flush[i].batch
        \/ flush'[i].batch = Listed(i) /\ UNCHANGED <<deliveries, producers, seq>>

\* Nothing happens to the flushes.
LEMMA QuietFlush ==
    ASSUME InHand, PushedReceived, UNCHANGED <<flush, received>>
    PROVE  BatchSteps /\ InHand' /\ PushedReceived'
  BY DEF BatchSteps, InHand, PushedReceived

\* A flush gives the lock back.
LEMMA UnlockFlush ==
    ASSUME TypeOK, InHand, PushedReceived, NEW i \in Installations, NEW x, Unlock(i, x),
           UNCHANGED received
    PROVE  BatchSteps /\ InHand' /\ PushedReceived'
  BY DEF TypeOK, Unlock, Idle, BatchSteps, InHand, PushedReceived

\* Every step treats the flushes in this way.
LEMMA BatchStep ==
    ASSUME TypeOK, InHand, PushedReceived, [QueueNext]_queueVars
    PROVE  BatchSteps /\ InHand' /\ PushedReceived'
  <1> DEFINE Goal == BatchSteps /\ InHand' /\ PushedReceived'
  <1>1. ASSUME NEW i \in Installations, NEW x \in Callers, FlushBegin(i, x)
        PROVE  Goal
    <2>1. CASE Unlock(i, x)
      BY <1>1, <2>1, UnlockFlush DEF FlushBegin
    <2>2. CASE ~Unlock(i, x)
      BY <1>1, <2>2 DEF FlushBegin, TypeOK, BatchSteps, InHand, PushedReceived
    <2> QED
      BY <2>1, <2>2
  <1>2. ASSUME NEW i \in Installations, FlushStep(i)
        PROVE  Goal
    <2>1. CASE FlushList(i)
      <3>1. CASE Unlock(i, flush[i].holder)
        BY <2>1, <3>1, UnlockFlush DEF FlushList
      <3>2. CASE Goto(i, "next", Listed(i), None)
        BY <2>1, <3>2 DEF FlushList, Goto, TypeOK, BatchSteps, InHand, PushedReceived
      <3> QED
        BY <2>1, <3>1, <3>2 DEF FlushList
    <2>2. CASE FlushEnd(i) \/ FlushMarkFailed(i)
      BY <2>2, UnlockFlush DEF FlushEnd, FlushMarkFailed
    <2>3. ASSUME NEW arrives \in BOOLEAN, FlushWrite(i, arrives)
          PROVE  Goal
      <3>1. PICK s \in Foremost(i) :
                /\ Goto(i, "ok", flush[i].batch, s)
                /\ received' = [received EXCEPT ![i] = IF arrives THEN @ \cup {s.event} ELSE @]
        BY <2>3 DEF FlushWrite
      <3>2. s \in flush[i].batch /\ (flush[i].provider = "push" => s.event \in received'[i])
        BY <2>3, <3>1 DEF Foremost, FlushWrite, TypeOK
      <3>3. \A j \in Installations : received[j] \subseteq received'[j]
        BY <3>1 DEF TypeOK
      <3> QED
        BY <3>1, <3>2, <3>3 DEF Goto, TypeOK, BatchSteps, InHand, PushedReceived
    <2>4. CASE FlushWriteError(i)
      BY <2>4 DEF FlushWriteError, Foremost, Goto, TypeOK, BatchSteps, InHand, PushedReceived
    <2>5. CASE FlushMarkSent(i) \/ FlushAck(i)
      BY <2>5 DEF FlushMarkSent, FlushAck, GotoNext, Goto, TypeOK, BatchSteps, InHand, PushedReceived
    <2> QED
      BY <1>2, <2>1, <2>2, <2>3, <2>4, <2>5 DEF FlushStep
  <1>3. ASSUME NEW p \in Producers, ProducerStep(p)
        PROVE  Goal
    BY <1>3, QuietFlush DEF ProducerStep, EnqueueCount, EnqueueInsert
  <1>4. ASSUME NEW p \in Producers, NEW i \in Installations, NEW e \in Events, DeliverStart(p, i, e)
        PROVE  Goal
    BY <1>4, QuietFlush DEF DeliverStart
  <1>5. ASSUME NEW i \in Installations, DeleteRegistration(i) \/ DeleteForInstallation(i)
        PROVE  Goal
    BY <1>5, QuietFlush DEF DeleteRegistration, DeleteForInstallation
  <1>6. ASSUME NEW i \in Installations, NEW p \in Providers, UpsertRegistration(i, p)
        PROVE  Goal
    BY <1>6, QuietFlush DEF UpsertRegistration
  <1>7. ASSUME NEW i \in Installations, NEW e \in Events, DeviceAck(i, e) \/ DeviceResume(i, e)
        PROVE  Goal
    BY <1>7, QuietFlush DEF DeviceAck, DeviceResume
  <1>8. CASE WorkerTick \/ WorkerCleanup \/ Tick \/ UNCHANGED queueVars
    BY <1>8, QuietFlush DEF WorkerTick, WorkerCleanup, Tick, queueVars
  <1>9. CASE QueueCrash
    BY <1>9 DEF QueueCrash, Idle, TypeOK, BatchSteps, InHand, PushedReceived
  <1> QED
    BY <1>1, <1>2, <1>3, <1>4, <1>5, <1>6, <1>7, <1>8, <1>9 DEF QueueNext

-----------------------------------------------------------------------------
(* The invariant is inductive.                                             *)

\* Ids stay fresh.
LEMMA FreshStep ==
    ASSUME QueueInv, TypeOK', RowSteps, CallSteps
    PROVE  IdsFresh'
  <1> USE DEF QueueInv
  <1>1. seq \in Nat /\ seq' \in Nat /\ seq' >= seq
    BY DEF TypeOK, CallSteps
  <1>2. \A r \in deliveries : r.seq \in Nat /\ r.seq <= seq
    BY DEF TypeOK, DeliveryRecord, IdsFresh
  <1>3. \A p \in Producers : producers[p].seq \in Nat /\ producers'[p].seq \in Nat
    BY DEF TypeOK, ProducerState
  <1>4. \A q \in deliveries' : q.seq <= seq
    <2> SUFFICES ASSUME NEW q \in deliveries' PROVE q.seq <= seq
      OBVIOUS
    <2>1. CASE Created(q)
      BY <2>1 DEF Created, IdsFresh, Inserting
    <2>2. CASE \E r \in deliveries : SameKey(q, r)
      BY <1>2, <2>2 DEF SameKey
    <2> QED
      BY <2>1, <2>2 DEF RowSteps, RowStep
  <1>5. \A p \in Producers : Inserting(p)' =>
            \/ Started(p)
            \/ Inserting(p) /\ producers'[p].seq = producers[p].seq /\ producers[p].seq <= seq
    BY DEF CallSteps, IdsFresh
  <1>6. \A p, q \in Producers :
            Inserting(p)' /\ Inserting(q)' /\ producers'[p].seq = producers'[q].seq => p = q
    <2> SUFFICES ASSUME NEW p \in Producers, NEW q \in Producers, Inserting(p)', Inserting(q)',
                        producers'[p].seq = producers'[q].seq, p # q
                 PROVE  FALSE
      OBVIOUS
    <2>1. CASE Started(p) /\ Started(q)
      BY <2>1, <1>1, <1>3 DEF Started, Inserting, IdsFresh
    <2>2. \A o \in Producers : Started(o) => producers'[o].seq > seq
      BY <1>1, <1>3 DEF Started
    <2>3. CASE Started(p) /\ ~Started(q)
      BY <2>2, <2>3, <1>1, <1>3, <1>5
    <2>4. CASE ~Started(p) /\ Started(q)
      BY <2>2, <2>4, <1>1, <1>3, <1>5
    <2>5. CASE ~Started(p) /\ ~Started(q)
      BY <2>5, <1>5 DEF IdsFresh
    <2> QED
      BY <2>1, <2>3, <2>4, <2>5
  <1>7. \A p \in Producers : Inserting(p)' => \A q \in deliveries' : q.seq # producers'[p].seq
    <2> SUFFICES ASSUME NEW p \in Producers, Inserting(p)', NEW q \in deliveries',
                        q.seq = producers'[p].seq
                 PROVE  FALSE
      OBVIOUS
    <2>1. ~Started(p)
      BY <1>1, <1>4 DEF Started
    <2>2. Inserting(p) /\ producers'[p].seq = producers[p].seq
      BY <2>1, <1>5
    <2>3. CASE Created(q)
      <3>1. PICK o \in Producers :
                /\ producers[o].step = "insert" /\ producers'[o].step = "flush"
                /\ q.seq = producers[o].seq
        BY <2>3 DEF Created
      <3>2. o = p
        BY <2>2, <3>1 DEF IdsFresh, Inserting
      <3> QED
        BY <3>1, <3>2 DEF Inserting
    <2>4. CASE \E r \in deliveries : SameKey(q, r)
      BY <2>2, <2>4 DEF SameKey, IdsFresh
    <2> QED
      BY <2>3, <2>4 DEF RowSteps, RowStep
  <1>8. \A p \in Producers : Inserting(p)' => producers'[p].seq <= seq'
    BY <1>1, <1>3, <1>5 DEF Started
  <1>9. \A q \in deliveries' : q.seq <= seq'
    BY <1>1, <1>4 DEF TypeOK, DeliveryRecord
  <1> QED
    BY <1>6, <1>7, <1>8, <1>9 DEF IdsFresh, Inserting

\* The rows keep their attempts in bounds and die only when it is earned.
LEMMA RowInvStep ==
    ASSUME QueueInv, TypeOK', RowSteps, CallSteps
    PROVE  OpenHasAttempts' /\ AttemptsBounded' /\ DeathEarned'
  <1> USE DEF QueueInv
  <1>1. now \in Nat /\ now' \in Nat /\ now' >= now
    BY DEF TypeOK, CallSteps
  <1>2. /\ PowerLimit \in Nat /\ MaxAttempts \in Nat /\ MaxAttempts > 0
        /\ MaxAttempts <= PowerLimit + 1
    BY TableAssumption
  <1> SUFFICES ASSUME NEW q \in deliveries'
               PROVE  /\ q.status \in {"pending", "sent"} => q.attempts <= PowerLimit
                      /\ q.attempts <= PowerLimit + 1
                      /\ q.status = "dead" => ExpiresAt(q) <= now' \/ q.attempts >= MaxAttempts
                      /\ q.status = "pending" => q.attempts < MaxAttempts
    BY DEF OpenHasAttempts, AttemptsBounded, DeathEarned
  <1>3. CASE Created(q)
    BY <1>2, <1>3 DEF Created
  <1>4. ASSUME NEW r \in deliveries, SameKey(q, r),
               Kept(q, r) \/ Aged(q, r) \/ Acknowledged(q, r) \/ Written(q, r) \/ Refused(q, r)
        PROVE  /\ q.status \in {"pending", "sent"} => q.attempts <= PowerLimit
               /\ q.attempts <= PowerLimit + 1
               /\ q.status = "dead" => ExpiresAt(q) <= now' \/ q.attempts >= MaxAttempts
               /\ q.status = "pending" => q.attempts < MaxAttempts
    <2>1. r \in DeliveryRecord /\ r.attempts \in Nat /\ ExpiresAt(r) \in Nat
      BY TimesAreNat DEF TypeOK, DeliveryRecord
    <2>2. ExpiresAt(q) = ExpiresAt(r)
      BY <1>4 DEF SameKey, ExpiresAt
    <2>3. /\ r.status \in {"pending", "sent"} => r.attempts <= PowerLimit
          /\ r.attempts <= PowerLimit + 1
          /\ r.status = "dead" => ExpiresAt(r) <= now \/ r.attempts >= MaxAttempts
          /\ r.status = "pending" => r.attempts < MaxAttempts
      BY DEF OpenHasAttempts, AttemptsBounded, DeathEarned
    <2>4. CASE Kept(q, r) \/ Aged(q, r) \/ Acknowledged(q, r)
      BY <2>1, <2>2, <2>3, <2>4, <1>1, <1>2 DEF Kept, Aged, Acknowledged
    <2>5. CASE Written(q, r)
      BY <2>1, <2>5, <1>2 DEF Written
    <2>6. CASE Refused(q, r)
      <3>1. r.attempts <= PowerLimit
        BY <2>6 DEF Refused, InHand, Listings
      <3> QED
        BY <2>1, <2>2, <2>6, <3>1, <1>1, <1>2 DEF Refused
    <2> QED
      BY <1>4, <2>4, <2>5, <2>6
  <1> QED
    BY <1>3, <1>4 DEF RowSteps, RowStep

\* What a flush has listed keeps its promise while others change the rows.
LEMMA ListingStep ==
    ASSUME QueueInv, TypeOK', RowSteps, CallSteps, BatchSteps
    PROVE  Listings'
  <1>1. seq \in Nat /\ seq' \in Nat /\ seq' >= seq
    BY DEF TypeOK, CallSteps, QueueInv
  <1> SUFFICES ASSUME NEW i \in Installations, NEW s \in flush'[i].batch
               PROVE  /\ s.seq <= seq'
                      /\ \A p \in Producers : Inserting(p)' => s.seq # producers'[p].seq
                      /\ \A q \in deliveries' : q.seq = s.seq =>
                            q.inst = i /\ q.attempts <= PowerLimit
    BY DEF Listings, Inserting
  <1>2. s.seq \in Nat
    BY DEF TypeOK, FlushState, Snapshot
  <1>3. CASE flush'[i].batch \subseteq flush[i].batch
    <2>1. /\ s \in flush[i].batch /\ s.seq <= seq
          /\ \A p \in Producers : Inserting(p) => s.seq # producers[p].seq
          /\ \A r \in deliveries : r.seq = s.seq => r.inst = i /\ r.attempts <= PowerLimit
      BY <1>3 DEF Listings, QueueInv
    <2>2. \A p \in Producers : Inserting(p)' => s.seq # producers'[p].seq
      BY <1>1, <1>2, <2>1 DEF CallSteps, Started
    <2>3. ASSUME NEW q \in deliveries', q.seq = s.seq
          PROVE  q.inst = i /\ q.attempts <= PowerLimit
      <3>1. ~Created(q)
        BY <2>1, <2>3 DEF Created, Inserting
      <3>2. PICK r \in deliveries :
                /\ SameKey(q, r)
                /\ Kept(q, r) \/ Aged(q, r) \/ Acknowledged(q, r) \/ Written(q, r) \/ Refused(q, r)
        BY <3>1 DEF RowSteps, RowStep
      <3>3. q.inst = i /\ r.inst = i /\ r.seq = s.seq /\ r.attempts <= PowerLimit
        BY <2>1, <2>3, <3>2 DEF SameKey
      <3>4. r.attempts \in Nat /\ PowerLimit \in Nat
        BY TableAssumption DEF TypeOK, DeliveryRecord, QueueInv
      <3>5. ~Refused(q, r)
        BY <3>3 DEF Refused, Idle, InHand, Listings, QueueInv
      <3> QED
        BY <3>2, <3>3, <3>4, <3>5 DEF Kept, Aged, Acknowledged, Written
    <2> QED
      BY <1>1, <1>2, <2>1, <2>2, <2>3
  <1>4. CASE flush'[i].batch = Listed(i) /\ UNCHANGED <<deliveries, producers, seq>>
    <2>1. PICK r \in deliveries :
              s.seq = r.seq /\ r.inst = i /\ r.status \in {"pending", "sent"}
      <3>1. deliveries \in SUBSET DeliveryRecord
        BY DEF TypeOK, QueueInv
      <3>2. s \in Listed(i)
        BY <1>4
      <3> QED
        BY <3>1, <3>2, ListedSnapshots
    <2>2. r.attempts <= PowerLimit /\ r.seq <= seq
      BY <2>1 DEF OpenHasAttempts, IdsFresh, QueueInv
    <2>3. \A q \in deliveries' : q.seq = s.seq => q = r
      BY <1>4, <2>1 DEF UniqueDelivery, UniqueKeys, QueueInv
    <2>4. \A p \in Producers : Inserting(p)' => s.seq # producers'[p].seq
      BY <1>4, <2>1 DEF IdsFresh, Inserting, QueueInv
    <2> QED
      BY <1>4, <2>1, <2>2, <2>3, <2>4
  <1> QED
    BY <1>3, <1>4 DEF BatchSteps

\* The invariant holds in every behaviour of the queue.
THEOREM QueueInvariant == QueueSpec => []QueueInv
  <1>1. QueueInit => QueueInv
    <2>1. Idle \in FlushState /\ Idle.step = "idle" /\ Idle.batch = {}
      BY DEF Idle, FlushState, Snapshot
    <2>2. Resting \in ProducerState /\ Resting.step = "idle"
      BY DEF Resting, ProducerState
    <2>3. QueueInit => TypeOK /\ Addressed
      BY <2>1, <2>2 DEF QueueInit, TypeOK, Addressed, Asleep
    <2> QED
      BY <2>1, <2>2, <2>3
      DEF QueueInit, QueueInv, IdsFresh, Inserting, UniqueDelivery, UniqueKeys, InHand, Listings,
          PushedReceived, OpenHasAttempts, AttemptsBounded, DeathEarned
  <1>2. QueueInv /\ [QueueNext]_queueVars => QueueInv'
    <2> SUFFICES ASSUME QueueInv, [QueueNext]_queueVars
                 PROVE  QueueInv'
      OBVIOUS
    <2>1. TypeOK' /\ Addressed'
      BY TypeStep DEF QueueInv
    <2>2. RowSteps
      BY TableStep
    <2>3. CallSteps
      BY CallStep DEF QueueInv
    <2>4. BatchSteps /\ InHand' /\ PushedReceived'
      BY BatchStep DEF QueueInv
    <2>5. UniqueDelivery'
      BY <2>2 DEF RowSteps, UniqueDelivery
    <2>6. IdsFresh'
      BY <2>1, <2>2, <2>3, FreshStep
    <2>7. OpenHasAttempts' /\ AttemptsBounded' /\ DeathEarned'
      BY <2>1, <2>2, <2>3, RowInvStep
    <2>8. Listings'
      BY <2>1, <2>2, <2>3, <2>4, ListingStep
    <2> QED
      BY <2>1, <2>4, <2>5, <2>6, <2>7, <2>8 DEF QueueInv
  <1> QED
    BY <1>1, <1>2, PTL DEF QueueSpec

\* A duplicate of an event never makes a second row for the installation, with
\* any number of producers racing for it.
THEOREM NoDuplicateRows == QueueSpec => []UniqueDelivery
  BY QueueInvariant, PTL DEF QueueInv

\* A row is given up only after its expiry or after MaxAttempts attempts.
THEOREM DeathIsEarned == QueueSpec => []DeathEarned
  BY QueueInvariant, PTL DEF QueueInv

\* attempt_count never grows past the first value that power() cannot take.
THEOREM AttemptsStayBounded == QueueSpec => []AttemptsBounded
  BY QueueInvariant, PTL DEF QueueInv

\* Only the flush that wrote a row takes its acknowledgement back.
THEOREM AckRegressesOnlyRaced == QueueSpec => AckOnlyRaced
  <1>1. QueueInv /\ [QueueNext]_queueVars => RegressStep
    <2> SUFFICES ASSUME QueueInv, [QueueNext]_queueVars,
                        NEW r \in deliveries, NEW q \in deliveries', r.seq = q.seq,
                        r.status = "acked", q.status # "acked"
                 PROVE  flush[r.inst].step \in {"ok", "bad"} /\ flush[r.inst].cur.seq = r.seq
      BY DEF RegressStep, SameRow
    <2>1. RowStep(q)
      BY TableStep DEF RowSteps
    <2>2. ~Created(q)
      BY DEF Created, QueueInv, IdsFresh, Inserting
    <2>3. PICK o \in deliveries :
              /\ SameKey(q, o)
              /\ Kept(q, o) \/ Aged(q, o) \/ Acknowledged(q, o) \/ Written(q, o) \/ Refused(q, o)
      BY <2>1, <2>2 DEF RowStep
    <2>4. o = r
      BY <2>3 DEF SameKey, QueueInv, UniqueDelivery, UniqueKeys
    <2>5. PICK i \in Installations : flush[i].step \in {"ok", "bad"} /\ flush[i].cur.seq = r.seq
      BY <2>3, <2>4 DEF Kept, Aged, Acknowledged, Written, Refused
    <2>6. r.inst = i
      BY <2>5 DEF QueueInv, InHand, Listings
    <2> QED
      BY <2>5, <2>6
  <1> QED
    BY <1>1, QueueInvariant, PTL DEF QueueSpec, AckOnlyRaced

\* Nothing is acknowledged that did not reach the device, but for rows that are
\* older than one that did.
THEOREM AcksNeedReceipt == QueueSpec => AckNeedsReceipt
  <1>1. QueueInv /\ [QueueNext]_queueVars => AckStep
    <2> SUFFICES ASSUME QueueInv, [QueueNext]_queueVars,
                        NEW r \in deliveries, NEW q \in deliveries', r.seq = q.seq,
                        r.status # "acked", q.status = "acked"
                 PROVE  \E t \in deliveries :
                            /\ t.inst = r.inst /\ t.event \in received[r.inst]
                            /\ t = r \/ r.seq < t.seq
      BY DEF AckStep, SameRow
    <2>1. RowStep(q)
      BY TableStep DEF RowSteps
    <2>2. PICK o \in deliveries :
              /\ SameKey(q, o)
              /\ Kept(q, o) \/ Aged(q, o) \/ Acknowledged(q, o) \/ Written(q, o) \/ Refused(q, o)
      BY <2>1 DEF RowStep, Created
    <2>3. o = r
      BY <2>2 DEF SameKey, QueueInv, UniqueDelivery, UniqueKeys
    <2>4. PICK t \in deliveries :
              t.inst = r.inst /\ t.event \in received[r.inst] /\ r.seq <= t.seq
      BY <2>2, <2>3 DEF Kept, Aged, Acknowledged, Written, Refused
    <2>5. t = r \/ r.seq < t.seq
      <3>1. t.seq \in Nat /\ r.seq \in Nat
        BY DEF QueueInv, TypeOK, DeliveryRecord
      <3>2. t.seq = r.seq => t = r
        BY DEF QueueInv, UniqueDelivery, UniqueKeys
      <3> QED
        BY <2>4, <3>1, <3>2
    <2> QED
      BY <2>4, <2>5
  <1> QED
    BY <1>1, QueueInvariant, PTL DEF QueueSpec, AckNeedsReceipt

-----------------------------------------------------------------------------
(* The capacity of the queue.                                              *)

\* The calls between their count and their insert.
Counted == {p \in Producers : producers[p].step = "insert"}

\* Rows with ids of their own that all come from rows of a finite table are not
\* more than those.
LEMMA FewerRows ==
    ASSUME NEW S, NEW T, IsFiniteSet(S),
           \A q \in T : \E r \in S : q.seq = r.seq,
           \A q, t \in T : q.seq = t.seq => q = t
    PROVE  IsFiniteSet(T) /\ Cardinality(T) <= Cardinality(S)
  <1> DEFINE D == {r \in S : \E q \in T : q.seq = r.seq}
             f == [r \in D |-> CHOOSE q \in T : q.seq = r.seq]
  <1>1. IsFiniteSet(D) /\ Cardinality(D) <= Cardinality(S)
    BY FS_Subset
  <1>2. \A r \in D : f[r] \in T /\ f[r].seq = r.seq
    OBVIOUS
  <1>3. \A q \in T : \E r \in D : f[r] = q
    <2> SUFFICES ASSUME NEW q \in T PROVE \E r \in D : f[r] = q
      OBVIOUS
    <2>1. PICK r \in D : q.seq = r.seq
      OBVIOUS
    <2>2. f[r] = q
      BY <1>2, <2>1
    <2> QED
      BY <2>2
  <1>4. f \in Surjection(D, T)
    BY <1>2, <1>3 DEF Surjection
  <1>5. IsFiniteSet(T) /\ Cardinality(T) <= Cardinality(D)
    BY <1>1, <1>4, FS_Surjection
  <1>6. Cardinality(T) \in Nat /\ Cardinality(D) \in Nat /\ Cardinality(S) \in Nat
    BY <1>1, <1>5, FS_CardinalityType
  <1> QED
    BY <1>1, <1>5, <1>6

\* A step that is neither the count nor the insert of an Enqueue lets no call
\* count and no call insert.
LEMMA CallsSettle ==
    ASSUME TypeOK, [QueueNext]_queueVars,
           \A p \in Producers : ~EnqueueCount(p) /\ ~EnqueueInsert(p)
    PROVE  \A p \in Producers :
               /\ producers'[p].step = "insert" => producers[p].step = "insert"
               /\ producers'[p].step = "flush" => producers[p].step = "flush"
  <1> DEFINE Goal == \A p \in Producers :
                         /\ producers'[p].step = "insert" => producers[p].step = "insert"
                         /\ producers'[p].step = "flush" => producers[p].step = "flush"
  <1>1. CASE UNCHANGED producers
    BY <1>1
  <1>2. ASSUME NEW i, NEW x, Unlock(i, x)
        PROVE  Goal
    BY <1>2 DEF TypeOK, Unlock, Resting
  <1>3. ASSUME NEW i \in Installations, FlushStep(i) \/ \E x \in Callers : FlushBegin(i, x)
        PROVE  Goal
    BY <1>1, <1>2, <1>3
    DEF FlushStep, FlushBegin, FlushList, FlushEnd, FlushWrite, FlushWriteError,
        FlushMarkSent, FlushAck, FlushMarkFailed, GotoNext, Goto
  <1>4. ASSUME NEW p \in Producers, NEW i \in Installations, NEW e \in Events, DeliverStart(p, i, e)
        PROVE  Goal
    BY <1>4 DEF DeliverStart, TypeOK
  <1>5. ASSUME NEW i \in Installations, NEW e \in Events, DeviceAck(i, e) \/ DeviceResume(i, e)
        PROVE  Goal
    BY <1>1, <1>5 DEF DeviceAck, DeviceResume
  <1>6. ASSUME NEW i \in Installations,
               \/ DeleteRegistration(i) \/ DeleteForInstallation(i)
               \/ \E p \in Providers : UpsertRegistration(i, p)
        PROVE  Goal
    BY <1>1, <1>6 DEF DeleteRegistration, DeleteForInstallation, UpsertRegistration
  <1>7. CASE WorkerTick \/ WorkerCleanup \/ Tick \/ UNCHANGED queueVars
    BY <1>1, <1>7 DEF WorkerTick, WorkerCleanup, Tick, queueVars
  <1>8. CASE QueueCrash
    BY <1>8 DEF QueueCrash, Resting
  <1> QED
    BY <1>3, <1>4, <1>5, <1>6, <1>7, <1>8 DEF QueueNext, ProducerStep

\* The overshoot of the capacity is below the number of producers.
THEOREM CapacityBounded == QueueSpec => []CapacityOvershoot
  <1> DEFINE Cap == IsFiniteSet(deliveries) /\ CapacityOvershoot
  <1>1. /\ IsFiniteSet(Producers) /\ Cardinality(Producers) \in Nat
        /\ MaxRecords \in Nat /\ MaxRecords > 0
    BY DeliveryAssumption, FS_CardinalityType
  <1>2. ASSUME NEW S \in SUBSET Producers
        PROVE  IsFiniteSet(S) /\ Cardinality(S) \in Nat /\ Cardinality(S) <= Cardinality(Producers)
    BY <1>1, FS_Subset, FS_CardinalityType
  <1>3. CapacityOvershoot <=>
            (Cardinality(deliveries) + Cardinality(Counted) < MaxRecords + Cardinality(Producers))
    BY DEF CapacityOvershoot, Counted
  <1>4. QueueInit => Cap
    <2> SUFFICES ASSUME QueueInit PROVE Cap
      OBVIOUS
    <2>1. deliveries = {} /\ Counted = {}
      BY DEF QueueInit, Resting, Counted
    <2> QED
      BY <1>1, <1>3, <2>1, FS_EmptySet
  <1>5. Cap /\ QueueInv /\ [QueueNext]_queueVars => Cap'
    <2> SUFFICES ASSUME Cap, QueueInv, [QueueNext]_queueVars
                 PROVE  Cap'
      OBVIOUS
    <2>1. Counted \in SUBSET Producers /\ Counted' \in SUBSET Producers
      BY DEF Counted
    <2>2. /\ Cardinality(Counted) \in Nat /\ Cardinality(Counted') \in Nat
          /\ Cardinality(Counted') <= Cardinality(Producers) /\ IsFiniteSet(Counted)
      BY <1>2, <2>1
    <2>3. /\ Cardinality(deliveries) \in Nat
          /\ Cardinality(deliveries) + Cardinality(Counted) < MaxRecords + Cardinality(Producers)
      BY <1>3, FS_CardinalityType
    <2>4. ASSUME IsFiniteSet(deliveries'),
                 Cardinality(deliveries') + Cardinality(Counted') < MaxRecords + Cardinality(Producers)
          PROVE  Cap'
      BY <2>4 DEF CapacityOvershoot, Counted
    <2>5. /\ \A q, t \in deliveries' : q.seq = t.seq => q = t
          /\ \A q \in deliveries' : Created(q) \/ \E r \in deliveries : q.seq = r.seq
      BY TableStep DEF RowSteps, RowStep, SameKey, UniqueKeys
    <2>6. ASSUME NEW p \in Producers, EnqueueInsert(p)
          PROVE  Cap'
      <3>1. PICK n : deliveries' = deliveries \/ deliveries' = deliveries \cup {n}
        BY <2>6 DEF EnqueueInsert, Inserted
      <3>2. IsFiniteSet(deliveries') /\ Cardinality(deliveries') <= Cardinality(deliveries) + 1
        BY <2>3, <3>1, FS_AddElement
      <3>3. Counted' = Counted \ {p} /\ p \in Counted
        BY <2>6 DEF EnqueueInsert, Counted, QueueInv, TypeOK, ProducerState
      <3>4. Cardinality(Counted') = Cardinality(Counted) - 1
        BY <2>2, <3>3, FS_RemoveElement
      <3>5. Cardinality(deliveries') \in Nat
        BY <3>2, FS_CardinalityType
      <3> QED
        BY <1>1, <2>2, <2>3, <2>4, <3>2, <3>4, <3>5
    <2>7. ASSUME \A q \in deliveries' : ~Created(q)
          PROVE  /\ IsFiniteSet(deliveries') /\ Cardinality(deliveries') \in Nat
                 /\ Cardinality(deliveries') <= Cardinality(deliveries)
      BY <2>5, <2>7, FewerRows, FS_CardinalityType
    <2>8. ASSUME Counted' \in SUBSET Counted
          PROVE  Cardinality(Counted') <= Cardinality(Counted)
      BY <2>2, <2>8, FS_Subset
    <2>9. ASSUME NEW p \in Producers, EnqueueCount(p)
          PROVE  Cap'
      <3>1. \A o \in Producers : producers[o].step = "insert" => producers'[o].step # "flush"
        BY <2>9 DEF EnqueueCount, QueueInv, TypeOK, ProducerState, Resting
      <3>2. \A q \in deliveries' : ~Created(q)
        BY <3>1 DEF Created
      <3>3. CASE /\ Cardinality(Cleaned(deliveries, now)) < MaxRecords
                 /\ deliveries' = Cleaned(deliveries, now)
        BY <1>1, <2>2, <2>4, <2>7, <3>2, <3>3
      <3>4. CASE producers' = [producers EXCEPT ![p] = Resting] /\ UNCHANGED deliveries
        <4>1. Counted' \in SUBSET Counted
          BY <3>4 DEF Counted, QueueInv, TypeOK, Resting
        <4> QED
          BY <1>1, <2>2, <2>3, <2>4, <2>7, <2>8, <3>2, <4>1
      <3> QED
        BY <2>9, <3>3, <3>4 DEF EnqueueCount
    <2>10. CASE \A p \in Producers : ~EnqueueCount(p) /\ ~EnqueueInsert(p)
      <3>1. \A p \in Producers :
               /\ producers'[p].step = "insert" => producers[p].step = "insert"
               /\ producers'[p].step = "flush" => producers[p].step = "flush"
        BY <2>10, CallsSettle DEF QueueInv
      <3>2. \A q \in deliveries' : ~Created(q)
        BY <3>1 DEF Created
      <3>3. Counted' \in SUBSET Counted
        BY <3>1 DEF Counted
      <3> QED
        BY <1>1, <2>2, <2>3, <2>4, <2>7, <2>8, <3>2, <3>3
    <2> QED
      BY <2>6, <2>9, <2>10
  <1> QED
    BY <1>4, <1>5, QueueInvariant, PTL DEF QueueSpec

=============================================================================
