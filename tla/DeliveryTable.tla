---------------------------- MODULE DeliveryTable -----------------------------
(***************************************************************************)
(* The statements that postgres_delivery.go runs on the deliveries table,  *)
(* each as a function from the rows before it to the rows after it.        *)
(*                                                                         *)
(* The clock counts coarse ticks for backoff, expiry and retention.  A     *)
(* row's created_at is the tick `createdAt' and, within it, the rank `seq' *)
(* of this reading of the clock among all those of deliverToRegistration;  *)
(* the rank also stands for the random delivery id drawn at the same       *)
(* place.  sent_at and last_error are left out: nothing reads them.        *)
(***************************************************************************)
EXTENDS Integers, FiniteSets

CONSTANTS
    Installations,  \* installation ids
    Events,         \* event ids a notification may carry
    TTL,            \* notificationTTL of each event
    Retention,      \* 7 days in the code
    MaxAttempts,    \* 8 in the code
    PowerLimit,     \* 31 in the code: the first n for which 2^n is no int4
    BatchLimit      \* 100 in the code

ASSUME TableAssumption ==
    /\ TTL \in [Events -> Nat \ {0}]
    /\ Retention \in Nat \ {0} /\ MaxAttempts \in Nat \ {0}
    /\ PowerLimit \in Nat \ {0} /\ BatchLimit \in Nat \ {0}
    /\ MaxAttempts <= PowerLimit + 1

Statuses == {"pending", "sent", "acked", "dead"}

DeliveryRecord ==
    [inst : Installations, event : Events, seq : Nat, createdAt : Nat,
     availableAt : Nat, status : Statuses, attempts : Nat, ackedAt : Nat]

\* What a flush keeps of a row it has listed.
Snapshot == [event : Events, seq : Nat]

ExpiresAt(r) == r.createdAt + TTL[r.event]

\* LEAST(64, power(2, attempt_count)::int) seconds.
Backoff(n) == IF n < 6 THEN <<1, 2, 4, 8, 16, 32>>[n + 1] ELSE 64

\* Wrong on purpose, for mutation testing: an acked row expires too.
ExpiredAcked(r, now) ==
    IF ExpiresAt(r) <= now THEN [r EXCEPT !.status = "dead"] ELSE r

\* Wrong on purpose, for mutation testing: a sent row never expires.
ExpiredPending(r, now) ==
    IF ExpiresAt(r) <= now /\ r.status = "pending" THEN [r EXCEPT !.status = "dead"] ELSE r

Expired(r, now) ==
    IF ExpiresAt(r) <= now /\ r.status # "acked" THEN [r EXCEPT !.status = "dead"] ELSE r

Outdated(r, now) ==
    \/ r.status = "acked" /\ r.ackedAt + Retention < now
    \/ r.status = "dead" /\ r.createdAt + Retention < now

\* Expire, then delete what is past its retention.
Cleaned(rows, now) == {r \in {Expired(q, now) : q \in rows} : ~Outdated(r, now)}

\* One row per installation and event, and one per id.
UniqueKeys(rows) ==
    \A r, q \in rows :
        (r.inst = q.inst /\ r.event = q.event) \/ r.seq = q.seq => r = q

Holds(rows, i, e) == \E r \in rows : r.inst = i /\ r.event = e

\* Wrong on purpose, for mutation testing: no unique index.
InsertedAgain(rows, d) ==
    rows \cup {[inst |-> d.inst, event |-> d.event, seq |-> d.seq,
                createdAt |-> d.createdAt, availableAt |-> d.createdAt,
                status |-> "pending", attempts |-> 0, ackedAt |-> 0]}

\* INSERT ... ON CONFLICT (installation_id, event_id) DO NOTHING.
Inserted(rows, d) ==
    IF Holds(rows, d.inst, d.event) THEN rows
    ELSE rows \cup {[inst |-> d.inst, event |-> d.event, seq |-> d.seq,
                     createdAt |-> d.createdAt, availableAt |-> d.createdAt,
                     status |-> "pending", attempts |-> 0, ackedAt |-> 0]}

\* ORDER BY created_at LIMIT BatchLimit.
Oldest(rows) ==
    {r \in rows : Cardinality({q \in rows : q.seq < r.seq}) < BatchLimit}

\* Wrong on purpose, for mutation testing: the status is not asked for.
PendingAnyStatus(rows, i, now) ==
    Oldest({r \in rows : r.inst = i /\ r.availableAt <= now /\ now < ExpiresAt(r)})

PendingForInstallation(rows, i, now) ==
    Oldest({r \in rows : /\ r.inst = i /\ r.status \in {"pending", "sent"}
                         /\ r.availableAt <= now /\ now < ExpiresAt(r)})

Attempted(r, status) == [r EXCEPT !.status = status, !.attempts = @ + 1]
Later(r, t) == [r EXCEPT !.availableAt = t]

\* The status is not looked at.  From PowerLimit on the cast of power() to int
\* overflows: the statement fails, and flushPending ignores that it did.
Sent(r, now) ==
    IF r.attempts < PowerLimit
      THEN Later(Attempted(r, "sent"), now + Backoff(r.attempts))
      ELSE r

\* Wrong on purpose, for mutation testing: dead one attempt early.
FailedEarly(r, now) ==
    IF r.attempts + 2 >= MaxAttempts \/ ExpiresAt(r) <= now
      THEN Attempted(r, "dead")
      ELSE Later(Attempted(r, "pending"), now + Backoff(r.attempts))

\* The status is not looked at here either.
Failed(r, now) ==
    IF r.attempts + 1 >= MaxAttempts \/ ExpiresAt(r) <= now
      THEN Attempted(r, "dead")
      ELSE Later(Attempted(r, "pending"), now + Backoff(r.attempts))

Acked(r, now) == [r EXCEPT !.status = "acked", !.ackedAt = now]

MarkSent(rows, id, now) == {IF r.seq = id THEN Sent(r, now) ELSE r : r \in rows}

MarkFailed(rows, id, now) == {IF r.seq = id THEN Failed(r, now) ELSE r : r \in rows}

Ack(rows, i, e, now) ==
    {IF r.inst = i /\ r.event = e THEN Acked(r, now) ELSE r : r \in rows}

\* Wrong on purpose, for mutation testing: the rows from the reported one on.
AckFrom(rows, i, e, now) ==
    {IF /\ r.inst = i
        /\ \E t \in rows : t.inst = i /\ t.event = e /\ t.seq <= r.seq
       THEN Acked(r, now) ELSE r : r \in rows}

\* Every row of the installation up to the reported one, whatever its status.
AckThrough(rows, i, e, now) ==
    {IF /\ r.inst = i
        /\ \E t \in rows : t.inst = i /\ t.event = e /\ r.seq <= t.seq
       THEN Acked(r, now) ELSE r : r \in rows}
=============================================================================
