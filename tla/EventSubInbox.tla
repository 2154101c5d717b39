----------------------------- MODULE EventSubInbox ----------------------------
(***************************************************************************)
(* The durable EventSub inbox: the webhook (and the chat socket) persist a *)
(* message, a bounded queue with an in-flight set hands it to a worker, a  *)
(* drainer picks up what was left, and the outcome of the processing is    *)
(* written back.  channel.update messages go through the saved state of    *)
(* their channel; one channel is modelled, and what counts of its title    *)
(* and category is the value that a message carries.                       *)
(***************************************************************************)
EXTENDS Integers, Sequences, FiniteSets

CONSTANTS
    Messages,       \* EventSub message ids
    Title,          \* the channel state of a channel.update, None for the rest
    Earlier,        \* a channel state saved before any of the messages
    Installations,  \* registrations that match the messages
    Hooks,          \* concurrent calls of the webhook or of the admin's retry
    Workers,        \* 4 in the code
    None,           \* no value
    QueueCap,       \* 1024 in the code
    MaxAttempts,    \* 8 in the code
    Lifetime,       \* 24 hours in the code
    SeenTTL,        \* 24 hours in the code
    Retention,      \* 7 days in the code
    MaxTime,        \* bound: the clock stops here
    MaxUpsets       \* bound: failed statements, crashes and retries by the admin

ASSUME InboxAssumption ==
    /\ QueueCap \in Nat \ {0} /\ MaxAttempts \in Nat \ {0}
    /\ Lifetime \in Nat \ {0} /\ SeenTTL \in Nat /\ Retention \in Nat
    /\ MaxTime \in Nat /\ MaxUpsets \in Nat
    /\ None \notin Messages

VARIABLES
    inbox,      \* the eventsub_inbox row of each message, or None
    seen,       \* eventsub_seen: when each message was completed, or None
    state,      \* channel_notification_states of the channel, or None
    origin,     \* history: the state the channel was first saved with
    delivered,  \* deliveries: the pairs of installation and message enqueued
    unlisted,   \* history: the messages for which the registrations were not read
    inflight,   \* Server.eventInFlight
    queue,      \* Server.eventQueue
    hooks,      \* the calls in progress
    drain,      \* the drainer's list
    workers,    \* handleQueuedEventSub of each worker
    now, upsets

tables == <<inbox, seen, state, origin, delivered, unlisted>>
process == <<inflight, queue, hooks, drain, workers>>
inboxVars == <<tables, process, now, upsets>>

Titles == ({Title[m] : m \in Messages} \cup {Earlier}) \ {None}
Updates == {m \in Messages : Title[m] # None}

Upset == upsets < MaxUpsets /\ upsets' = upsets + 1

IdleHook == [step |-> "idle", msg |-> None, at |-> 0]
IdleWorker == [step |-> "idle", msg |-> None, todo |-> {}, failed |-> FALSE]

InboxInit ==
    /\ inbox = [m \in Messages |-> None]
    /\ seen = [m \in Messages |-> None]
    /\ state \in {None, Earlier} /\ origin = state
    /\ delivered = {} /\ unlisted = {}
    /\ inflight = {} /\ queue = <<>>
    /\ hooks = [h \in Hooks |-> IdleHook]
    /\ drain = {}
    /\ workers = [w \in Workers |-> IdleWorker]
    /\ now = 0 /\ upsets = 0

-----------------------------------------------------------------------------
(* Statements on the tables.                                               *)

Fresh(at, received) ==
    [status |-> "pending", attempts |-> 0, availableAt |-> at,
     expiresAt |-> at + Lifetime, receivedAt |-> received]

\* DELETE FROM eventsub_seen WHERE seen_at < now - 24h.
SeenKept == [m \in Messages |->
                IF seen[m] # None /\ seen[m] + SeenTTL < now THEN None ELSE seen[m]]

\* LEAST(64, power(2, attempt_count)::int) seconds.
Backoff(n) == IF n < 6 THEN <<1, 2, 4, 8, 16, 32>>[n + 1] ELSE 64

\* Wrong on purpose, for mutation testing: dead one attempt early.
FailedRowEarly(r) ==
    LET dead == r.attempts + 2 >= MaxAttempts \/ r.expiresAt <= now
    IN  [status |-> IF dead THEN "dead" ELSE "pending", attempts |-> r.attempts + 1,
         availableAt |-> IF dead THEN r.availableAt ELSE now + Backoff(r.attempts),
         expiresAt |-> r.expiresAt, receivedAt |-> r.receivedAt]

FailedRow(r) ==
    LET dead == r.attempts + 1 >= MaxAttempts \/ r.expiresAt <= now
    IN  [status |-> IF dead THEN "dead" ELSE "pending", attempts |-> r.attempts + 1,
         availableAt |-> IF dead THEN r.availableAt ELSE now + Backoff(r.attempts),
         expiresAt |-> r.expiresAt, receivedAt |-> r.receivedAt]

Pending(m) == inbox[m] # None /\ inbox[m].status = "pending"
Due(m) == Pending(m) /\ inbox[m].availableAt <= now /\ now < inbox[m].expiresAt

\* Wrong on purpose, for mutation testing: nothing is reserved.
ScheduleTwice(m) ==
    IF Len(queue) < QueueCap
      THEN inflight' = inflight \cup {m} /\ queue' = Append(queue, m)
      ELSE UNCHANGED <<inflight, queue>>

\* Wrong on purpose, for mutation testing: a full queue keeps the reservation.
ScheduleLeak(m) ==
    /\ inflight' = inflight \cup {m}
    /\ queue' = IF m \notin inflight /\ Len(queue) < QueueCap THEN Append(queue, m) ELSE queue

\* scheduleEventSub: reserve, then send to the channel unless it is full.
Schedule(m) ==
    IF m \notin inflight /\ Len(queue) < QueueCap
      THEN inflight' = inflight \cup {m} /\ queue' = Append(queue, m)
      ELSE UNCHANGED <<inflight, queue>>

-----------------------------------------------------------------------------
(* The webhook and the admin's retry.                                      *)

\* Wrong on purpose, for mutation testing: eventsub_seen is not asked.
HookCheckNothing(h, m) ==
    /\ hooks[h].step = "idle"
    /\ now + Lifetime <= MaxTime
    /\ seen' = SeenKept
    /\ hooks' = [hooks EXCEPT ![h] = [step |-> "insert", msg |-> m, at |-> now]]
    /\ UNCHANGED <<inbox, state, origin, delivered, unlisted>>
    /\ UNCHANGED <<inflight, queue, drain, workers, now, upsets>>

\* EnqueueEventSub up to its look at eventsub_seen; Twitch repeats messages.  If
\* the transaction fails later, its purge is left to the next one.
HookCheck(h, m) ==
    /\ hooks[h].step = "idle"
    /\ now + Lifetime <= MaxTime
    /\ seen' = SeenKept
    /\ hooks' = [hooks EXCEPT ![h] =
            IF SeenKept[m] = None THEN [step |-> "insert", msg |-> m, at |-> now] ELSE @]
    /\ UNCHANGED <<inbox, state, origin, delivered, unlisted>>
    /\ UNCHANGED <<inflight, queue, drain, workers, now, upsets>>

\* INSERT ... ON CONFLICT DO NOTHING, which reads what was committed since.  An
\* error is answered 503: the message was not taken.
HookInsert(h) ==
    LET m == hooks[h].msg
        row == IF inbox[m] = None THEN Fresh(hooks[h].at, hooks[h].at) ELSE inbox[m]
    IN  /\ hooks[h].step = "insert"
        /\ \/ /\ inbox' = [inbox EXCEPT ![m] = row]
              /\ hooks' = [hooks EXCEPT ![h] =
                    IF row.status = "pending" THEN [@ EXCEPT !.step = "schedule"] ELSE IdleHook]
              /\ UNCHANGED upsets
           \/ /\ UNCHANGED inbox
              /\ hooks' = [hooks EXCEPT ![h] = IdleHook]
              /\ Upset
        /\ UNCHANGED <<seen, state, origin, delivered, unlisted, inflight, queue, drain, workers, now>>

\* The record is the one read by the transaction, however old it is by now.
HookSchedule(h) ==
    /\ hooks[h].step = "schedule"
    /\ Schedule(hooks[h].msg)
    /\ hooks' = [hooks EXCEPT ![h] = IdleHook]
    /\ UNCHANGED <<tables, drain, workers, now, upsets>>

AdminRetry(h, m) ==
    /\ hooks[h].step = "idle"
    /\ inbox[m] # None
    /\ now + Lifetime <= MaxTime
    /\ inbox' = [inbox EXCEPT ![m] = Fresh(now, @.receivedAt)]
    /\ hooks' = [hooks EXCEPT ![h] = [step |-> "relist", msg |-> m, at |-> now]]
    /\ Upset
    /\ UNCHANGED <<seen, state, origin, delivered, unlisted, inflight, queue, drain, workers, now>>

AdminSchedule(h) ==
    /\ hooks[h].step = "relist"
    /\ IF Due(hooks[h].msg) THEN Schedule(hooks[h].msg) ELSE UNCHANGED <<inflight, queue>>
    /\ hooks' = [hooks EXCEPT ![h] = IdleHook]
    /\ UNCHANGED <<tables, drain, workers, now, upsets>>

-----------------------------------------------------------------------------
(* The drainer.                                                            *)

DrainList ==
    /\ drain = {}
    /\ drain' = {m \in Messages : Due(m)}
    /\ UNCHANGED <<tables, inflight, queue, hooks, workers, now, upsets>>

DrainSchedule(m) ==
    /\ m \in drain
    /\ Schedule(m)
    /\ drain' = drain \ {m}
    /\ UNCHANGED <<tables, hooks, workers, now, upsets>>

-----------------------------------------------------------------------------
(* A worker: handleQueuedEventSub and processEventSubNotification.         *)

Goto(w, step, todo, failed) ==
    workers' = [workers EXCEPT ![w] =
        [step |-> step, msg |-> @.msg, todo |-> todo, failed |-> failed]]
Move(w, step) == Goto(w, step, workers[w].todo, workers[w].failed)
Fail(w, step) == Goto(w, step, workers[w].todo, TRUE)

WorkerTake(w) ==
    /\ workers[w].step = "idle"
    /\ queue # <<>>
    /\ workers' = [workers EXCEPT ![w] =
            [step |-> IF Head(queue) \in Updates THEN "check" ELSE "list",
             msg |-> Head(queue), todo |-> {}, failed |-> FALSE]]
    /\ queue' = Tail(queue)
    /\ UNCHANGED <<tables, inflight, hooks, drain, now, upsets>>

\* channelStateLock is held from the check to the end of the processing.
ChannelFree ==
    \A w \in Workers :
        workers[w].step \in {"list", "deliver", "save"} => workers[w].msg \notin Updates

\* Lock, then ChannelStateChanges: an unknown channel is only saved, an
\* unchanged one is left alone.
WorkerCheck(w) ==
    /\ workers[w].step = "check"
    /\ ChannelFree
    /\ \/ /\ state = None /\ Move(w, "save") /\ UNCHANGED upsets
       \/ /\ state = Title[workers[w].msg] /\ Move(w, "release") /\ UNCHANGED upsets
       \/ /\ state \notin {None, Title[workers[w].msg]} /\ Move(w, "list")
          /\ UNCHANGED upsets
       \/ Fail(w, "release") /\ Upset
    /\ UNCHANGED <<tables, inflight, queue, hooks, drain, now>>

\* store.List returns nothing when its statement fails, and reports no error:
\* the loop over the registrations has then nobody to notify.
WorkerList(w) ==
    /\ workers[w].step = "list"
    /\ \/ /\ Goto(w, "deliver", Installations, workers[w].failed)
          /\ UNCHANGED <<unlisted, upsets>>
       \/ /\ Goto(w, "deliver", {}, workers[w].failed)
          /\ unlisted' = unlisted \cup {workers[w].msg}
          /\ Upset
    /\ UNCHANGED <<inbox, seen, state, origin, delivered, inflight, queue, hooks, drain, now>>

\* Wrong on purpose, for mutation testing: an error is forgotten.
WorkerDeliverAnyhow(w, i) ==
    /\ workers[w].step = "deliver" /\ i \in workers[w].todo
    /\ Goto(w, "deliver", workers[w].todo \ {i}, workers[w].failed)
    /\ \/ delivered' = delivered \cup {<<i, workers[w].msg>>} /\ UNCHANGED upsets
       \/ UNCHANGED delivered /\ Upset
    /\ UNCHANGED <<inbox, seen, state, origin, unlisted, inflight, queue, hooks, drain, now>>

\* deliverToRegistration: the unique index keeps one row per pair.  An error is
\* kept and the loop goes on.
WorkerDeliver(w, i) ==
    /\ workers[w].step = "deliver" /\ i \in workers[w].todo
    /\ \/ /\ delivered' = delivered \cup {<<i, workers[w].msg>>}
          /\ Goto(w, "deliver", workers[w].todo \ {i}, workers[w].failed)
          /\ UNCHANGED upsets
       \/ /\ Goto(w, "deliver", workers[w].todo \ {i}, TRUE)
          /\ UNCHANGED delivered
          /\ Upset
    /\ UNCHANGED <<inbox, seen, state, origin, unlisted, inflight, queue, hooks, drain, now>>

WorkerDelivered(w) ==
    /\ workers[w].step = "deliver" /\ workers[w].todo = {}
    /\ Move(w, IF ~workers[w].failed /\ workers[w].msg \in Updates THEN "save" ELSE "release")
    /\ UNCHANGED <<tables, inflight, queue, hooks, drain, now, upsets>>

\* SaveChannelState hands its result to fmtDatabase, which makes an error of no
\* error: saved or not, the processing fails.
WorkerSave(w) ==
    /\ workers[w].step = "save"
    /\ \/ /\ state' = Title[workers[w].msg]
          /\ origin' = IF state = None THEN state' ELSE origin
          /\ UNCHANGED upsets
       \/ UNCHANGED <<state, origin>> /\ Upset
    /\ Fail(w, "release")
    /\ UNCHANGED <<inbox, seen, delivered, unlisted, inflight, queue, hooks, drain, now>>

\* The message may be reserved again from here on.
WorkerRelease(w) ==
    /\ workers[w].step = "release"
    /\ inflight' = inflight \ {workers[w].msg}
    /\ Move(w, "settle")
    /\ UNCHANGED <<tables, queue, hooks, drain, now, upsets>>

\* MarkEventSubFailed or CompleteEventSub; a message that is gone stays gone.
WorkerSettle(w) ==
    LET m == workers[w].msg
    IN  /\ workers[w].step = "settle"
        /\ workers' = [workers EXCEPT ![w] = IdleWorker]
        /\ \/ /\ workers[w].failed
              /\ inbox' = [inbox EXCEPT ![m] = IF @ = None THEN @ ELSE FailedRow(@)]
              /\ UNCHANGED <<seen, upsets>>
           \/ /\ ~workers[w].failed
              /\ inbox' = [inbox EXCEPT ![m] = None]
              /\ seen' = [seen EXCEPT ![m] = IF inbox[m] = None /\ @ = None THEN @ ELSE now]
              /\ UNCHANGED upsets
           \/ UNCHANGED <<inbox, seen>> /\ Upset
        /\ UNCHANGED <<state, origin, delivered, unlisted, inflight, queue, hooks, drain, now>>

-----------------------------------------------------------------------------
(* Cleanup by the delivery worker, time and crashes.                       *)

\* Wrong on purpose, for mutation testing: an expired message stays pending.
CleanedRowLate(r) == IF r.status = "dead" /\ r.receivedAt + Retention < now THEN None ELSE r

CleanedRow(r) ==
    LET d == IF r.expiresAt <= now THEN [r EXCEPT !.status = "dead"] ELSE r
    IN  IF d.status = "dead" /\ d.receivedAt + Retention < now THEN None ELSE d

Cleanup ==
    /\ inbox' = [m \in Messages |-> IF inbox[m] = None THEN None ELSE CleanedRow(inbox[m])]
    /\ seen' = SeenKept
    /\ UNCHANGED <<state, origin, delivered, unlisted, process, now, upsets>>

Tick ==
    /\ now < MaxTime
    /\ now' = now + 1
    /\ UNCHANGED <<tables, process, upsets>>

Crash ==
    /\ Upset
    /\ inflight' = {} /\ queue' = <<>> /\ drain' = {}
    /\ hooks' = [h \in Hooks |-> IdleHook]
    /\ workers' = [w \in Workers |-> IdleWorker]
    /\ UNCHANGED <<tables, now>>

WorkerStep(w) ==
    \/ WorkerTake(w) \/ WorkerCheck(w) \/ WorkerList(w) \/ WorkerDelivered(w)
    \/ WorkerSave(w) \/ WorkerRelease(w) \/ WorkerSettle(w)
    \/ \E i \in Installations : WorkerDeliver(w, i)

InboxNext ==
    \/ \E h \in Hooks :
          \/ HookInsert(h) \/ HookSchedule(h) \/ AdminSchedule(h)
          \/ \E m \in Messages : HookCheck(h, m) \/ AdminRetry(h, m)
    \/ DrainList \/ \E m \in Messages : DrainSchedule(m)
    \/ \E w \in Workers : WorkerStep(w)
    \/ Cleanup \/ Tick \/ Crash

InboxSpec == InboxInit /\ [][InboxNext]_inboxVars

\* The goroutines run, a waiting worker gets the channel lock in the end, the
\* tickers fire and time passes.
InboxFairness ==
    /\ \A w \in Workers : WF_inboxVars(WorkerStep(w)) /\ SF_inboxVars(WorkerCheck(w))
    /\ WF_inboxVars(DrainList) /\ \A m \in Messages : WF_inboxVars(DrainSchedule(m))
    /\ WF_inboxVars(Cleanup) /\ WF_inboxVars(Tick)

InboxFairSpec == InboxSpec /\ InboxFairness

-----------------------------------------------------------------------------
(* Properties.                                                             *)

InboxRow == [status : {"pending", "dead"}, attempts : Nat, availableAt : Nat,
             expiresAt : Nat, receivedAt : Nat]

HookState ==
    [step : {"idle", "insert", "schedule", "relist"}, msg : Messages \cup {None}, at : Nat]

WorkerState ==
    [step : {"idle", "check", "list", "deliver", "save", "release", "settle"},
     msg : Messages \cup {None}, todo : SUBSET Installations, failed : BOOLEAN]

\* The type of the tables and of the goroutines' local state.
TypeOK ==
    /\ inbox \in [Messages -> InboxRow \cup {None}]
    /\ seen \in [Messages -> Nat \cup {None}]
    /\ state \in Titles \cup {None} /\ origin \in Titles \cup {None}
    /\ delivered \in SUBSET (Installations \X Messages) /\ unlisted \in SUBSET Messages
    /\ inflight \in SUBSET Messages /\ queue \in Seq(Messages) /\ drain \in SUBSET Messages
    /\ hooks \in [Hooks -> HookState]
    /\ workers \in [Workers -> WorkerState]
    /\ now \in Nat /\ upsets \in Nat

Busy(w) == workers[w].step \in {"check", "list", "deliver", "save", "release"}

\* A message is never processed by two workers at once, nor queued again while
\* one processes it, whatever stale records the drainer, a repeated webhook and
\* the admin schedule (reserveEventSub and releaseEventSub).
ProcessedOnce ==
    /\ \A v, w \in Workers : Busy(v) /\ Busy(w) /\ workers[v].msg = workers[w].msg => v = w
    /\ \A j \in 1..Len(queue) :
          /\ \A k \in 1..Len(queue) : queue[j] = queue[k] => j = k
          /\ \A w \in Workers : Busy(w) => workers[w].msg # queue[j]

\* Every matching installation has its notification, unless the registrations
\* could not be read when the message was processed.
Announced(m) == m \in unlisted \/ \A i \in Installations : <<i, m>> \in delivered

\* A message is completed only when every matching installation has its
\* notification.  A channel.update may also complete without one if the channel
\* is saved with its state already, and then a message with that state did
\* reach every installation, or it is what the channel started with.  Neither a
\* failed delivery nor a crash makes a retry drop a change; what does, and the
\* only thing, is a List that fails: nobody is told, and the message counts as
\* processed (a change is even saved as the state the channel has).
CompletedDelivered ==
    \A m \in Messages : seen[m] # None =>
        \/ Announced(m)
        \/ Title[m] # None /\ Title[m] = origin
        \/ \E u \in Updates : Title[u] = Title[m] /\ Announced(u)

\* A message is given up only when it expired or its attempts are used up, and
\* it waits for a retry only while it has attempts left.
InboxDeathEarned ==
    \A m \in Messages : inbox[m] # None =>
        /\ inbox[m].status = "dead" =>
              inbox[m].expiresAt <= now \/ inbox[m].attempts >= MaxAttempts
        /\ inbox[m].status = "pending" => inbox[m].attempts < MaxAttempts

\* A message that is recorded as completed comes back into the inbox only by a
\* call that had looked for the record before it was written: a repetition that
\* arrives after the completion is recognised.
ReentryStep ==
    \A m \in Messages : seen[m] # None /\ inbox[m] = None /\ inbox'[m] # None =>
        \E h \in Hooks : hooks[h].step = "insert" /\ hooks[h].msg = m /\ hooks[h].at <= seen[m]

ReentryRaced == [][ReentryStep]_inboxVars

\* What delivery_store_test.go expects of the first update of a channel: it is
\* no error.  A message is marked failed only when some statement failed.
FailureHasCause ==
    \A m \in Messages : inbox[m] # None /\ inbox[m].attempts > 0 => upsets > 0

\* Every message in the inbox is completed or given up in the end, also when it
\* found the queue full or its worker crashed.
InboxDrains == \A m \in Messages : Pending(m) ~> ~Pending(m)

\* A message that was reserved is released in the end, so that a later retry can
\* be scheduled again.
InflightFreed == \A m \in Messages : m \in inflight ~> m \notin inflight
=============================================================================
