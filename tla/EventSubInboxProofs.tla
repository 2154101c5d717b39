-------------------------- MODULE EventSubInboxProofs --------------------------
(***************************************************************************)
(* Proofs about EventSubInbox, for any number of messages, installations,  *)
(* calls and workers and for every value of the bounds.                    *)
(***************************************************************************)
EXTENDS EventSubInbox, TLAPS

\* A call or a worker that is under way has its message.
Assigned ==
    /\ \A h \in Hooks : hooks[h].step # "idle" => hooks[h].msg \in Messages
    /\ \A w \in Workers : workers[w].step # "idle" => workers[w].msg \in Messages

-----------------------------------------------------------------------------
(* Type correctness.                                                       *)

\* The backoff is a number of seconds.
LEMMA BackoffIsNat ==
    ASSUME NEW n \in Nat
    PROVE  Backoff(n) \in Nat
  <1>1. n < 6 => n \in {0, 1, 2, 3, 4, 5}
    OBVIOUS
  <1> QED
    BY <1>1 DEF Backoff

\* What the statements make of a row is a row.
LEMMA RowTypes ==
    ASSUME TypeOK, NEW r \in InboxRow, NEW at \in Nat
    PROVE  /\ Fresh(at, r.receivedAt) \in InboxRow /\ Fresh(at, at) \in InboxRow
           /\ FailedRow(r) \in InboxRow
           /\ CleanedRow(r) \in InboxRow \cup {None}
  <1>1. Fresh(at, r.receivedAt) \in InboxRow /\ Fresh(at, at) \in InboxRow
    BY InboxAssumption DEF Fresh, InboxRow
  <1>2. now + Backoff(r.attempts) \in Nat
    <2>1. now \in Nat
      BY DEF TypeOK
    <2>2. r.attempts \in Nat
      BY DEF InboxRow
    <2> QED
      BY <2>1, <2>2, BackoffIsNat
  <1>3. FailedRow(r) \in InboxRow
    BY <1>2 DEF FailedRow, InboxRow
  <1>4. CleanedRow(r) \in InboxRow \cup {None}
    BY DEF CleanedRow, InboxRow
  <1> QED
    BY <1>1, <1>3, <1>4

\* Scheduling reserves a message and puts it into the queue, or does nothing.
LEMMA ScheduleType ==
    ASSUME TypeOK, NEW m \in Messages, Schedule(m)
    PROVE  inflight' \in SUBSET Messages /\ queue' \in Seq(Messages)
  <1>1. inflight \in SUBSET Messages /\ queue \in Seq(Messages)
    BY DEF TypeOK
  <1>2. CASE UNCHANGED <<inflight, queue>>
    BY <1>1, <1>2
  <1>3. CASE inflight' = inflight \cup {m} /\ queue' = Append(queue, m)
    BY <1>1, <1>3
  <1> QED
    BY <1>2, <1>3 DEF Schedule

\* A worker keeps its message from one step to the next.
LEMMA GotoType ==
    ASSUME TypeOK, Assigned, NEW w \in Workers, workers[w].step # "idle",
           NEW step \in {"check", "list", "deliver", "save", "release", "settle"},
           NEW todo \in SUBSET Installations, NEW failed \in BOOLEAN,
           Goto(w, step, todo, failed), UNCHANGED hooks
    PROVE  workers' \in [Workers -> WorkerState] /\ Assigned'
  <1>1. workers[w].msg \in Messages
    BY DEF Assigned
  <1> DEFINE u == [step |-> step, msg |-> workers[w].msg, todo |-> todo, failed |-> failed]
  <1>2. u \in WorkerState /\ u.msg = workers[w].msg
    BY <1>1 DEF WorkerState
  <1>3. workers' = [workers EXCEPT ![w] = u]
    BY DEF Goto
  <1> HIDE DEF u
  <1> QED
    BY <1>1, <1>2, <1>3 DEF TypeOK, Assigned

\* The calls of the webhook and of the admin keep the types.
LEMMA HookType ==
    ASSUME TypeOK, Assigned, NEW h \in Hooks,
           \/ HookInsert(h) \/ HookSchedule(h) \/ AdminSchedule(h)
           \/ \E m \in Messages : HookCheck(h, m) \/ AdminRetry(h, m)
    PROVE  TypeOK' /\ Assigned'
  <1>1. IdleHook \in HookState /\ IdleHook.step = "idle"
    BY DEF IdleHook, HookState
  <1>2. ASSUME NEW m \in Messages, HookCheck(h, m)
        PROVE  TypeOK' /\ Assigned'
    <2>1. seen' \in [Messages -> Nat \cup {None}]
      BY <1>2 DEF HookCheck, SeenKept, TypeOK
    <2> DEFINE u == [step |-> "insert", msg |-> m, at |-> now]
    <2>2. u \in HookState /\ u.msg = m
      BY DEF HookState, TypeOK
    <2>3. hooks' = [hooks EXCEPT ![h] = u] \/ hooks' = hooks
      BY <1>2 DEF HookCheck, TypeOK
    <2> HIDE DEF u
    <2> QED
      BY <1>2, <2>1, <2>2, <2>3 DEF HookCheck, TypeOK, Assigned
  <1>3. ASSUME NEW m \in Messages, AdminRetry(h, m)
        PROVE  TypeOK' /\ Assigned'
    <2> DEFINE u == [step |-> "relist", msg |-> m, at |-> now]
    <2>1. u \in HookState /\ u.msg = m
      BY DEF HookState, TypeOK
    <2>2. hooks' = [hooks EXCEPT ![h] = u]
      BY <1>3 DEF AdminRetry
    <2> HIDE DEF u
    <2>3. inbox[m] \in InboxRow /\ now \in Nat
      BY <1>3 DEF AdminRetry, TypeOK
    <2>4. inbox' \in [Messages -> InboxRow \cup {None}]
      BY <1>3, <2>3, RowTypes DEF AdminRetry, TypeOK
    <2> QED
      BY <1>3, <2>1, <2>2, <2>4 DEF AdminRetry, Upset, TypeOK, Assigned
  <1>4. CASE HookInsert(h)
    <2>1. hooks[h].msg \in Messages /\ hooks[h].at \in Nat /\ hooks[h] \in HookState
      BY <1>4 DEF HookInsert, Assigned, TypeOK, HookState
    <2>2. Fresh(hooks[h].at, hooks[h].at) \in InboxRow
      BY <2>1, InboxAssumption DEF Fresh, InboxRow
    <2>3. inbox' \in [Messages -> InboxRow \cup {None}]
      BY <1>4, <2>1, <2>2 DEF HookInsert, TypeOK
    <2> DEFINE u == [hooks[h] EXCEPT !.step = "schedule"]
    <2>4. u \in HookState /\ u.msg = hooks[h].msg
      BY <2>1 DEF HookState
    <2>5. hooks' = [hooks EXCEPT ![h] = u] \/ hooks' = [hooks EXCEPT ![h] = IdleHook]
      BY <1>4 DEF HookInsert, TypeOK
    <2> HIDE DEF u
    <2>6. hooks' \in [Hooks -> HookState]
      BY <1>1, <2>4, <2>5 DEF TypeOK
    <2>7. UNCHANGED workers
      BY <1>4 DEF HookInsert
    <2>8. Assigned'
      BY <1>1, <2>1, <2>4, <2>5, <2>7 DEF TypeOK, Assigned
    <2> QED
      BY <1>4, <2>3, <2>6, <2>8 DEF HookInsert, Upset, TypeOK
  <1>5. CASE HookSchedule(h) \/ AdminSchedule(h)
    <2>1. hooks[h].msg \in Messages
      BY <1>5 DEF HookSchedule, AdminSchedule, Assigned
    <2>2. inflight' \in SUBSET Messages /\ queue' \in Seq(Messages)
      BY <1>5, <2>1, ScheduleType DEF HookSchedule, AdminSchedule, TypeOK
    <2> QED
      BY <1>1, <1>5, <2>2 DEF HookSchedule, AdminSchedule, tables, TypeOK, Assigned
  <1> QED
    BY <1>2, <1>3, <1>4, <1>5

\* So do the steps of a worker.
LEMMA WorkerType ==
    ASSUME TypeOK, Assigned, NEW w \in Workers, WorkerStep(w)
    PROVE  TypeOK' /\ Assigned'
  <1>1. workers[w].todo \in SUBSET Installations /\ workers[w].failed \in BOOLEAN
    BY DEF TypeOK, WorkerState
  <1>2. CASE WorkerTake(w)
    <2>1. Head(queue) \in Messages /\ queue' \in Seq(Messages)
      BY <1>2 DEF WorkerTake, TypeOK
    <2> DEFINE u == [step |-> IF Head(queue) \in Updates THEN "check" ELSE "list",
                     msg |-> Head(queue), todo |-> {}, failed |-> FALSE]
    <2>2. u \in WorkerState /\ u.msg = Head(queue)
      BY <2>1 DEF WorkerState
    <2>3. workers' = [workers EXCEPT ![w] = u]
      BY <1>2 DEF WorkerTake
    <2> HIDE DEF u
    <2> QED
      BY <1>2, <2>1, <2>2, <2>3 DEF WorkerTake, tables, TypeOK, Assigned
  <1>3. CASE WorkerCheck(w)
    <2>1. workers' \in [Workers -> WorkerState] /\ Assigned'
      BY <1>1, <1>3, GotoType DEF WorkerCheck, Move, Fail
    <2> QED
      BY <1>3, <2>1 DEF WorkerCheck, Upset, tables, TypeOK
  <1>4. ASSUME NEW i \in Installations, WorkerDeliver(w, i)
        PROVE  TypeOK' /\ Assigned'
    <2>1. workers[w].todo \ {i} \in SUBSET Installations
      BY <1>1
    <2>2. workers' \in [Workers -> WorkerState] /\ Assigned'
      BY <1>1, <1>4, <2>1, GotoType DEF WorkerDeliver
    <2>3. workers[w].msg \in Messages
      BY <1>4 DEF WorkerDeliver, Assigned
    <2> DEFINE Pairs == Installations \X Messages
               n == <<i, workers[w].msg>>
    <2>4. n \in Pairs
      BY <2>3
    <2>5. delivered \in SUBSET Pairs
      BY DEF TypeOK
    <2>6. delivered' = delivered \/ delivered' = delivered \cup {n}
      BY <1>4 DEF WorkerDeliver
    <2>7. upsets' \in Nat
      <3>1. UNCHANGED upsets \/ Upset
        BY <1>4 DEF WorkerDeliver
      <3> QED
        BY <3>1 DEF Upset, TypeOK
    <2>8. delivered' \in SUBSET Pairs
      <3> HIDE DEF Pairs, n
      <3> QED
        BY <2>4, <2>5, <2>6
    <2>9. UNCHANGED <<inbox, seen, state, origin, unlisted, inflight, queue, hooks, drain, now>>
      BY <1>4 DEF WorkerDeliver
    <2> QED
      BY <2>2, <2>7, <2>8, <2>9 DEF TypeOK
  <1>5. CASE WorkerDelivered(w)
    <2>1. workers' \in [Workers -> WorkerState] /\ Assigned'
      BY <1>1, <1>5, GotoType DEF WorkerDelivered, Move
    <2> QED
      BY <1>5, <2>1 DEF WorkerDelivered, tables, TypeOK
  <1>6. CASE WorkerSave(w)
    <2>1. workers' \in [Workers -> WorkerState] /\ Assigned'
      BY <1>1, <1>6, GotoType DEF WorkerSave, Fail
    <2>2. workers[w].msg \in Messages
      BY <1>6 DEF WorkerSave, Assigned
    <2>3. state' \in Titles \cup {None} /\ origin' \in Titles \cup {None}
      BY <1>6, <2>2 DEF WorkerSave, Titles, TypeOK
    <2> QED
      BY <1>6, <2>1, <2>3 DEF WorkerSave, Upset, TypeOK
  <1>7. CASE WorkerRelease(w)
    <2>1. workers' \in [Workers -> WorkerState] /\ Assigned'
      BY <1>1, <1>7, GotoType DEF WorkerRelease, Move
    <2> QED
      BY <1>7, <2>1 DEF WorkerRelease, tables, TypeOK
  <1>8. CASE WorkerSettle(w)
    <2>1. IdleWorker \in WorkerState /\ IdleWorker.step = "idle"
      BY DEF IdleWorker, WorkerState
    <2>2. workers' \in [Workers -> WorkerState] /\ Assigned'
      BY <1>8, <2>1 DEF WorkerSettle, TypeOK, Assigned
    <2>3. \A r \in InboxRow : FailedRow(r) \in InboxRow
      BY RowTypes
    <2>4. inbox' \in [Messages -> InboxRow \cup {None}]
      BY <1>8, <2>3 DEF WorkerSettle, TypeOK
    <2>5. seen' \in [Messages -> Nat \cup {None}]
      BY <1>8 DEF WorkerSettle, TypeOK
    <2> QED
      BY <1>8, <2>2, <2>4, <2>5 DEF WorkerSettle, Upset, TypeOK
  <1>9. CASE WorkerList(w)
    <2>1. workers' \in [Workers -> WorkerState] /\ Assigned'
      BY <1>1, <1>9, GotoType DEF WorkerList
    <2>2. workers[w].msg \in Messages
      BY <1>9 DEF WorkerList, Assigned
    <2>3. unlisted' \in SUBSET Messages /\ upsets' \in Nat
      BY <1>9, <2>2 DEF WorkerList, Upset, TypeOK
    <2>4. UNCHANGED <<inbox, seen, state, origin, delivered, inflight, queue, hooks, drain, now>>
      BY <1>9 DEF WorkerList
    <2> QED
      BY <2>1, <2>3, <2>4 DEF TypeOK
  <1> QED
    BY <1>2, <1>3, <1>4, <1>5, <1>6, <1>7, <1>8, <1>9 DEF WorkerStep

\* Every step of the inbox keeps the types.
LEMMA TypeStep ==
    ASSUME TypeOK, Assigned, [InboxNext]_inboxVars
    PROVE  TypeOK' /\ Assigned'
  <1>1. ASSUME NEW h \in Hooks,
               \/ HookInsert(h) \/ HookSchedule(h) \/ AdminSchedule(h)
               \/ \E m \in Messages : HookCheck(h, m) \/ AdminRetry(h, m)
        PROVE  TypeOK' /\ Assigned'
    BY <1>1, HookType
  <1>2. ASSUME NEW w \in Workers, WorkerStep(w)
        PROVE  TypeOK' /\ Assigned'
    BY <1>2, WorkerType
  <1>3. CASE DrainList
    BY <1>3 DEF DrainList, tables, TypeOK, Assigned
  <1>4. ASSUME NEW m \in Messages, DrainSchedule(m)
        PROVE  TypeOK' /\ Assigned'
    <2>1. inflight' \in SUBSET Messages /\ queue' \in Seq(Messages)
      BY <1>4, ScheduleType DEF DrainSchedule
    <2> QED
      BY <1>4, <2>1 DEF DrainSchedule, tables, TypeOK, Assigned
  <1>5. CASE Cleanup
    <2>1. \A r \in InboxRow : CleanedRow(r) \in InboxRow \cup {None}
      BY RowTypes
    <2>2. inbox' \in [Messages -> InboxRow \cup {None}]
      BY <1>5, <2>1 DEF Cleanup, TypeOK
    <2>3. seen' \in [Messages -> Nat \cup {None}]
      BY <1>5 DEF Cleanup, SeenKept, TypeOK
    <2> QED
      BY <1>5, <2>2, <2>3 DEF Cleanup, process, TypeOK, Assigned
  <1>6. CASE Tick
    BY <1>6 DEF Tick, tables, process, TypeOK, Assigned
  <1>7. CASE Crash
    <2>1. IdleWorker \in WorkerState /\ IdleWorker.step = "idle"
      BY DEF IdleWorker, WorkerState
    <2>2. IdleHook \in HookState /\ IdleHook.step = "idle"
      BY DEF IdleHook, HookState
    <2> QED
      BY <1>7, <2>1, <2>2 DEF Crash, Upset, tables, TypeOK, Assigned
  <1>8. CASE UNCHANGED inboxVars
    BY <1>8 DEF inboxVars, tables, process, TypeOK, Assigned
  <1> QED
    BY <1>1, <1>2, <1>3, <1>4, <1>5, <1>6, <1>7, <1>8 DEF InboxNext

-----------------------------------------------------------------------------
(* A message is processed by one worker at a time.                         *)

\* Whatever is queued or being processed is reserved.
Reserved ==
    /\ \A j \in 1..Len(queue) : queue[j] \in inflight
    /\ \A w \in Workers : Busy(w) => workers[w].msg \in inflight

\* The workers at most finish what they process.
LEMMA SameWork ==
    ASSUME Reserved, ProcessedOnce, UNCHANGED <<queue, inflight>>,
           \A w \in Workers : Busy(w)' => Busy(w) /\ workers'[w].msg = workers[w].msg
    PROVE  Reserved' /\ ProcessedOnce'
  BY DEF Reserved, ProcessedOnce

\* A message enters the queue only if it is not reserved.
LEMMA ScheduleOnce ==
    ASSUME TypeOK, Reserved, ProcessedOnce, NEW m \in Messages, Schedule(m), UNCHANGED workers
    PROVE  Reserved' /\ ProcessedOnce'
  <1>1. CASE UNCHANGED <<inflight, queue>>
    BY <1>1, SameWork DEF Busy
  <1>2. CASE m \notin inflight /\ inflight' = inflight \cup {m} /\ queue' = Append(queue, m)
    <2>1. /\ Len(queue) \in Nat /\ Len(queue') = Len(queue) + 1
          /\ queue'[Len(queue) + 1] = m
          /\ \A j \in 1..Len(queue) : queue'[j] = queue[j]
      BY <1>2 DEF TypeOK
    <2>2. \A j \in 1..Len(queue') : j \in 1..Len(queue) \/ j = Len(queue) + 1
      BY <2>1
    <2>3. \A w \in Workers : Busy(w)' = Busy(w) /\ workers'[w] = workers[w]
      BY DEF Busy
    <2>4. Reserved'
      BY <1>2, <2>1, <2>2, <2>3 DEF Reserved
    <2>5. ProcessedOnce'
      <3>1. \A j, k \in 1..Len(queue') : queue'[j] = queue'[k] => j = k
        BY <1>2, <2>1, <2>2 DEF Reserved, ProcessedOnce
      <3>2. \A j \in 1..Len(queue') : \A w \in Workers : Busy(w)' => workers'[w].msg # queue'[j]
        BY <1>2, <2>1, <2>2, <2>3 DEF Reserved, ProcessedOnce
      <3>3. \A v, w \in Workers :
                Busy(v)' /\ Busy(w)' /\ workers'[v].msg = workers'[w].msg => v = w
        BY <2>3 DEF ProcessedOnce
      <3> QED
        BY <3>1, <3>2, <3>3 DEF ProcessedOnce
    <2> QED
      BY <2>4, <2>5
  <1> QED
    BY <1>1, <1>2 DEF Schedule

\* A worker takes the head of the queue out of it.
LEMMA TakeOnce ==
    ASSUME TypeOK, Reserved, ProcessedOnce, NEW w \in Workers, WorkerTake(w)
    PROVE  Reserved' /\ ProcessedOnce'
  <1>1. /\ Len(queue) \in Nat /\ Len(queue) > 0 /\ Len(queue') = Len(queue) - 1
        /\ Head(queue) = queue[1]
        /\ \A j \in 1..Len(queue') : queue'[j] = queue[j + 1]
    BY DEF WorkerTake, TypeOK
  <1>2. \A j \in 1..Len(queue') : j + 1 \in 1..Len(queue) /\ j + 1 # 1
    BY <1>1
  <1>3. 1 \in 1..Len(queue)
    BY <1>1
  <1>4. ~Busy(w) /\ workers'[w].msg = queue[1] /\ UNCHANGED inflight
    BY <1>1 DEF WorkerTake, Busy, TypeOK
  <1>5. \A v \in Workers \ {w} : Busy(v)' = Busy(v) /\ workers'[v] = workers[v]
    BY DEF WorkerTake, Busy, TypeOK
  <1>6. Reserved'
    BY <1>1, <1>2, <1>3, <1>4, <1>5 DEF Reserved
  <1>7. \A j, k \in 1..Len(queue') : queue'[j] = queue'[k] => j = k
    <2> SUFFICES ASSUME NEW j \in 1..Len(queue'), NEW k \in 1..Len(queue'), queue'[j] = queue'[k]
                 PROVE  j = k
      OBVIOUS
    <2>1. queue[j + 1] = queue[k + 1]
      BY <1>1
    <2>2. j + 1 \in 1..Len(queue) /\ k + 1 \in 1..Len(queue)
      BY <1>2
    <2>3. j + 1 = k + 1
      BY <2>1, <2>2 DEF ProcessedOnce
    <2>4. j \in Nat /\ k \in Nat
      BY <1>1
    <2> QED
      BY <2>3, <2>4
  <1>8. \A j \in 1..Len(queue') : queue'[j] # queue[1]
    BY <1>1, <1>2, <1>3 DEF ProcessedOnce
  <1>9. \A j \in 1..Len(queue') : \A v \in Workers : Busy(v)' => workers'[v].msg # queue'[j]
    BY <1>1, <1>2, <1>4, <1>5, <1>8 DEF ProcessedOnce
  <1>10. \A u, v \in Workers : Busy(u)' /\ Busy(v)' /\ workers'[u].msg = workers'[v].msg => u = v
    <2>1. \A v \in Workers \ {w} : Busy(v)' => workers'[v].msg # queue[1]
      BY <1>3, <1>5 DEF ProcessedOnce
    <2>2. \A u, v \in Workers \ {w} :
              Busy(u)' /\ Busy(v)' /\ workers'[u].msg = workers'[v].msg => u = v
      BY <1>5 DEF ProcessedOnce
    <2> QED
      BY <1>4, <2>1, <2>2
  <1> QED
    BY <1>6, <1>7, <1>9, <1>10 DEF ProcessedOnce

\* A worker gives up its own reservation and nobody else's.
LEMMA ReleaseOnce ==
    ASSUME TypeOK, Reserved, ProcessedOnce, NEW w \in Workers, WorkerRelease(w)
    PROVE  Reserved' /\ ProcessedOnce'
  <1>1. Busy(w) /\ UNCHANGED queue /\ inflight' = inflight \ {workers[w].msg}
    BY DEF WorkerRelease, Busy
  <1>2. ~Busy(w)' /\ \A v \in Workers \ {w} : Busy(v)' = Busy(v) /\ workers'[v] = workers[v]
    BY DEF WorkerRelease, Move, Goto, Busy, TypeOK
  <1> QED
    BY <1>1, <1>2 DEF Reserved, ProcessedOnce

\* Every step keeps the reservations.
LEMMA OnceStep ==
    ASSUME TypeOK, Assigned, Reserved, ProcessedOnce, [InboxNext]_inboxVars
    PROVE  Reserved' /\ ProcessedOnce'
  <1>1. CASE UNCHANGED <<queue, inflight, workers>>
    BY <1>1, SameWork DEF Busy
  <1>2. ASSUME NEW h \in Hooks, HookSchedule(h) \/ AdminSchedule(h)
        PROVE  Reserved' /\ ProcessedOnce'
    <2>1. hooks[h].msg \in Messages /\ UNCHANGED workers
      BY <1>2 DEF HookSchedule, AdminSchedule, Assigned
    <2> QED
      BY <1>1, <1>2, <2>1, ScheduleOnce DEF HookSchedule, AdminSchedule
  <1>3. ASSUME NEW h \in Hooks,
               HookInsert(h) \/ \E m \in Messages : HookCheck(h, m) \/ AdminRetry(h, m)
        PROVE  Reserved' /\ ProcessedOnce'
    BY <1>1, <1>3 DEF HookInsert, HookCheck, AdminRetry
  <1>4. ASSUME NEW m \in Messages, DrainSchedule(m)
        PROVE  Reserved' /\ ProcessedOnce'
    BY <1>4, ScheduleOnce DEF DrainSchedule
  <1>5. ASSUME NEW w \in Workers, WorkerStep(w)
        PROVE  Reserved' /\ ProcessedOnce'
    <2>1. CASE WorkerTake(w)
      BY <2>1, TakeOnce
    <2>2. CASE WorkerRelease(w)
      BY <2>2, ReleaseOnce
    <2>3. CASE WorkerSettle(w)
      <3>1. UNCHANGED <<queue, inflight>>
        BY <2>3 DEF WorkerSettle
      <3>2. \A v \in Workers : Busy(v)' => Busy(v) /\ workers'[v].msg = workers[v].msg
        BY <2>3 DEF WorkerSettle, IdleWorker, Busy, TypeOK
      <3> QED
        BY <3>1, <3>2, SameWork
    <2>4. ASSUME Busy(w), UNCHANGED <<queue, inflight>>, NEW step, NEW todo, NEW failed,
                 Goto(w, step, todo, failed)
          PROVE  Reserved' /\ ProcessedOnce'
      <3>1. \A v \in Workers : Busy(v)' => Busy(v) /\ workers'[v].msg = workers[v].msg
        BY <2>4 DEF Goto, Busy, TypeOK
      <3> QED
        BY <2>4, <3>1, SameWork
    <2>5. CASE WorkerCheck(w) \/ WorkerList(w) \/ WorkerDelivered(w) \/ WorkerSave(w)
      BY <2>4, <2>5 DEF WorkerCheck, WorkerList, WorkerDelivered, WorkerSave, Move, Fail, Busy
    <2>6. ASSUME NEW i \in Installations, WorkerDeliver(w, i)
          PROVE  Reserved' /\ ProcessedOnce'
      <3>1. /\ Busy(w) /\ UNCHANGED <<queue, inflight>>
            /\ \E f \in {workers[w].failed, TRUE} : Goto(w, "deliver", workers[w].todo \ {i}, f)
        BY <2>6 DEF WorkerDeliver, Busy
      <3> QED
        BY <2>4, <3>1
    <2> QED
      BY <1>5, <2>1, <2>2, <2>3, <2>5, <2>6 DEF WorkerStep
  <1>6. CASE DrainList \/ Cleanup \/ Tick \/ UNCHANGED inboxVars
    BY <1>1, <1>6 DEF DrainList, Cleanup, Tick, process, inboxVars
  <1>7. CASE Crash
    BY <1>7 DEF Crash, IdleWorker, Busy, Reserved, ProcessedOnce
  <1> QED
    BY <1>2, <1>3, <1>4, <1>5, <1>6, <1>7 DEF InboxNext

-----------------------------------------------------------------------------
(* A message is given up only when that is earned.                         *)

\* What InboxDeathEarned says of a row at a time.
Earned(r, t) ==
    /\ r.status = "dead" => r.expiresAt <= t \/ r.attempts >= MaxAttempts
    /\ r.status = "pending" => r.attempts < MaxAttempts

\* Every step keeps what it says of the rows.
LEMMA EarnedStep ==
    ASSUME TypeOK, Assigned, InboxDeathEarned, [InboxNext]_inboxVars
    PROVE  InboxDeathEarned'
  <1>1. /\ MaxAttempts \in Nat /\ MaxAttempts > 0 /\ now \in Nat
        /\ \A m \in Messages : inbox[m] # None => Earned(inbox[m], now) /\ inbox[m] \in InboxRow
    BY InboxAssumption DEF TypeOK, InboxDeathEarned, Earned
  <1>2. ASSUME now' \in {now, now + 1},
               \A m \in Messages : inbox'[m] # None => Earned(inbox'[m], now)
        PROVE  InboxDeathEarned'
    <2> SUFFICES ASSUME NEW m \in Messages, inbox'[m] # None
                 PROVE  Earned(inbox'[m], now')
      BY DEF InboxDeathEarned, Earned
    <2>1. inbox'[m] \in InboxRow
      BY TypeStep DEF TypeOK
    <2> QED
      BY <1>1, <1>2, <2>1 DEF Earned, InboxRow
  <1>3. \A at, received \in Nat : Earned(Fresh(at, received), now)
    BY <1>1 DEF Earned, Fresh
  <1>4. \A r \in InboxRow : Earned(FailedRow(r), now)
    BY <1>1 DEF Earned, FailedRow, InboxRow
  <1>5. \A r \in InboxRow : Earned(r, now) /\ CleanedRow(r) # None => Earned(CleanedRow(r), now)
    BY <1>1 DEF Earned, CleanedRow, InboxRow
  <1>6. CASE UNCHANGED inbox /\ now' \in {now, now + 1}
    BY <1>1, <1>2, <1>6
  <1>7. ASSUME NEW h \in Hooks, HookInsert(h)
        PROVE  InboxDeathEarned'
    <2>1. hooks[h].msg \in Messages /\ hooks[h].at \in Nat
      BY <1>7 DEF HookInsert, Assigned, TypeOK, HookState
    <2>2. /\ now' = now
          /\ \A m \in Messages : inbox'[m] \in {inbox[m], Fresh(hooks[h].at, hooks[h].at)}
      BY <1>7, <2>1 DEF HookInsert, TypeOK
    <2> QED
      BY <1>1, <1>2, <1>3, <2>1, <2>2
  <1>8. ASSUME NEW h \in Hooks, NEW o \in Messages, AdminRetry(h, o)
        PROVE  InboxDeathEarned'
    <2>1. inbox[o].receivedAt \in Nat
      BY <1>8 DEF AdminRetry, TypeOK, InboxRow
    <2>2. /\ now' = now
          /\ \A m \in Messages : inbox'[m] \in {inbox[m], Fresh(now, inbox[o].receivedAt)}
      BY <1>8 DEF AdminRetry, TypeOK
    <2> QED
      BY <1>1, <1>2, <1>3, <2>1, <2>2
  <1>9. ASSUME NEW w \in Workers, WorkerSettle(w)
        PROVE  InboxDeathEarned'
    <2>1. /\ now' = now
          /\ \A m \in Messages :
                \/ inbox'[m] = inbox[m] \/ inbox'[m] = None
                \/ inbox[m] # None /\ inbox'[m] = FailedRow(inbox[m])
      BY <1>9 DEF WorkerSettle, TypeOK
    <2> QED
      BY <1>1, <1>2, <1>4, <2>1
  <1>10. CASE Cleanup
    <2>1. /\ now' = now
          /\ \A m \in Messages :
                inbox'[m] = None \/ (inbox[m] # None /\ inbox'[m] = CleanedRow(inbox[m]))
      BY <1>10 DEF Cleanup
    <2> QED
      BY <1>1, <1>2, <1>5, <2>1
  <1>11. ASSUME NEW h \in Hooks,
                HookSchedule(h) \/ AdminSchedule(h) \/ \E m \in Messages : HookCheck(h, m)
         PROVE  InboxDeathEarned'
    BY <1>6, <1>11 DEF HookSchedule, AdminSchedule, HookCheck, tables
  <1>12. ASSUME NEW w \in Workers, WorkerStep(w), ~WorkerSettle(w)
         PROVE  InboxDeathEarned'
    BY <1>6, <1>12
    DEF WorkerStep, WorkerTake, WorkerCheck, WorkerList, WorkerDelivered, WorkerSave,
        WorkerRelease, WorkerDeliver, tables
  <1>13. CASE DrainList \/ \E m \in Messages : DrainSchedule(m)
    BY <1>6, <1>13 DEF DrainList, DrainSchedule, tables
  <1>14. CASE Tick \/ Crash \/ UNCHANGED inboxVars
    BY <1>6, <1>14 DEF Tick, Crash, inboxVars, tables
  <1> QED
    BY <1>7, <1>8, <1>9, <1>10, <1>11, <1>12, <1>13, <1>14 DEF InboxNext

-----------------------------------------------------------------------------
(* A repetition is recognised.                                             *)

\* A call that is about to insert has looked before the message was completed.
LooksBefore ==
    \A h \in Hooks : hooks[h].step = "insert" =>
        /\ hooks[h].at <= now
        /\ seen[hooks[h].msg] # None => hooks[h].at <= seen[hooks[h].msg]

\* Every step keeps it.
LEMMA LooksStep ==
    ASSUME TypeOK, Assigned, LooksBefore, [InboxNext]_inboxVars
    PROVE  LooksBefore'
  <1>1. /\ now \in Nat
        /\ \A h \in Hooks : hooks[h].at \in Nat
        /\ \A h \in Hooks : hooks[h].step = "insert" => hooks[h].msg \in Messages
    BY DEF TypeOK, HookState, Assigned
  <1>2. ASSUME \A h \in Hooks : hooks'[h] = hooks[h] \/ hooks'[h].step # "insert",
               now' \in {now, now + 1},
               \A m \in Messages : seen'[m] \in {seen[m], None, now}
        PROVE  LooksBefore'
    BY <1>1, <1>2 DEF LooksBefore
  <1>3. \A m \in Messages : SeenKept[m] \in {seen[m], None}
    BY DEF SeenKept
  <1>4. ASSUME NEW h \in Hooks, NEW m \in Messages, HookCheck(h, m)
        PROVE  LooksBefore'
    <2>1. now' = now /\ seen' = SeenKept
      BY <1>4 DEF HookCheck
    <2>2. \A o \in Hooks \ {h} : hooks'[o] = hooks[o]
      BY <1>4 DEF HookCheck, TypeOK
    <2>3. \/ hooks'[h] = hooks[h]
          \/ SeenKept[m] = None /\ hooks'[h].msg = m /\ hooks'[h].at = now
      BY <1>4 DEF HookCheck, TypeOK
    <2> QED
      BY <1>1, <1>3, <2>1, <2>2, <2>3 DEF LooksBefore
  <1>5. ASSUME NEW h \in Hooks,
               \/ HookInsert(h) \/ HookSchedule(h) \/ AdminSchedule(h)
               \/ \E m \in Messages : AdminRetry(h, m)
        PROVE  LooksBefore'
    <2>1. UNCHANGED <<seen, now>>
      BY <1>5 DEF HookInsert, HookSchedule, AdminSchedule, AdminRetry, tables
    <2>2. \A o \in Hooks : hooks'[o] = hooks[o] \/ hooks'[o].step # "insert"
      BY <1>5 DEF HookInsert, HookSchedule, AdminSchedule, AdminRetry, IdleHook, TypeOK, HookState
    <2> QED
      BY <1>2, <2>1, <2>2
  <1>6. CASE UNCHANGED <<hooks, seen>> /\ now' \in {now, now + 1}
    BY <1>2, <1>6
  <1>7. ASSUME NEW w \in Workers, WorkerStep(w)
        PROVE  LooksBefore'
    <2>1. CASE WorkerSettle(w)
      <3>1. UNCHANGED <<hooks, now>> /\ \A m \in Messages : seen'[m] \in {seen[m], now}
        BY <2>1 DEF WorkerSettle, TypeOK
      <3> QED
        BY <1>2, <3>1
    <2>2. CASE ~WorkerSettle(w)
      BY <1>6, <1>7, <2>2
      DEF WorkerStep, WorkerTake, WorkerCheck, WorkerList, WorkerDelivered, WorkerSave,
          WorkerRelease, WorkerDeliver, tables
    <2> QED
      BY <2>1, <2>2
  <1>8. CASE Cleanup
    BY <1>2, <1>3, <1>8 DEF Cleanup, process
  <1>9. CASE DrainList \/ \E m \in Messages : DrainSchedule(m)
    BY <1>6, <1>9 DEF DrainList, DrainSchedule, tables
  <1>10. CASE Tick \/ UNCHANGED inboxVars
    BY <1>6, <1>10 DEF Tick, inboxVars, tables, process
  <1>11. CASE Crash
    <2>1. \A h \in Hooks : hooks'[h].step # "insert"
      BY <1>11 DEF Crash, IdleHook
    <2> QED
      BY <2>1 DEF LooksBefore
  <1> QED
    BY <1>4, <1>5, <1>7, <1>8, <1>9, <1>10, <1>11 DEF InboxNext

-----------------------------------------------------------------------------
(* What is completed was delivered.                                        *)

\* Some message with this channel state was announced.
TitleAnnounced(t) == \E u \in Updates : Title[u] = t /\ Announced(u)

\* What CompletedDelivered asks of a message.
Covered(m) ==
    Announced(m) \/ (Title[m] # None /\ Title[m] = origin) \/ TitleAnnounced(Title[m])

\* The saved state is what the channel started with, or it was announced.
StateCovered ==
    /\ state = None <=> origin = None
    /\ state # None => state = origin \/ TitleAnnounced(state)

Updating(w) ==
    workers[w].step \in {"list", "deliver", "save"} /\ workers[w].msg \in Updates

\* The channel lock admits one worker.
OneUpdater == \A v, w \in Workers : Updating(v) /\ Updating(w) => v = w

\* What a worker knows at each step.
Sound(w) ==
    /\ workers[w].step \in {"check", "save"} => workers[w].msg \in Updates
    /\ workers[w].step = "deliver" /\ ~workers[w].failed =>
          \/ workers[w].msg \in unlisted
          \/ \A i \in Installations \ workers[w].todo : <<i, workers[w].msg>> \in delivered
    /\ workers[w].step = "save" => state = None \/ Announced(workers[w].msg)
    /\ workers[w].step \in {"release", "settle"} /\ ~workers[w].failed => Covered(workers[w].msg)

DeliveryInv ==
    /\ StateCovered /\ OneUpdater
    /\ \A w \in Workers : Sound(w)
    /\ \A m \in Messages : seen[m] # None => Covered(m)

\* What has been delivered stays delivered, and what failed stays known.
LEMMA CoveredGrows ==
    ASSUME delivered \subseteq delivered', unlisted \subseteq unlisted',
           UNCHANGED <<state, origin>>
    PROVE  /\ \A m \in Messages : Covered(m) => Covered(m)'
           /\ StateCovered => StateCovered'
           /\ \A m : Announced(m) => Announced(m)'
  BY DEF Covered, StateCovered, TitleAnnounced, Announced

\* The tables stay, and each worker stays as well, or it is idle.
LEMMA QuietDelivery ==
    ASSUME DeliveryInv, UNCHANGED <<state, origin, delivered, unlisted>>,
           \A w \in Workers : workers'[w] = workers[w] \/ workers'[w].step = "idle",
           \A m \in Messages : seen'[m] \in {seen[m], None} \/ Covered(m)
    PROVE  DeliveryInv'
  <1> USE DEF DeliveryInv
  <1>1. StateCovered'
    BY CoveredGrows
  <1>2. OneUpdater'
    BY DEF OneUpdater, Updating
  <1>3. \A w \in Workers : Sound(w)'
    BY DEF Sound, Covered, TitleAnnounced, Announced
  <1>4. \A m \in Messages : (seen[m] # None => Covered(m))'
    BY CoveredGrows
  <1> QED
    BY <1>1, <1>2, <1>3, <1>4

\* One worker goes on and the saved state stays.
LEMMA OneDelivery ==
    ASSUME TypeOK, DeliveryInv, UNCHANGED <<seen, state, origin>>,
           delivered \subseteq delivered', unlisted \subseteq unlisted', NEW w \in Workers,
           \A v \in Workers \ {w} : workers'[v] = workers[v],
           Updating(w)' => Updating(w) \/ \A v \in Workers : ~Updating(v),
           Sound(w)'
    PROVE  DeliveryInv'
  <1> USE DEF DeliveryInv
  <1>1. /\ \A m \in Messages : Covered(m) => Covered(m)'
        /\ StateCovered'
        /\ \A m : Announced(m) => Announced(m)'
    BY CoveredGrows
  <1>2. OneUpdater'
    <2>1. \A v \in Workers \ {w} : Updating(v)' = Updating(v)
      BY DEF Updating
    <2> QED
      BY <2>1 DEF OneUpdater
  <1>3. ASSUME NEW v \in Workers \ {w}
        PROVE  Sound(v)'
    <2>1. workers'[v] = workers[v] /\ Sound(v)
      OBVIOUS
    <2>2. /\ workers[v].step \in {"check", "save"} => workers[v].msg \in Updates
          /\ workers[v].step = "deliver" /\ ~workers[v].failed =>
                \/ workers[v].msg \in unlisted'
                \/ \A i \in Installations \ workers[v].todo : <<i, workers[v].msg>> \in delivered'
      BY <2>1 DEF Sound
    <2>3. workers[v].step = "save" =>
              \/ state = None \/ workers[v].msg \in unlisted'
              \/ \A i \in Installations : <<i, workers[v].msg>> \in delivered'
      BY <2>1 DEF Sound, Announced
    <2>4. workers[v].step \in {"release", "settle"} /\ ~workers[v].failed =>
              \/ workers[v].msg \in unlisted'
              \/ \A i \in Installations : <<i, workers[v].msg>> \in delivered'
              \/ Title[workers[v].msg] # None /\ Title[workers[v].msg] = origin
              \/ \E u \in Updates : /\ Title[u] = Title[workers[v].msg]
                                    /\ \/ u \in unlisted'
                                       \/ \A i \in Installations : <<i, u>> \in delivered'
      BY <2>1 DEF Sound, Covered, TitleAnnounced, Announced
    <2> QED
      BY <2>1, <2>2, <2>3, <2>4 DEF Sound, Covered, TitleAnnounced, Announced
  <1>4. \A m \in Messages : (seen[m] # None => Covered(m))'
    BY <1>1
  <1> QED
    BY <1>1, <1>2, <1>3, <1>4

\* What Goto leaves in the worker's record, and in the others'.
LEMMA GotoFields ==
    ASSUME workers \in [Workers -> WorkerState], NEW w \in Workers,
           NEW step, NEW todo, NEW failed, Goto(w, step, todo, failed)
    PROVE  /\ workers'[w].step = step /\ workers'[w].msg = workers[w].msg
           /\ workers'[w].todo = todo /\ workers'[w].failed = failed
           /\ \A v \in Workers \ {w} : workers'[v] = workers[v]
  BY DEF Goto

\* A worker's own facts after a step that keeps its message.
LEMMA SoundStep ==
    ASSUME TypeOK, Assigned, DeliveryInv, NEW w \in Workers,
           \/ WorkerCheck(w) \/ WorkerDelivered(w)
           \/ WorkerRelease(w) \/ WorkerTake(w)
    PROVE  /\ Sound(w)'
           /\ Updating(w)' => Updating(w) \/ \A v \in Workers : ~Updating(v)
           /\ \A v \in Workers \ {w} : workers'[v] = workers[v]
           /\ UNCHANGED <<seen, state, origin, delivered, unlisted>>
  <1> USE DEF DeliveryInv
  <1>1. \A v \in Workers \ {w} : workers'[v] = workers[v]
    BY DEF WorkerCheck, WorkerDelivered, WorkerRelease, WorkerTake, Move, Fail, Goto, TypeOK
  <1>2. UNCHANGED <<seen, state, origin, delivered, unlisted>>
    BY DEF WorkerCheck, WorkerDelivered, WorkerRelease, WorkerTake, tables
  <1> DEFINE m == workers[w].msg
  <1>3. ASSUME NEW step, NEW todo, NEW failed, Goto(w, step, todo, failed)
        PROVE  /\ workers'[w].step = step /\ workers'[w].msg = m
               /\ workers'[w].todo = todo /\ workers'[w].failed = failed
    BY <1>3, GotoFields DEF TypeOK
  <1>4. CASE WorkerTake(w)
    <2>1. /\ workers'[w].msg = Head(queue)
          /\ workers'[w].step = IF Head(queue) \in Updates THEN "check" ELSE "list"
      BY <1>4 DEF WorkerTake, TypeOK
    <2> QED
      BY <1>1, <1>2, <2>1 DEF Sound, Updating
  <1>5. CASE WorkerCheck(w)
    <2>1. m \in Updates /\ Title[m] # None
      BY <1>5 DEF WorkerCheck, Sound, Updates
    <2>2. \A v \in Workers : ~Updating(v)
      BY <1>5 DEF WorkerCheck, ChannelFree, Updating
    <2>3. CASE Fail(w, "release")
      <3>1. workers'[w].step = "release" /\ workers'[w].failed = TRUE
        BY <1>3, <2>3 DEF Fail
      <3> QED
        BY <1>1, <1>2, <2>2, <3>1 DEF Sound
    <2>4. CASE state = None /\ Move(w, "save")
      <3>1. workers'[w].step = "save" /\ workers'[w].msg = m
        BY <1>3, <2>4 DEF Move
      <3> QED
        BY <1>1, <1>2, <2>1, <2>2, <2>4, <3>1 DEF Sound
    <2>5. CASE state = Title[m] /\ Move(w, "release")
      <3>1. workers'[w].step = "release" /\ workers'[w].msg = m
        BY <1>3, <2>5 DEF Move
      <3>2. Title[m] = origin \/ TitleAnnounced(Title[m])
        BY <2>1, <2>5 DEF StateCovered
      <3>3. \/ Title[m] = origin
            \/ \E u \in Updates : /\ Title[u] = Title[m]
                                  /\ \/ u \in unlisted'
                                     \/ \A i \in Installations : <<i, u>> \in delivered'
        BY <1>2, <3>2 DEF TitleAnnounced, Announced
      <3>4. \/ Title[m] # None /\ Title[m] = origin'
            \/ \E u \in Updates : /\ Title[u] = Title[m]
                                  /\ \/ u \in unlisted'
                                     \/ \A i \in Installations : <<i, u>> \in delivered'
        BY <1>2, <2>1, <3>3
      <3>5. Sound(w)'
        BY <3>1, <3>4 DEF Sound, Covered, TitleAnnounced, Announced
      <3> QED
        BY <1>1, <1>2, <2>2, <3>5
    <2>6. CASE state \notin {None, Title[m]} /\ Move(w, "list")
      <3>1. workers'[w].step = "list"
        BY <1>3, <2>6 DEF Move
      <3> QED
        BY <1>1, <1>2, <2>2, <3>1 DEF Sound
    <2> QED
      BY <1>5, <2>3, <2>4, <2>5, <2>6 DEF WorkerCheck
  <1>6. CASE WorkerDelivered(w)
    <2>1. workers[w].step = "deliver" /\ workers[w].todo = {}
      BY <1>6 DEF WorkerDelivered
    <2>2. ~workers[w].failed =>
              m \in unlisted' \/ \A i \in Installations : <<i, m>> \in delivered'
      BY <1>2, <2>1 DEF Sound
    <2>3. /\ workers'[w].msg = m /\ workers'[w].failed = workers[w].failed
          /\ workers'[w].step =
                IF ~workers[w].failed /\ m \in Updates THEN "save" ELSE "release"
      BY <1>3, <1>6 DEF WorkerDelivered, Move
    <2>4. Sound(w)'
      BY <2>2, <2>3 DEF Sound, Covered, Announced
    <2> QED
      BY <1>1, <1>2, <2>1, <2>3, <2>4 DEF Updating
  <1>7. CASE WorkerRelease(w)
    <2>1. workers[w].step = "release"
      BY <1>7 DEF WorkerRelease
    <2>2. workers'[w].step = "settle" /\ workers'[w].msg = m /\ workers'[w].failed = workers[w].failed
      BY <1>3, <1>7 DEF WorkerRelease, Move
    <2>3. ~workers[w].failed =>
              \/ m \in unlisted' \/ \A i \in Installations : <<i, m>> \in delivered'
              \/ Title[m] # None /\ Title[m] = origin'
              \/ \E u \in Updates : /\ Title[u] = Title[m]
                                    /\ \/ u \in unlisted'
                                       \/ \A i \in Installations : <<i, u>> \in delivered'
      BY <1>2, <2>1 DEF Sound, Covered, TitleAnnounced, Announced
    <2>4. Sound(w)'
      BY <2>2, <2>3 DEF Sound, Covered, TitleAnnounced, Announced
    <2> QED
      BY <1>1, <1>2, <2>2, <2>4 DEF Updating
  <1> QED
    BY <1>4, <1>5, <1>6, <1>7

\* The registrations are read, or nobody will be told.
LEMMA ListStep ==
    ASSUME TypeOK, DeliveryInv, NEW w \in Workers, WorkerList(w)
    PROVE  DeliveryInv'
  <1> DEFINE m == workers[w].msg
  <1>1. /\ workers[w].step = "list" /\ UNCHANGED <<seen, state, origin, delivered>>
        /\ unlisted \subseteq unlisted'
    BY DEF WorkerList
  <1>2. workers \in [Workers -> WorkerState]
    BY DEF TypeOK
  <1>3. PICK todo \in {Installations, {}} :
            /\ Goto(w, "deliver", todo, workers[w].failed)
            /\ todo = Installations \/ m \in unlisted'
    BY DEF WorkerList
  <1>4. Goto(w, "deliver", todo, workers[w].failed)
    BY <1>3
  <1>5. /\ workers'[w].step = "deliver" /\ workers'[w].msg = m /\ workers'[w].todo = todo
        /\ \A v \in Workers \ {w} : workers'[v] = workers[v]
    BY <1>2, <1>4, GotoFields
  <1>6. m \in unlisted' \/ \A i \in Installations \ todo : <<i, m>> \in delivered'
    BY <1>3
  <1>7. Sound(w)'
    BY <1>5, <1>6 DEF Sound
  <1>8. Updating(w)' => Updating(w)
    BY <1>1, <1>5 DEF Updating
  <1>9. delivered \subseteq delivered'
    BY <1>1
  <1> QED
    BY <1>1, <1>5, <1>7, <1>8, <1>9, OneDelivery

\* One installation after the other.
LEMMA DeliverStep ==
    ASSUME TypeOK, DeliveryInv, NEW w \in Workers, NEW i \in Installations, WorkerDeliver(w, i)
    PROVE  DeliveryInv'
  <1> DEFINE m == workers[w].msg
  <1>1. /\ workers[w].step = "deliver" /\ UNCHANGED <<seen, state, origin, unlisted>>
        /\ delivered \subseteq delivered'
        /\ \E f \in {workers[w].failed, TRUE} :
              /\ Goto(w, "deliver", workers[w].todo \ {i}, f)
              /\ f = TRUE \/ <<i, m>> \in delivered'
    BY DEF WorkerDeliver
  <1>2. workers \in [Workers -> WorkerState]
    BY DEF TypeOK
  <1>3. PICK f \in {workers[w].failed, TRUE} :
            /\ Goto(w, "deliver", workers[w].todo \ {i}, f)
            /\ f = TRUE \/ <<i, m>> \in delivered'
    BY <1>1
  <1>4. Goto(w, "deliver", workers[w].todo \ {i}, f)
    BY <1>3
  <1>5. /\ workers'[w].step = "deliver" /\ workers'[w].msg = m /\ workers'[w].failed = f
        /\ workers'[w].todo = workers[w].todo \ {i}
        /\ \A v \in Workers \ {w} : workers'[v] = workers[v]
    BY <1>2, <1>4, GotoFields
  <1>6. ~f => ~workers[w].failed /\ <<i, m>> \in delivered'
    <2>1. f = TRUE \/ (f = workers[w].failed /\ <<i, m>> \in delivered')
      BY <1>3, Zenon
    <2> QED
      BY <2>1, Zenon
  <1>7. ~workers[w].failed =>
            \/ m \in unlisted'
            \/ \A j \in Installations \ workers[w].todo : <<j, m>> \in delivered'
    BY <1>1 DEF Sound, DeliveryInv
  <1>8. ~workers'[w].failed =>
            \/ m \in unlisted'
            \/ \A j \in Installations \ (workers[w].todo \ {i}) : <<j, m>> \in delivered'
    BY <1>5, <1>6, <1>7
  <1>9. Sound(w)'
    BY <1>5, <1>8 DEF Sound
  <1>10. Updating(w)' => Updating(w)
    BY <1>1, <1>5 DEF Updating
  <1> QED
    BY <1>1, <1>5, <1>9, <1>10, OneDelivery

\* The new channel state is saved after everybody was told.
LEMMA SaveStep ==
    ASSUME TypeOK, Assigned, DeliveryInv, NEW w \in Workers, WorkerSave(w)
    PROVE  DeliveryInv'
  <1> USE DEF DeliveryInv
  <1> DEFINE m == workers[w].msg
  <1>1. /\ m \in Updates /\ Title[m] # None /\ Updating(w)
        /\ state = None \/ Announced(m)
    BY DEF WorkerSave, Sound, Updates, Updating
  <1>2. UNCHANGED <<seen, delivered, unlisted>>
    BY DEF WorkerSave
  <1>3. /\ \A v \in Workers \ {w} : workers'[v] = workers[v]
        /\ workers'[w].step = "release" /\ workers'[w].failed = TRUE
    BY DEF WorkerSave, Fail, Goto, TypeOK
  <1>4. \/ UNCHANGED <<state, origin>>
        \/ state' = Title[m] /\ origin' = IF state = None THEN Title[m] ELSE origin
    BY DEF WorkerSave
  <1>5. \A t : TitleAnnounced(t) => TitleAnnounced(t)'
    BY <1>2 DEF TitleAnnounced, Announced
  <1>6. origin # None => origin' = origin
    BY <1>4 DEF StateCovered
  <1>7. \A x : Covered(x) => Covered(x)'
    BY <1>2, <1>6 DEF Covered, TitleAnnounced, Announced
  <1>8. StateCovered'
    <2>1. CASE UNCHANGED <<state, origin>>
      BY <1>2, <2>1, CoveredGrows
    <2>2. CASE state' = Title[m] /\ state = None /\ origin' = Title[m]
      BY <1>1, <2>2 DEF StateCovered
    <2>3. CASE state' = Title[m] /\ state # None /\ origin' = origin
      <3>1. m \in unlisted' \/ \A i \in Installations : <<i, m>> \in delivered'
        BY <1>1, <1>2, <2>3 DEF Announced
      <3> QED
        BY <1>1, <2>3, <3>1 DEF StateCovered, TitleAnnounced, Announced
    <2> QED
      BY <1>4, <2>1, <2>2, <2>3
  <1>9. OneUpdater'
    BY <1>3 DEF OneUpdater, Updating
  <1>10. ASSUME NEW v \in Workers \ {w}
         PROVE  Sound(v)'
    <2>1. workers'[v] = workers[v] /\ Sound(v)
      BY <1>3
    <2>2. workers[v].step # "save"
      BY <1>1, <2>1 DEF OneUpdater, Sound, Updating
    <2>3. workers[v].step \in {"release", "settle"} /\ ~workers[v].failed =>
              \/ workers[v].msg \in unlisted'
              \/ \A i \in Installations : <<i, workers[v].msg>> \in delivered'
              \/ Title[workers[v].msg] # None /\ Title[workers[v].msg] = origin'
              \/ \E u \in Updates : /\ Title[u] = Title[workers[v].msg]
                                    /\ \/ u \in unlisted'
                                       \/ \A i \in Installations : <<i, u>> \in delivered'
      BY <1>2, <1>6, <2>1 DEF Sound, Covered, TitleAnnounced, Announced
    <2>4. workers[v].step = "deliver" /\ ~workers[v].failed =>
              \/ workers[v].msg \in unlisted'
              \/ \A i \in Installations \ workers[v].todo : <<i, workers[v].msg>> \in delivered'
      BY <1>2, <2>1 DEF Sound
    <2>5. workers[v].step = "check" => workers[v].msg \in Updates
      BY <2>1 DEF Sound
    <2> QED
      BY <2>1, <2>2, <2>3, <2>4, <2>5 DEF Sound, Covered, TitleAnnounced, Announced
  <1>11. Sound(w)'
    BY <1>3 DEF Sound
  <1>12. \A x \in Messages : (seen[x] # None => Covered(x))'
    BY <1>2, <1>7
  <1> QED
    BY <1>8, <1>9, <1>10, <1>11, <1>12

\* Every step keeps the delivery invariant.
LEMMA DeliveryStep ==
    ASSUME TypeOK, Assigned, DeliveryInv, [InboxNext]_inboxVars
    PROVE  DeliveryInv'
  <1>1. CASE UNCHANGED <<state, origin, delivered, unlisted, seen, workers>>
    BY <1>1, QuietDelivery
  <1>2. \A m \in Messages : SeenKept[m] \in {seen[m], None}
    BY DEF SeenKept
  <1>3. ASSUME NEW h \in Hooks, NEW m \in Messages, HookCheck(h, m)
        PROVE  DeliveryInv'
    BY <1>2, <1>3, QuietDelivery DEF HookCheck
  <1>4. ASSUME NEW h \in Hooks,
               \/ HookInsert(h) \/ HookSchedule(h) \/ AdminSchedule(h)
               \/ \E m \in Messages : AdminRetry(h, m)
        PROVE  DeliveryInv'
    BY <1>1, <1>4 DEF HookInsert, HookSchedule, AdminSchedule, AdminRetry, tables
  <1>5. ASSUME NEW w \in Workers, WorkerStep(w)
        PROVE  DeliveryInv'
    <2>1. CASE WorkerCheck(w) \/ WorkerDelivered(w) \/ WorkerRelease(w) \/ WorkerTake(w)
      <3>1. /\ Sound(w)'
            /\ Updating(w)' => Updating(w) \/ \A v \in Workers : ~Updating(v)
            /\ \A v \in Workers \ {w} : workers'[v] = workers[v]
            /\ UNCHANGED <<seen, state, origin, delivered, unlisted>>
        BY <2>1, SoundStep
      <3>2. delivered \subseteq delivered' /\ unlisted \subseteq unlisted'
        BY <3>1
      <3> QED
        BY <3>1, <3>2, OneDelivery
    <2>2. ASSUME NEW i \in Installations, WorkerDeliver(w, i)
          PROVE  DeliveryInv'
      BY <2>2, DeliverStep
    <2>3. CASE WorkerSave(w)
      BY <2>3, SaveStep
    <2>4. CASE WorkerSettle(w)
      <3>1. UNCHANGED <<state, origin, delivered, unlisted>>
        BY <2>4 DEF WorkerSettle
      <3>2. \A v \in Workers : workers'[v] = workers[v] \/ workers'[v].step = "idle"
        BY <2>4 DEF WorkerSettle, IdleWorker, TypeOK
      <3>3. \A m \in Messages :
                seen'[m] = seen[m] \/ (m = workers[w].msg /\ ~workers[w].failed)
        BY <2>4 DEF WorkerSettle, TypeOK
      <3>4. ~workers[w].failed => Covered(workers[w].msg)
        BY <2>4 DEF WorkerSettle, DeliveryInv, Sound
      <3>5. \A m \in Messages : seen'[m] \in {seen[m], None} \/ Covered(m)
        BY <3>3, <3>4
      <3> QED
        BY <3>1, <3>2, <3>5, QuietDelivery
    <2>5. CASE WorkerList(w)
      BY <2>5, ListStep
    <2> QED
      BY <1>5, <2>1, <2>2, <2>3, <2>4, <2>5 DEF WorkerStep
  <1>6. CASE Cleanup
    BY <1>2, <1>6, QuietDelivery DEF Cleanup, process
  <1>7. CASE DrainList \/ \E m \in Messages : DrainSchedule(m)
    BY <1>1, <1>7 DEF DrainList, DrainSchedule, tables
  <1>8. CASE Tick \/ UNCHANGED inboxVars
    BY <1>1, <1>8 DEF Tick, inboxVars, tables, process
  <1>9. CASE Crash
    <2>1. UNCHANGED <<state, origin, delivered, unlisted, seen>>
      BY <1>9 DEF Crash, tables
    <2>2. \A w \in Workers : workers'[w].step = "idle"
      BY <1>9 DEF Crash, IdleWorker
    <2> QED
      BY <2>1, <2>2, QuietDelivery
  <1> QED
    BY <1>3, <1>4, <1>5, <1>6, <1>7, <1>8, <1>9 DEF InboxNext

-----------------------------------------------------------------------------
(* The theorems.                                                           *)

\* The inductive invariant.
InboxInv ==
    /\ TypeOK /\ Assigned
    /\ Reserved /\ ProcessedOnce
    /\ InboxDeathEarned /\ LooksBefore
    /\ DeliveryInv

\* The invariant holds in every behaviour of the inbox.
THEOREM InboxInvariant == InboxSpec => []InboxInv
  <1>1. InboxInit => InboxInv
    <2> SUFFICES ASSUME InboxInit PROVE InboxInv
      OBVIOUS
    <2>1. \A w \in Workers : workers[w] = IdleWorker
      BY DEF InboxInit
    <2>2. IdleWorker \in WorkerState /\ IdleWorker.step = "idle"
      BY DEF IdleWorker, WorkerState
    <2>3. IdleHook \in HookState /\ IdleHook.step = "idle"
      BY DEF IdleHook, HookState
    <2>4. state \in Titles \cup {None} /\ origin = state
      BY DEF InboxInit, Titles
    <2>5. delivered \in SUBSET (Installations \X Messages) /\ queue \in Seq(Messages) /\ Len(queue) = 0
      BY DEF InboxInit
    <2>6. TypeOK
      BY <2>2, <2>3, <2>4, <2>5 DEF InboxInit, TypeOK
    <2>7. Assigned /\ LooksBefore /\ InboxDeathEarned
      BY <2>2, <2>3 DEF InboxInit, Assigned, LooksBefore, InboxDeathEarned
    <2>8. Reserved /\ ProcessedOnce
      BY <2>1, <2>2, <2>5 DEF Reserved, ProcessedOnce, Busy
    <2>9. DeliveryInv
      BY <2>1, <2>2, <2>4 DEF InboxInit, DeliveryInv, StateCovered, OneUpdater, Updating, Sound
    <2> QED
      BY <2>6, <2>7, <2>8, <2>9 DEF InboxInv
  <1>2. InboxInv /\ [InboxNext]_inboxVars => InboxInv'
    BY TypeStep, OnceStep, EarnedStep, LooksStep, DeliveryStep DEF InboxInv
  <1> QED
    BY <1>1, <1>2, PTL DEF InboxSpec

\* The tables, the queue and the goroutines' local state keep their types.
THEOREM InboxTypeOK == InboxSpec => []TypeOK
  BY InboxInvariant, PTL DEF InboxInv

\* No message is processed by two workers at once or queued while one has it.
THEOREM ProcessedByOne == InboxSpec => []ProcessedOnce
  BY InboxInvariant, PTL DEF InboxInv

\* A message is given up only after its expiry or after MaxAttempts attempts.
THEOREM InboxDeathIsEarned == InboxSpec => []InboxDeathEarned
  BY InboxInvariant, PTL DEF InboxInv

\* A completed message reached every installation, or it announced nothing new,
\* or the registrations could not be read when it was processed.
THEOREM CompletedWasDelivered == InboxSpec => []CompletedDelivered
  <1>1. InboxInv => CompletedDelivered
    BY DEF InboxInv, DeliveryInv, Covered, TitleAnnounced, CompletedDelivered
  <1> QED
    BY <1>1, InboxInvariant, PTL

\* Only a call that looked before the completion brings a message back.
THEOREM ReentryOnlyRaced == InboxSpec => ReentryRaced
  <1>1. InboxInv /\ [InboxNext]_inboxVars => ReentryStep
    <2> SUFFICES ASSUME InboxInv, [InboxNext]_inboxVars, NEW m \in Messages,
                        seen[m] # None, inbox[m] = None, inbox'[m] # None
                 PROVE  \E h \in Hooks : /\ hooks[h].step = "insert" /\ hooks[h].msg = m
                                         /\ hooks[h].at <= seen[m]
      BY DEF ReentryStep
    <2> USE DEF InboxInv
    <2>1. inbox' # inbox
      OBVIOUS
    <2>2. ASSUME NEW h \in Hooks, HookInsert(h)
          PROVE  hooks[h].step = "insert" /\ hooks[h].msg = m /\ hooks[h].at <= seen[m]
      <3>1. hooks[h].step = "insert" /\ hooks[h].msg = m
        BY <2>2 DEF HookInsert, TypeOK
      <3> QED
        BY <3>1 DEF LooksBefore
    <2>3. \A h \in Hooks, o \in Messages : ~AdminRetry(h, o)
      BY DEF AdminRetry, TypeOK
    <2>4. \A h \in Hooks : ~HookSchedule(h) /\ ~AdminSchedule(h) /\ \A o \in Messages : ~HookCheck(h, o)
      BY <2>1 DEF HookSchedule, AdminSchedule, HookCheck, tables
    <2>5. \A w \in Workers : ~WorkerStep(w)
      <3> SUFFICES ASSUME NEW w \in Workers, WorkerStep(w) PROVE FALSE
        OBVIOUS
      <3>1. CASE WorkerSettle(w)
        BY <3>1 DEF WorkerSettle, TypeOK
      <3>2. CASE ~WorkerSettle(w)
        BY <2>1, <3>2
        DEF WorkerStep, WorkerTake, WorkerCheck, WorkerList, WorkerDelivered, WorkerSave,
            WorkerRelease, WorkerDeliver, tables
      <3> QED
        BY <3>1, <3>2
    <2>6. ~Cleanup
      BY DEF Cleanup
    <2>7. ~DrainList /\ ~Tick /\ ~Crash /\ inboxVars' # inboxVars /\ \A o \in Messages : ~DrainSchedule(o)
      BY <2>1 DEF DrainList, Tick, Crash, DrainSchedule, inboxVars, tables
    <2> QED
      BY <2>2, <2>3, <2>4, <2>5, <2>6, <2>7 DEF InboxNext
  <1> QED
    BY <1>1, InboxInvariant, PTL DEF InboxSpec, ReentryRaced
=============================================================================
