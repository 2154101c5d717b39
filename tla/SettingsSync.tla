----------------------------- MODULE SettingsSync -----------------------------
(***************************************************************************)
(* Settings sync over PostgreSQL: the statements of the transactions of    *)
(* Put and Restore under the account's advisory lock, and the reads of     *)
(* Current and History beside them.  Every statement names the account, so *)
(* one account stands for all.                                             *)
(*                                                                         *)
(* The handlers refuse a malformed request before it reaches the store.    *)
(***************************************************************************)
EXTENDS Naturals, FiniteSets

CONSTANTS Clients, Hashes, None, MaxHistory, MaxRevision

VARIABLES
    table,      \* settings_sync_snapshots: the committed rows
    calls       \* each client's request in progress

syncVars == <<table, calls>>

Revisions == 1..MaxRevision
Snapshots == [hash : Hashes, by : Clients]
Listing == [Revisions -> Snapshots \cup {None}]
Requests ==
    [op : {"put"}, rev : 0..MaxRevision, force : BOOLEAN, hash : Hashes]
        \cup [op : {"restore"}, rev : Revisions, force : {FALSE}, hash : {None}]
        \cup [op : {"current", "history"}, rev : {0}, force : {FALSE}, hash : {None}]
Replies == [status : {"ok", "conflict", "notFound", "error"}, shown : Listing]
Nothing == [r \in Revisions |-> None]

ASSUME SyncAssumption ==
    /\ MaxHistory \in Nat /\ MaxRevision \in Nat
    /\ None \notin Snapshots \cup Requests \cup Replies

ErrorReply == [status |-> "error", shown |-> Nothing]

\* A transaction's local state: the revision it read, the content it is about to
\* insert and the rows that it trimmed.
IdleCall ==
    [step |-> "idle", req |-> None, reply |-> None, cur |-> 0, hash |-> None, gone |-> {}]

SyncInit ==
    /\ table = Nothing
    /\ calls = [c \in Clients |-> IdleCall]

\* ORDER BY revision DESC LIMIT 1, or 0 in an empty table.
Newest(t) ==
    CHOOSE r \in 0..MaxRevision :
        /\ r # 0 => t[r] # None
        /\ \A q \in Revisions : t[q] # None => q <= r

Only(listing, r) == [q \in Revisions |-> IF q = r THEN listing[q] ELSE None]

\* The rows of t after the insertion of revision n.
Rows(t, n) == {r \in Revisions : t[r] # None} \cup {n}

\* revision NOT IN (the newest MaxHistory + 1).
Trimmed(t, n) ==
    {r \in Rows(t, n) : Cardinality({q \in Rows(t, n) : q >= r}) > MaxHistory + 1}

-----------------------------------------------------------------------------

Reply(c, status, shown) ==
    calls' = [calls EXCEPT ![c] =
        [step |-> "done", req |-> @.req, reply |-> [status |-> status, shown |-> shown],
         cur |-> 0, hash |-> None, gone |-> {}]]
Goto(c, step, cur, hash, gone) ==
    calls' = [calls EXCEPT ![c] =
        [step |-> step, req |-> @.req, reply |-> None, cur |-> cur, hash |-> hash, gone |-> gone]]
Fails(c) == Reply(c, "error", Nothing)

\* putSettingsSync, restoreSettingsSyncRevision, getSettingsSync and
\* getSettingsSyncHistory reach the store.
Ask(c, q) ==
    /\ calls[c].step = "idle"
    /\ calls' = [calls EXCEPT ![c] =
            [step |-> "begin", req |-> q, reply |-> None, cur |-> 0, hash |-> None, gone |-> {}]]
    /\ UNCHANGED table

\* Wrong on purpose, for mutation testing: nobody waits.
LockFreeAlways == TRUE

\* pg_advisory_xact_lock is held to the end of the transaction.
LockFree == \A x \in Clients : calls[x].step \notin {"locked", "source", "insert", "trim", "commit"}

LockSettingsSyncUser(c) ==
    /\ calls[c].step = "begin" /\ calls[c].req.op \in {"put", "restore"}
    /\ LockFree
    /\ Goto(c, "locked", 0, None, {})
    /\ UNCHANGED table

\* Wrong on purpose, for mutation testing: no conflict in an empty table.
PutReadEmpty(c) ==
    LET q == calls[c].req
        cur == Newest(table)
    IN  /\ calls[c].step = "locked" /\ q.op = "put"
        /\ Goto(c, "insert", cur, q.hash, {})
        /\ cur < MaxRevision
        /\ q.force \/ q.rev = cur \/ cur = 0
        /\ UNCHANGED table

\* currentSettingsSyncTx: a conflict, the content that is there already, or a new
\* revision.
PutRead(c) ==
    LET q == calls[c].req
        cur == Newest(table)
        same == cur # 0 /\ table[cur].hash = q.hash
    IN  /\ calls[c].step = "locked" /\ q.op = "put"
        /\ \/ ~q.force /\ q.rev # cur /\ Reply(c, "conflict", Only(table, cur))
           \/ (q.force \/ q.rev = cur) /\ same /\ Reply(c, "ok", Only(table, cur))
           \/ /\ (q.force \/ q.rev = cur) /\ ~same
              /\ cur < MaxRevision
              /\ Goto(c, "insert", cur, q.hash, {})
        /\ UNCHANGED table

\* Restore reads the revision it is to repeat, then the current one.
RestoreSource(c) ==
    LET q == calls[c].req
    IN  /\ calls[c].step = "locked" /\ q.op = "restore"
        /\ \/ table[q.rev] = None /\ Reply(c, "notFound", Nothing)
           \/ /\ table[q.rev] # None
              /\ Goto(c, "source", 0, table[q.rev].hash, {})
        /\ UNCHANGED table

RestoreRead(c) ==
    /\ calls[c].step = "source"
    /\ Newest(table) < MaxRevision
    /\ Goto(c, "insert", Newest(table), calls[c].hash, {})
    /\ UNCHANGED table

\* The primary key refuses a revision that exists.
InsertSnapshot(c) ==
    /\ calls[c].step = "insert"
    /\ IF table[calls[c].cur + 1] # None THEN Fails(c)
       ELSE Goto(c, "trim", calls[c].cur, calls[c].hash, {})
    /\ UNCHANGED table

\* Wrong on purpose, for mutation testing: the limit is MaxSettingsSyncHistory.
TrimSnapshotsShort(c) ==
    /\ calls[c].step = "trim"
    /\ Goto(c, "commit", calls[c].cur, calls[c].hash,
            Trimmed(table, calls[c].cur + 1)
                \cup {r \in Revisions : r + MaxHistory = calls[c].cur + 1})
    /\ UNCHANGED table

TrimSnapshots(c) ==
    /\ calls[c].step = "trim"
    /\ Goto(c, "commit", calls[c].cur, calls[c].hash, Trimmed(table, calls[c].cur + 1))
    /\ UNCHANGED table

\* Wrong on purpose, for mutation testing: the revision it read is shown.
CommitShowsRead(c) ==
    LET n == calls[c].cur + 1
        row == [hash |-> calls[c].hash, by |-> c]
        next == [r \in Revisions |-> IF r = n THEN row
                                     ELSE IF r \in calls[c].gone THEN None ELSE table[r]]
    IN  /\ calls[c].step = "commit"
        /\ table' = next
        /\ Reply(c, "ok", Only(next, calls[c].cur))

\* The client is told of an error also when the commit took place and its
\* acknowledgement was lost.
CommitSettingsSync(c) ==
    LET n == calls[c].cur + 1
        row == [hash |-> calls[c].hash, by |-> c]
        next == [r \in Revisions |-> IF r = n THEN row
                                     ELSE IF r \in calls[c].gone THEN None ELSE table[r]]
    IN  /\ calls[c].step = "commit"
        /\ table' = next
        /\ Reply(c, "ok", Only(next, n)) \/ Fails(c)

\* A statement fails or the ten seconds of databaseTimeoutContext are over: the
\* transaction is rolled back.
TxFault(c) ==
    /\ calls[c].step \in {"begin", "locked", "source", "insert", "trim", "commit"}
    /\ calls[c].req.op \in {"put", "restore"}
    /\ Fails(c)
    /\ UNCHANGED table

\* Current and History; an error of theirs is answered like an empty account.
ReadSnapshots(c) ==
    LET op == calls[c].req.op
    IN  /\ calls[c].step = "begin"
        /\ \/ op = "current" /\ Reply(c, "ok", Only(table, Newest(table)))
           \/ op = "history" /\ Reply(c, "ok", table)
           \/ op \in {"current", "history"} /\ Reply(c, "ok", Nothing)
        /\ UNCHANGED table

\* The answer is sent.
Return(c) ==
    /\ calls[c].step = "done"
    /\ calls' = [calls EXCEPT ![c] = IdleCall]
    /\ UNCHANGED table

\* The process dies; the open transactions are rolled back.
Crash ==
    /\ calls' = [c \in Clients |-> IdleCall]
    /\ UNCHANGED table

SyncStep(c) ==
    \/ LockSettingsSyncUser(c) \/ PutRead(c) \/ RestoreSource(c) \/ RestoreRead(c)
    \/ InsertSnapshot(c) \/ TrimSnapshots(c) \/ CommitSettingsSync(c)
    \/ TxFault(c) \/ ReadSnapshots(c) \/ Return(c)

SyncNext ==
    \/ \E c \in Clients : SyncStep(c) \/ \E q \in Requests : Ask(c, q)
    \/ Crash

SyncSpec == SyncInit /\ [][SyncNext]_syncVars

-----------------------------------------------------------------------------
(* Properties.                                                             *)

CallState ==
    [step : {"idle", "begin", "locked", "source", "insert", "trim", "commit", "done"},
     req : Requests \cup {None}, reply : Replies \cup {None}, cur : 0..MaxRevision,
     hash : Hashes \cup {None}, gone : SUBSET Revisions]

\* The type of the table and of the transactions' local state.
SyncTypeOK ==
    /\ table \in Listing
    /\ calls \in [Clients -> CallState]

\* The rows are the newest MaxSettingsSyncHistory + 1 revisions without a gap,
\* whatever transactions failed: in particular the current revision is never
\* trimmed.
WindowKept ==
    \E top \in 0..MaxRevision :
        \A r \in Revisions : table[r] # None <=> r <= top /\ top <= r + MaxHistory

\* The advisory lock suffices: a transaction about to insert a revision finds it
\* free and the one before it current, so the primary key never turns two
\* concurrent changes into an error.
LockSuffices ==
    \A c \in Clients :
        calls[c].step \in {"insert", "trim", "commit"} => Newest(table) = calls[c].cur

\* A change that is not forced replaces exactly the revision its device has
\* seen: between the device's base and the new revision nobody else's change
\* is lost (the check of baseRevision in Put).
NoLostUpdateStep ==
    table' # table =>
        \E c \in Clients :
            /\ calls[c].step = "commit" /\ calls'[c].step = "done"
            /\ calls[c].req.op = "put" /\ ~calls[c].req.force => calls[c].req.rev = Newest(table)
            /\ Newest(table') = Newest(table) + 1

NoLostUpdate == [][NoLostUpdateStep]_syncVars

Register == INSTANCE SettingsRegister WITH
    revision <- Newest(table), kept <- table,
    asks <- [c \in Clients |-> calls[c].req], answers <- [c \in Clients |-> calls[c].reply]

\* The store implements the register: every request takes effect at once, at
\* one moment between its beginning and its answer, and the answer is the
\* register's at that moment.
ImplementsRegister == Register!RegSpec
=============================================================================
