-------------------------- MODULE SettingsSyncProofs --------------------------
(***************************************************************************)
(* Proofs about SettingsSync, for any number of devices, every set of      *)
(* contents and every value of the limits; in particular that the store    *)
(* implements the register of SettingsRegister.                            *)
(***************************************************************************)
EXTENDS SettingsSync, FiniteSetTheorems, TLAPS

\* The rows of t are a window of revisions that ends with top.
Window(t, top) ==
    \A r \in Revisions : t[r] # None <=> r <= top /\ top <= r + MaxHistory

Held == {"locked", "source", "insert", "trim", "commit"}

\* The change that a transaction is about to make is one its request earned.
Earned(t, u) ==
    /\ u.cur < MaxRevision /\ u.cur = Newest(t) /\ u.hash \in Hashes
    /\ u.req.op = "put" =>
          /\ u.req.force \/ u.req.rev = u.cur
          /\ u.hash = u.req.hash
          /\ ~(u.cur # 0 /\ t[u.cur].hash = u.req.hash)
    /\ u.req.op = "restore" => t[u.req.rev] # None /\ u.hash = t[u.req.rev].hash

\* The state of a call agrees with the table.
CallOK(t, u) ==
    /\ u \in CallState
    /\ u.step = "idle" <=> u.req = None
    /\ u.step = "done" <=> u.reply # None
    /\ u.step \in Held => u.req.op \in {"put", "restore"}
    /\ u.step = "source" =>
          u.req.op = "restore" /\ t[u.req.rev] # None /\ u.hash = t[u.req.rev].hash
    /\ u.step \in {"insert", "trim", "commit"} => Earned(t, u)
    /\ u.step = "commit" => u.gone = Trimmed(t, u.cur + 1)

\* The inductive invariant.
SyncInv ==
    /\ table \in Listing /\ \E top \in 0..MaxRevision : Window(table, top)
    /\ calls \in [Clients -> CallState]
    /\ \A c \in Clients : CallOK(table, calls[c])
    /\ \A c, d \in Clients : calls[c].step \in Held /\ calls[d].step \in Held => c = d

-----------------------------------------------------------------------------
(* The table.                                                              *)

\* The newest row of a window is its end.
LEMMA NewestOfWindow ==
    ASSUME NEW t, NEW top \in 0..MaxRevision, Window(t, top)
    PROVE  Newest(t) = top
  <1> DEFINE P(r) == /\ r # 0 => t[r] # None
                     /\ \A q \in Revisions : t[q] # None => q <= r
  <1>1. P(top)
    BY SyncAssumption DEF Window, Revisions
  <1>2. ASSUME NEW r \in 0..MaxRevision, P(r)
        PROVE  r = top
    <2>1. r <= top
      BY <1>2, SyncAssumption DEF Window, Revisions
    <2>2. top <= r
      BY <1>1, <1>2, SyncAssumption DEF Window, Revisions
    <2> QED
      BY <2>1, <2>2, SyncAssumption
  <1>3. Newest(t) = CHOOSE r \in 0..MaxRevision : P(r)
    BY DEF Newest
  <1> HIDE DEF P
  <1> QED
    BY <1>1, <1>2, <1>3

\* The rows that are trimmed are those that the window leaves behind.
LEMMA TrimmedOfWindow ==
    ASSUME NEW t, NEW top \in 0..MaxRevision, Window(t, top), top < MaxRevision
    PROVE  Trimmed(t, top + 1) = {r \in Revisions : t[r] # None /\ r + MaxHistory < top + 1}
  <1> DEFINE rows == Rows(t, top + 1)
             after(r) == {q \in rows : q >= r}
  <1>1. \A r : r \in rows <=> r \in Revisions /\ r <= top + 1 /\ top <= r + MaxHistory
    BY SyncAssumption DEF Rows, Window, Revisions
  <1>2. ASSUME NEW r \in rows
        PROVE  Cardinality(after(r)) = (top + 1) - r + 1
    <2>1. r \in Int /\ top + 1 \in Int /\ r <= top + 1
      BY <1>1, SyncAssumption DEF Revisions
    <2>2. after(r) = r..(top + 1)
      BY <1>1, SyncAssumption DEF Revisions
    <2>3. Cardinality(r..(top + 1)) = (top + 1) - r + 1
      BY <2>1, FS_Interval
    <2> QED
      BY <2>2, <2>3
  <1>3. Trimmed(t, top + 1) = {r \in rows : Cardinality(after(r)) > MaxHistory + 1}
    BY DEF Trimmed
  <1>4. ASSUME NEW r \in rows
        PROVE  Cardinality(after(r)) > MaxHistory + 1 <=> t[r] # None /\ r + MaxHistory < top + 1
    <2>1. Cardinality(after(r)) = (top + 1) - r + 1
      BY <1>2
    <2>2. r \in Revisions /\ r <= top + 1 /\ top <= r + MaxHistory
      BY <1>1
    <2> HIDE DEF after, rows
    <2> QED
      BY <2>1, <2>2, SyncAssumption DEF Window, Revisions
  <1>5. ASSUME NEW r \in Revisions, t[r] # None
        PROVE  r \in rows
    BY <1>5 DEF Rows
  <1>6. rows \subseteq Revisions
    BY <1>1
  <1> HIDE DEF rows, after
  <1> QED
    BY <1>3, <1>4, <1>5, <1>6

\* What the store's state says of the newest revision.
LEMMA NewestOK ==
    ASSUME SyncInv
    PROVE  /\ Newest(table) \in 0..MaxRevision /\ Window(table, Newest(table))
           /\ Newest(table) # 0 =>
                 Newest(table) \in Revisions /\ table[Newest(table)] \in Snapshots
  <1>1. PICK top \in 0..MaxRevision : Window(table, top)
    BY DEF SyncInv
  <1>2. Newest(table) = top
    BY <1>1, NewestOfWindow
  <1>3. top # 0 => top \in Revisions /\ table[top] \in Snapshots
    BY <1>1, SyncAssumption DEF Window, SyncInv, Listing, Revisions
  <1> QED
    BY <1>1, <1>2, <1>3

\* The table after the commit of row s as revision top + 1.
NextTable(t, top, s, gone) ==
    [r \in Revisions |-> IF r = top + 1 THEN s ELSE IF r \in gone THEN None ELSE t[r]]

\* It is the window that ends with the new revision, and the register's.
LEMMA NextWindow ==
    ASSUME NEW t \in Listing, NEW top \in 0..MaxRevision, Window(t, top), top < MaxRevision,
           NEW s \in Snapshots
    PROVE  LET next == NextTable(t, top, s, Trimmed(t, top + 1))
           IN  /\ next \in Listing /\ Window(next, top + 1) /\ Newest(next) = top + 1
               /\ next = [r \in Revisions |->
                             IF r = top + 1 THEN s
                             ELSE IF r + MaxHistory < top + 1 THEN None ELSE t[r]]
  <1> DEFINE next == NextTable(t, top, s, Trimmed(t, top + 1))
             short == [r \in Revisions |-> IF r = top + 1 THEN s
                                           ELSE IF r + MaxHistory < top + 1 THEN None ELSE t[r]]
  <1>1. next = short
    BY TrimmedOfWindow DEF NextTable
  <1>2. short \in Listing
    BY DEF Listing
  <1>3. s # None
    BY SyncAssumption
  <1>4. Window(short, top + 1)
    BY <1>3, SyncAssumption DEF Window, Revisions
  <1>5. Newest(short) = top + 1
    BY <1>4, NewestOfWindow, SyncAssumption
  <1> QED
    BY <1>1, <1>2, <1>4, <1>5

-----------------------------------------------------------------------------
(* The invariant.                                                          *)

\* A call that goes on without changing the table keeps the invariant if its own
\* state is right and it takes the lock only when it is free.
LEMMA CallKeeps ==
    ASSUME SyncInv, NEW c \in Clients, NEW u, CallOK(table, u),
           u.step \in Held => calls[c].step \in Held \/ LockFree,
           calls' = [calls EXCEPT ![c] = u], UNCHANGED table
    PROVE  SyncInv'
  <1>1. u \in CallState
    BY DEF CallOK
  <1>2. calls' \in [Clients -> CallState] /\ calls'[c] = u
        /\ \A d \in Clients \ {c} : calls'[d] = calls[d]
    BY <1>1 DEF SyncInv
  <1>3. \A d \in Clients : CallOK(table', calls'[d])
    BY <1>2 DEF SyncInv
  <1>4. ASSUME NEW d \in Clients, NEW e \in Clients,
               calls'[d].step \in Held, calls'[e].step \in Held
        PROVE  d = e
    BY <1>2, <1>4 DEF SyncInv, LockFree, Held
  <1> QED
    BY <1>2, <1>3, <1>4 DEF SyncInv

\* An answer leaves the call done.
LEMMA ReplyCall ==
    ASSUME SyncInv, NEW c \in Clients, NEW status \in {"ok", "conflict", "notFound", "error"},
           NEW shown \in Listing, calls[c].req \in Requests, Reply(c, status, shown)
    PROVE  \E u : /\ u.step = "done" /\ u.req = calls[c].req
                  /\ u.reply = [status |-> status, shown |-> shown]
                  /\ calls' = [calls EXCEPT ![c] = u]
                  /\ u \in CallState /\ \A t : CallOK(t, u)
  <1> DEFINE reply == [status |-> status, shown |-> shown]
             u == [step |-> "done", req |-> calls[c].req, reply |-> reply, cur |-> 0,
                   hash |-> None, gone |-> {}]
  <1>1. reply \in Replies
    BY DEF Replies
  <1>2. reply # None
    BY <1>1, SyncAssumption
  <1>3. calls' = [calls EXCEPT ![c] = u]
    BY DEF Reply, SyncInv
  <1> HIDE DEF reply
  <1>4. u \in CallState
    BY <1>1, SyncAssumption DEF CallState
  <1>5. u.step = "done" /\ u.req = calls[c].req /\ u.reply = reply
    OBVIOUS
  <1> HIDE DEF u
  <1>6. u.req # None
    BY <1>5, SyncAssumption
  <1>7. \A t : CallOK(t, u)
    BY <1>2, <1>4, <1>5, <1>6 DEF CallOK, Held
  <1> QED
    BY <1>3, <1>4, <1>5, <1>7 DEF reply

\* A transaction's step leaves its request and gives it no answer.
LEMMA GotoCall ==
    ASSUME SyncInv, NEW c \in Clients, NEW step \in Held,
           NEW cur \in 0..MaxRevision, NEW hash \in Hashes \cup {None},
           NEW gone \in SUBSET Revisions,
           calls[c].req \in Requests, Goto(c, step, cur, hash, gone)
    PROVE  \E u : /\ u.step = step /\ u.req = calls[c].req /\ u.reply = None
                  /\ u.cur = cur /\ u.hash = hash /\ u.gone = gone
                  /\ calls' = [calls EXCEPT ![c] = u]
                  /\ u \in CallState
  <1> DEFINE u == [step |-> step, req |-> calls[c].req, reply |-> None, cur |-> cur,
                   hash |-> hash, gone |-> gone]
  <1>1. calls' = [calls EXCEPT ![c] = u]
    BY DEF Goto, SyncInv
  <1>2. u \in CallState
    BY DEF CallState, Held
  <1> QED
    BY <1>1, <1>2

\* The requests and where they are.
LEMMA CallFacts ==
    ASSUME SyncInv, NEW c \in Clients
    PROVE  /\ calls[c] \in CallState /\ CallOK(table, calls[c])
           /\ calls[c].step # "idle" => calls[c].req \in Requests
           /\ calls[c].step = "idle" => calls[c].req = None
           /\ calls[c].step # "done" => calls[c].reply = None
           /\ calls[c].cur \in 0..MaxRevision /\ calls[c].hash \in Hashes \cup {None}
  BY DEF SyncInv, CallOK, CallState

\* The fields of a request.
LEMMA RequestFields ==
    ASSUME NEW q \in Requests
    PROVE  /\ q.op \in {"put", "restore", "current", "history"}
           /\ q.op = "put" => q.hash \in Hashes /\ q.rev \in 0..MaxRevision
                              /\ q.force \in BOOLEAN
           /\ q.op = "restore" => q.rev \in Revisions
  BY DEF Requests

\* Answers show listings.
LEMMA ListingTypes ==
    ASSUME SyncInv, NEW r
    PROVE  Nothing \in Listing /\ table \in Listing /\ Only(table, r) \in Listing
  BY DEF SyncInv, Nothing, Listing, Only

\* An answer that leaves the table alone keeps the invariant.
LEMMA ReplyKeeps ==
    ASSUME SyncInv, NEW c \in Clients, NEW status \in {"ok", "conflict", "notFound", "error"},
           NEW shown \in Listing, calls[c].req \in Requests, Reply(c, status, shown),
           UNCHANGED table
    PROVE  SyncInv'
  <1>1. PICK u : /\ u.step = "done" /\ u.req = calls[c].req
                 /\ u.reply = [status |-> status, shown |-> shown]
                 /\ calls' = [calls EXCEPT ![c] = u]
                 /\ u \in CallState /\ \A t : CallOK(t, u)
    BY ReplyCall
  <1>2. CallOK(table, u) /\ u.step \notin Held
    BY <1>1 DEF Held
  <1> QED
    BY <1>1, <1>2, CallKeeps

\* The steps of a transaction up to its commit.
LEMMA TxKeeps ==
    ASSUME SyncInv, NEW c \in Clients,
           \/ LockSettingsSyncUser(c) \/ PutRead(c) \/ RestoreSource(c) \/ RestoreRead(c)
           \/ InsertSnapshot(c) \/ TrimSnapshots(c)
    PROVE  SyncInv'
  <1> DEFINE q == calls[c].req
             cur == Newest(table)
  <1>1. CallOK(table, calls[c]) /\ (calls[c].step # "idle" => q \in Requests)
        /\ calls[c].cur \in 0..MaxRevision /\ calls[c].hash \in Hashes \cup {None}
    BY CallFacts
  <1>2. cur \in 0..MaxRevision
    BY NewestOK
  <1>3. Nothing \in Listing /\ Only(table, cur) \in Listing
    BY ListingTypes
  <1>4. q \in Requests => q # None
    BY SyncAssumption
  <1>5. ASSUME LockSettingsSyncUser(c) PROVE SyncInv'
    <2>1. q \in Requests /\ q.op \in {"put", "restore"} /\ LockFree /\ UNCHANGED table
      BY <1>1, <1>5 DEF LockSettingsSyncUser
    <2>2. Goto(c, "locked", 0, None, {})
      BY <1>5 DEF LockSettingsSyncUser
    <2>3. 0 \in 0..MaxRevision
      BY SyncAssumption
    <2>4. PICK u : /\ u.step = "locked" /\ u.req = q /\ u.reply = None
                   /\ calls' = [calls EXCEPT ![c] = u] /\ u \in CallState
      BY <2>1, <2>2, <2>3, GotoCall DEF Held
    <2>5. CallOK(table, u)
      BY <1>4, <2>1, <2>4 DEF CallOK
    <2> QED
      BY <2>1, <2>4, <2>5, CallKeeps
  <1>6. ASSUME PutRead(c) PROVE SyncInv'
    <2>1. q \in Requests /\ q.op = "put" /\ calls[c].step = "locked" /\ UNCHANGED table
      BY <1>1, <1>6 DEF PutRead
    <2>2. CASE Reply(c, "conflict", Only(table, cur)) \/ Reply(c, "ok", Only(table, cur))
      BY <1>3, <2>1, <2>2, ReplyKeeps
    <2>3. CASE /\ q.force \/ q.rev = cur
               /\ ~(cur # 0 /\ table[cur].hash = q.hash)
               /\ cur < MaxRevision /\ Goto(c, "insert", cur, q.hash, {})
      <3>1. q.hash \in Hashes
        BY <2>1, RequestFields
      <3>2. PICK u : /\ u.step = "insert" /\ u.req = q /\ u.reply = None
                     /\ u.cur = cur /\ u.hash = q.hash
                     /\ calls' = [calls EXCEPT ![c] = u] /\ u \in CallState
        BY <1>2, <2>1, <2>3, <3>1, GotoCall DEF Held
      <3>3. Earned(table, u)
        BY <2>1, <2>3, <3>1, <3>2 DEF Earned
      <3>4. CallOK(table, u)
        BY <1>4, <2>1, <3>2, <3>3 DEF CallOK
      <3> QED
        BY <2>1, <3>2, <3>4, CallKeeps DEF Held
    <2> QED
      BY <1>6, <2>2, <2>3 DEF PutRead
  <1>7. ASSUME RestoreSource(c) PROVE SyncInv'
    <2>1. q \in Requests /\ q.op = "restore" /\ calls[c].step = "locked" /\ UNCHANGED table
      BY <1>1, <1>7 DEF RestoreSource
    <2>2. CASE Reply(c, "notFound", Nothing)
      BY <1>3, <2>1, <2>2, ReplyKeeps
    <2>3. CASE table[q.rev] # None /\ Goto(c, "source", 0, table[q.rev].hash, {})
      <3>1. q.rev \in Revisions
        BY <2>1, RequestFields
      <3>2. table[q.rev].hash \in Hashes
        BY <2>3, <3>1 DEF SyncInv, Listing, Snapshots
      <3>3. 0 \in 0..MaxRevision
        BY SyncAssumption
      <3>4. PICK u : /\ u.step = "source" /\ u.req = q /\ u.reply = None
                     /\ u.hash = table[q.rev].hash
                     /\ calls' = [calls EXCEPT ![c] = u] /\ u \in CallState
        BY <2>1, <2>3, <3>2, <3>3, GotoCall DEF Held
      <3>5. CallOK(table, u)
        BY <1>4, <2>1, <2>3, <3>4 DEF CallOK
      <3> QED
        BY <2>1, <3>4, <3>5, CallKeeps DEF Held
    <2> QED
      BY <1>7, <2>2, <2>3 DEF RestoreSource
  <1>8. ASSUME RestoreRead(c) PROVE SyncInv'
    <2>1. q \in Requests /\ calls[c].step = "source" /\ cur < MaxRevision /\ UNCHANGED table
      BY <1>1, <1>8 DEF RestoreRead
    <2>2. q.op = "restore" /\ table[q.rev] # None /\ calls[c].hash = table[q.rev].hash
      BY <1>1, <2>1 DEF CallOK
    <2>3. calls[c].hash \in Hashes
      BY <2>1, <2>2, RequestFields DEF SyncInv, Listing, Snapshots
    <2>4. PICK u : /\ u.step = "insert" /\ u.req = q /\ u.reply = None
                   /\ u.cur = cur /\ u.hash = calls[c].hash
                   /\ calls' = [calls EXCEPT ![c] = u] /\ u \in CallState
      BY <1>2, <1>8, <2>1, <2>3, GotoCall DEF Held, RestoreRead
    <2>5. CallOK(table, u)
      BY <1>4, <2>1, <2>2, <2>3, <2>4 DEF CallOK, Earned
    <2> QED
      BY <2>1, <2>4, <2>5, CallKeeps DEF Held
  <1>9. ASSUME InsertSnapshot(c) PROVE SyncInv'
    <2>1. q \in Requests /\ calls[c].step = "insert" /\ UNCHANGED table
      BY <1>1, <1>9 DEF InsertSnapshot
    <2>2. CASE Fails(c)
      BY <1>3, <2>1, <2>2, ReplyKeeps DEF Fails
    <2>3. CASE Goto(c, "trim", calls[c].cur, calls[c].hash, {})
      <3>1. PICK u : /\ u.step = "trim" /\ u.req = q /\ u.reply = None
                     /\ u.cur = calls[c].cur /\ u.hash = calls[c].hash
                     /\ calls' = [calls EXCEPT ![c] = u] /\ u \in CallState
        BY <1>1, <2>1, <2>3, GotoCall DEF Held
      <3>2. CallOK(table, u)
        BY <1>1, <1>4, <2>1, <3>1 DEF CallOK, Earned, Held
      <3> QED
        BY <2>1, <3>1, <3>2, CallKeeps DEF Held
    <2> QED
      BY <1>9, <2>2, <2>3 DEF InsertSnapshot
  <1>10. ASSUME TrimSnapshots(c) PROVE SyncInv'
    <2>1. q \in Requests /\ calls[c].step = "trim" /\ UNCHANGED table
      BY <1>1, <1>10 DEF TrimSnapshots
    <2>2. Earned(table, calls[c])
      BY <1>1, <2>1 DEF CallOK
    <2> DEFINE gone == Trimmed(table, calls[c].cur + 1)
    <2>3. gone \in SUBSET Revisions
      BY <2>2, NewestOK, TrimmedOfWindow DEF Earned
    <2>4. Goto(c, "commit", calls[c].cur, calls[c].hash, gone)
      BY <1>10 DEF TrimSnapshots
    <2> HIDE DEF gone
    <2>5. PICK u : /\ u.step = "commit" /\ u.req = q /\ u.reply = None
                   /\ u.cur = calls[c].cur /\ u.hash = calls[c].hash /\ u.gone = gone
                   /\ calls' = [calls EXCEPT ![c] = u] /\ u \in CallState
      BY <1>1, <2>1, <2>3, <2>4, GotoCall DEF Held
    <2>6. CallOK(table, u)
      BY <1>1, <1>4, <2>1, <2>2, <2>5 DEF CallOK, Earned, Held, gone
    <2> QED
      BY <2>1, <2>5, <2>6, CallKeeps DEF Held
  <1> QED
    BY <1>5, <1>6, <1>7, <1>8, <1>9, <1>10

\* The commit makes the next revision current.  Nobody else holds the lock, and
\* no call without the lock depends on the table.
LEMMA CommitFacts ==
    ASSUME SyncInv, NEW c \in Clients, CommitSettingsSync(c)
    PROVE  LET cur == Newest(table)
               row == [hash |-> calls[c].hash, by |-> c]
           IN  /\ calls[c].cur = cur /\ cur < MaxRevision /\ row \in Snapshots
               /\ table' \in Listing /\ Window(table', cur + 1) /\ Newest(table') = cur + 1
               /\ table' = [r \in Revisions |->
                               IF r = cur + 1 THEN row
                               ELSE IF r + MaxHistory < cur + 1 THEN None ELSE table[r]]
  <1> DEFINE cur == Newest(table)
             row == [hash |-> calls[c].hash, by |-> c]
  <1>1. calls[c].step = "commit"
    BY DEF CommitSettingsSync
  <1>2. Earned(table, calls[c]) /\ calls[c].gone = Trimmed(table, calls[c].cur + 1)
    BY <1>1, CallFacts DEF CallOK
  <1>3. calls[c].cur = cur /\ cur < MaxRevision /\ calls[c].hash \in Hashes
    BY <1>2 DEF Earned
  <1>4. row \in Snapshots
    BY <1>3 DEF Snapshots
  <1>5. table' = NextTable(table, cur, row, Trimmed(table, cur + 1))
    BY <1>2, <1>3 DEF CommitSettingsSync, NextTable
  <1>6. cur \in 0..MaxRevision /\ Window(table, cur) /\ table \in Listing
    BY NewestOK DEF SyncInv
  <1> HIDE DEF cur, row
  <1>7. /\ table' \in Listing /\ Window(table', cur + 1) /\ Newest(table') = cur + 1
        /\ table' = [r \in Revisions |->
                        IF r = cur + 1 THEN row
                        ELSE IF r + MaxHistory < cur + 1 THEN None ELSE table[r]]
    BY <1>3, <1>4, <1>5, <1>6, NextWindow
  <1> QED
    BY <1>3, <1>4, <1>7 DEF cur, row

\* The answer to the commit.
LEMMA CommitReply ==
    ASSUME SyncInv, NEW c \in Clients, CommitSettingsSync(c)
    PROVE  \/ Reply(c, "ok", Only(table', Newest(table'))) /\ Only(table', Newest(table')) \in Listing
           \/ Fails(c)
  <1>1. calls[c].cur + 1 = Newest(table') /\ table' \in Listing
    BY CommitFacts
  <1>2. Only(table', Newest(table')) \in Listing
    BY <1>1 DEF Only, Listing
  <1> QED
    BY <1>1, <1>2 DEF CommitSettingsSync

\* The commit keeps the invariant.
LEMMA CommitKeeps ==
    ASSUME SyncInv, NEW c \in Clients, CommitSettingsSync(c)
    PROVE  SyncInv'
  <1>1. calls[c].step = "commit" /\ calls[c].req \in Requests
    BY CallFacts DEF CommitSettingsSync
  <1>2. PICK u : /\ u.step = "done" /\ calls' = [calls EXCEPT ![c] = u]
                 /\ u \in CallState /\ \A t : CallOK(t, u)
    <2>1. CASE Fails(c)
      <3>1. Nothing \in Listing
        BY ListingTypes
      <3> QED
        BY <1>1, <2>1, <3>1, ReplyCall DEF Fails
    <2>2. CASE Reply(c, "ok", Only(table', Newest(table')))
               /\ Only(table', Newest(table')) \in Listing
      <3> DEFINE shown == Only(table', Newest(table'))
      <3>1. Reply(c, "ok", shown) /\ shown \in Listing
        BY <2>2
      <3> HIDE DEF shown
      <3> QED
        BY <1>1, <3>1, ReplyCall
    <2> QED
      BY <2>1, <2>2, CommitReply
  <1>3. calls' \in [Clients -> CallState] /\ calls'[c] = u
        /\ \A d \in Clients \ {c} : calls'[d] = calls[d] /\ calls[d].step \notin Held
    BY <1>1, <1>2 DEF SyncInv, Held
  <1>4. ASSUME NEW d \in Clients PROVE CallOK(table', calls'[d])
    <2>1. CASE d = c
      BY <1>2, <1>3, <2>1
    <2>2. CASE d # c
      BY <1>3, <2>2 DEF SyncInv, CallOK, Held
    <2> QED
      BY <2>1, <2>2
  <1>5. table' \in Listing /\ \E top \in 0..MaxRevision : Window(table', top)
    <2>1. table' \in Listing /\ Window(table', Newest(table) + 1) /\ Newest(table) < MaxRevision
      BY CommitFacts
    <2>2. Newest(table) + 1 \in 0..MaxRevision
      BY <2>1, NewestOK, SyncAssumption
    <2> QED
      BY <2>1, <2>2
  <1>6. u.step \notin Held
    BY <1>2 DEF Held
  <1>7. \A d, e \in Clients : calls'[d].step \in Held /\ calls'[e].step \in Held => d = e
    BY <1>3, <1>6
  <1> QED
    BY <1>3, <1>4, <1>5, <1>7 DEF SyncInv

\* Questions, reads, failures and answers.
LEMMA OtherKeeps ==
    ASSUME SyncInv, NEW c \in Clients,
           \/ \E q \in Requests : Ask(c, q)
           \/ TxFault(c) \/ ReadSnapshots(c) \/ Return(c)
    PROVE  SyncInv'
  <1>1. calls[c].step # "idle" => calls[c].req \in Requests
    BY CallFacts
  <1>2. Nothing \in Listing /\ table \in Listing /\ Only(table, Newest(table)) \in Listing
    BY ListingTypes
  <1>3. ASSUME NEW q \in Requests, Ask(c, q) PROVE SyncInv'
    <2> DEFINE u == [step |-> "begin", req |-> q, reply |-> None, cur |-> 0, hash |-> None,
                     gone |-> {}]
    <2>1. calls' = [calls EXCEPT ![c] = u] /\ UNCHANGED table
      BY <1>3 DEF Ask
    <2>2. u \in CallState
      BY SyncAssumption DEF CallState
    <2>3. u.step = "begin" /\ u.req = q /\ u.reply = None
      OBVIOUS
    <2> HIDE DEF u
    <2>4. CallOK(table, u)
      BY <2>2, <2>3, SyncAssumption DEF CallOK, Held
    <2> QED
      BY <2>1, <2>3, <2>4, CallKeeps DEF Held
  <1>4. CASE TxFault(c)
    BY <1>1, <1>2, <1>4, ReplyKeeps DEF TxFault, Fails
  <1>5. CASE ReadSnapshots(c)
    <2>1. calls[c].req \in Requests /\ UNCHANGED table
      BY <1>1, <1>5 DEF ReadSnapshots
    <2>2. PICK shown \in Listing : Reply(c, "ok", shown)
      BY <1>2, <1>5 DEF ReadSnapshots
    <2> QED
      BY <2>1, <2>2, ReplyKeeps
  <1>6. CASE Return(c)
    <2>1. calls' = [calls EXCEPT ![c] = IdleCall] /\ UNCHANGED table
      BY <1>6 DEF Return
    <2>2. IdleCall \in CallState /\ IdleCall.step = "idle" /\ IdleCall.req = None
          /\ IdleCall.reply = None
      BY SyncAssumption DEF IdleCall, CallState
    <2>3. CallOK(table, IdleCall)
      BY <2>2 DEF CallOK, Held
    <2> QED
      BY <2>1, <2>2, <2>3, CallKeeps DEF Held
  <1> QED
    BY <1>3, <1>4, <1>5, <1>6

\* A state without calls under way.
LEMMA AllIdle ==
    ASSUME table \in Listing, \E top \in 0..MaxRevision : Window(table, top),
           calls = [c \in Clients |-> IdleCall]
    PROVE  SyncInv
  <1>1. IdleCall \in CallState /\ IdleCall.step = "idle" /\ IdleCall.req = None
        /\ IdleCall.reply = None
    BY SyncAssumption DEF IdleCall, CallState
  <1>2. CallOK(table, IdleCall)
    BY <1>1 DEF CallOK, Held
  <1> QED
    BY <1>1, <1>2 DEF SyncInv, Held

\* The invariant holds at first and every step keeps it.
THEOREM SyncInvariant == SyncSpec => []SyncInv
  <1>1. SyncInit => SyncInv
    <2> SUFFICES ASSUME SyncInit PROVE SyncInv
      OBVIOUS
    <2>1. table \in Listing /\ calls = [c \in Clients |-> IdleCall]
      BY DEF SyncInit, Nothing, Listing
    <2>2. 0 \in 0..MaxRevision /\ Window(table, 0)
      BY SyncAssumption DEF SyncInit, Nothing, Window, Revisions
    <2> QED
      BY <2>1, <2>2, AllIdle
  <1>2. SyncInv /\ [SyncNext]_syncVars => SyncInv'
    <2> SUFFICES ASSUME SyncInv, [SyncNext]_syncVars PROVE SyncInv'
      OBVIOUS
    <2>1. ASSUME NEW c \in Clients, SyncStep(c) PROVE SyncInv'
      BY <2>1, TxKeeps, CommitKeeps, OtherKeeps DEF SyncStep
    <2>2. ASSUME NEW c \in Clients, NEW q \in Requests, Ask(c, q) PROVE SyncInv'
      BY <2>2, OtherKeeps
    <2>3. CASE Crash
      <3>1. table' \in Listing /\ (\E top \in 0..MaxRevision : Window(table', top))
            /\ calls' = [c \in Clients |-> IdleCall]
        BY <2>3 DEF Crash, SyncInv
      <3>2. IdleCall \in CallState /\ IdleCall.step = "idle" /\ IdleCall.req = None
            /\ IdleCall.reply = None
        BY SyncAssumption DEF IdleCall, CallState
      <3>3. CallOK(table', IdleCall)
        BY <3>2 DEF CallOK, Held
      <3> QED
        BY <3>1, <3>2, <3>3 DEF SyncInv, Held
    <2>4. CASE UNCHANGED syncVars
      BY <2>4 DEF syncVars, SyncInv
    <2> QED
      BY <2>1, <2>2, <2>3, <2>4 DEF SyncNext
  <1> QED
    BY <1>1, <1>2, PTL DEF SyncSpec

\* The types, for every number of devices (the rows and the local state of Put and
\* Restore).
THEOREM SyncTypeCorrect == SyncSpec => []SyncTypeOK
  <1>1. SyncInv => SyncTypeOK
    BY DEF SyncInv, SyncTypeOK
  <1> QED
    BY <1>1, SyncInvariant, PTL

\* The rows are always the newest MaxHistory + 1 revisions (the trimming DELETE of
\* Put and Restore).
THEOREM WindowAlwaysKept == SyncSpec => []WindowKept
  <1>1. SyncInv => WindowKept
    BY DEF SyncInv, WindowKept, Window
  <1> QED
    BY <1>1, SyncInvariant, PTL

\* The advisory lock makes the revision that was read stay the current one up to
\* the commit (lockSettingsSyncUser).
THEOREM LockAlwaysSuffices == SyncSpec => []LockSuffices
  <1>1. SyncInv => LockSuffices
    BY DEF SyncInv, CallOK, Earned, LockSuffices
  <1> QED
    BY <1>1, SyncInvariant, PTL

\* Only a commit changes the table.
LEMMA OnlyCommitWrites ==
    ASSUME [SyncNext]_syncVars, table' # table
    PROVE  \E c \in Clients : CommitSettingsSync(c)
  BY DEF SyncNext, SyncStep, syncVars, Ask, Crash, LockSettingsSyncUser, PutRead, RestoreSource,
         RestoreRead, InsertSnapshot, TrimSnapshots, TxFault, ReadSnapshots, Return

\* No change is lost between the revision a device has seen and the one it
\* writes (the comparison with baseRevision in Put).
THEOREM NoUpdateLost == SyncSpec => NoLostUpdate
  <1>1. SyncInv /\ [SyncNext]_syncVars => [NoLostUpdateStep]_syncVars
    <2> SUFFICES ASSUME SyncInv, [SyncNext]_syncVars, table' # table PROVE NoLostUpdateStep
      BY DEF NoLostUpdateStep
    <2>1. PICK c \in Clients : CommitSettingsSync(c)
      BY OnlyCommitWrites
    <2>2. calls[c].step = "commit" /\ Earned(table, calls[c])
      BY <2>1, CallFacts DEF CommitSettingsSync, CallOK
    <2>3. calls[c].req.op = "put" /\ ~calls[c].req.force => calls[c].req.rev = Newest(table)
      BY <2>2 DEF Earned
    <2>4. Newest(table') = Newest(table) + 1
      BY <2>1, CommitFacts
    <2>5. calls'[c].step = "done"
      BY <2>1 DEF CommitSettingsSync, Fails, Reply, SyncInv
    <2> QED
      BY <2>2, <2>3, <2>4, <2>5 DEF NoLostUpdateStep
  <1> QED
    BY <1>1, SyncInvariant, PTL DEF SyncSpec, NoLostUpdate

-----------------------------------------------------------------------------
(* The refinement.                                                         *)

\* The definitions of the register are those of the store.
LEMMA SameTerms ==
    /\ Register!Nothing = Nothing /\ Register!Requests = Requests
    /\ Register!Revisions = Revisions /\ Register!ErrorReply = ErrorReply
    /\ \A t, r : Register!Only(t, r) = Only(t, r)
  BY DEF Register!Nothing, Nothing, Register!Requests, Requests, Register!Revisions, Revisions,
         Register!ErrorReply, ErrorReply, Register!Only, Only

\* A call that gives the client no answer is a stuttering step of the register.
LEMMA CallStutters ==
    ASSUME SyncInv, NEW c \in Clients, NEW u, u.req = calls[c].req, u.reply = calls[c].reply,
           calls' = [calls EXCEPT ![c] = u], UNCHANGED table
    PROVE  UNCHANGED Register!regVars
  <1>1. \A d \in Clients : calls'[d].req = calls[d].req /\ calls'[d].reply = calls[d].reply
    BY DEF SyncInv
  <1>2. Newest(table)' = Newest(table)
    OBVIOUS
  <1> QED
    BY <1>1, <1>2 DEF Register!regVars

\* An answer is an answer of the register.
LEMMA ReplyIsReply ==
    ASSUME SyncInv, NEW c \in Clients, NEW status, NEW shown, Reply(c, status, shown)
    PROVE  Register!RegReply(c, [status |-> status, shown |-> shown])
  <1> DEFINE reply == [status |-> status, shown |-> shown]
             u == [step |-> "done", req |-> calls[c].req, reply |-> reply, cur |-> 0,
                   hash |-> None, gone |-> {}]
  <1>1. calls' = [calls EXCEPT ![c] = u]
    BY DEF Reply, SyncInv
  <1>2. u.req = calls[c].req /\ u.reply = reply
    OBVIOUS
  <1> HIDE DEF reply, u
  <1>3. /\ \A d \in Clients : calls'[d].req = calls[d].req
        /\ \A d \in Clients : calls'[d].reply = IF d = c THEN reply ELSE calls[d].reply
    BY <1>1, <1>2 DEF SyncInv
  <1>4. Register!RegReply(c, reply)
    BY <1>3 DEF Register!RegReply
  <1> QED
    BY <1>4 DEF reply

\* Every moment that the register may serve a request.
LEMMA Serves ==
    ASSUME SyncInv, NEW c \in Clients, calls[c].step \notin {"idle", "done"},
           Register!RegWrite(c) \/ Register!RegRefuse(c) \/ Register!RegRead(c)
    PROVE  Register!RegNext
  <1>1. calls[c].req # None /\ calls[c].reply = None
    BY CallFacts, SyncAssumption
  <1>2. Register!RegServe(c)
    BY <1>1 DEF Register!RegServe
  <1> QED
    BY <1>2 DEF Register!RegNext

\* A transaction that is rolled back changes nothing.
LEMMA FailureRefines ==
    ASSUME SyncInv, NEW c \in Clients, calls[c].step \notin {"idle", "done"},
           calls[c].req.op \in {"put", "restore"}, Fails(c), UNCHANGED table
    PROVE  Register!RegNext
  <1>1. Register!RegReply(c, ErrorReply)
    BY ReplyIsReply DEF Fails, ErrorReply
  <1>2. Register!RegRefuse(c)
    BY <1>1, SameTerms DEF Register!RegRefuse
  <1> QED
    BY <1>2, Serves

\* A transaction that answers without a change answers as the register does.
LEMMA RefusalRefines ==
    ASSUME SyncInv, NEW c \in Clients, calls[c].step \notin {"idle", "done"},
           NEW status, NEW shown, Reply(c, status, shown), UNCHANGED table,
           LET q == calls[c].req
               cur == Newest(table)
           IN  \/ /\ q.op = "put" /\ (q.force \/ q.rev = cur)
                  /\ cur # 0 /\ table[cur].hash = q.hash
                  /\ status = "ok" /\ shown = Only(table, cur)
               \/ /\ q.op = "put" /\ ~q.force /\ q.rev # cur
                  /\ status = "conflict" /\ shown = Only(table, cur)
               \/ /\ q.op = "restore" /\ table[q.rev] = None
                  /\ status = "notFound" /\ shown = Nothing
    PROVE  Register!RegNext
  <1> DEFINE q == calls[c].req
             cur == Newest(table)
             reply == [status |-> status, shown |-> shown]
  <1>1. Register!RegReply(c, reply)
    BY ReplyIsReply
  <1>2. [d \in Clients |-> calls[d].req][c] = q
    OBVIOUS
  <1>3. cur' = cur /\ UNCHANGED table
    OBVIOUS
  <1>4. Register!Only(table, cur) = Only(table, cur) /\ Register!Nothing = Nothing
    BY SameTerms
  <1>5. CASE /\ q.op = "put" /\ (q.force \/ q.rev = cur) /\ cur # 0 /\ table[cur].hash = q.hash
             /\ status = "ok" /\ shown = Only(table, cur)
    <2>1. Register!Same(q)
      BY <1>5 DEF Register!Same
    <2>2. Register!RegReply(c, [status |-> "ok", shown |-> Register!Only(table, cur)])
      <3>1. reply = [status |-> "ok", shown |-> Register!Only(table, cur)]
        BY <1>4, <1>5
      <3> HIDE DEF reply, cur
      <3> QED
        BY <1>1, <3>1 DEF Register!RegReply
    <2> HIDE DEF q, cur, reply
    <2> QED
      BY <1>2, <1>3, <1>5, <2>1, <2>2, Serves DEF Register!RegRefuse, cur
  <1>6. CASE /\ q.op = "put" /\ ~q.force /\ q.rev # cur
             /\ status = "conflict" /\ shown = Only(table, cur)
    <2>1. Register!RegReply(c, [status |-> "conflict", shown |-> Register!Only(table, cur)])
      <3>1. reply = [status |-> "conflict", shown |-> Register!Only(table, cur)]
        BY <1>4, <1>6
      <3> HIDE DEF reply, cur
      <3> QED
        BY <1>1, <3>1 DEF Register!RegReply
    <2> HIDE DEF q, cur, reply
    <2> QED
      BY <1>2, <1>3, <1>6, <2>1, Serves DEF Register!RegRefuse, cur
  <1>7. CASE /\ q.op = "restore" /\ table[q.rev] = None
             /\ status = "notFound" /\ shown = Nothing
    <2>1. Register!Fresh(c, q) = {}
      BY <1>7 DEF Register!Fresh
    <2>2. Register!RegReply(c, [status |-> "notFound", shown |-> Register!Nothing])
      BY <1>1, <1>4, <1>7
    <2> HIDE DEF q, cur, reply
    <2> QED
      BY <1>2, <1>3, <1>7, <2>1, <2>2, Serves DEF Register!RegRefuse, cur
  <1> QED
    BY <1>5, <1>6, <1>7

\* The reading steps of Put and Restore either answer from what they read, as the
\* register does at that moment, or are not seen.
LEMMA ReadingRefines ==
    ASSUME SyncInv, NEW c \in Clients, PutRead(c) \/ RestoreSource(c)
    PROVE  Register!RegNext \/ UNCHANGED Register!regVars
  <1> DEFINE q == calls[c].req
             cur == Newest(table)
  <1>1. calls[c].step = "locked" /\ UNCHANGED table
    BY DEF PutRead, RestoreSource
  <1>2. q \in Requests /\ calls[c].reply = None
    BY <1>1, CallFacts
  <1>3. ASSUME NEW step \in Held, NEW n, NEW hash, Goto(c, step, n, hash, {})
        PROVE  UNCHANGED Register!regVars
    <2> DEFINE u == [step |-> step, req |-> q, reply |-> None, cur |-> n, hash |-> hash,
                     gone |-> {}]
    <2>1. calls' = [calls EXCEPT ![c] = u]
      BY <1>3 DEF Goto, SyncInv
    <2>2. u.req = calls[c].req /\ u.reply = calls[c].reply
      BY <1>2
    <2> HIDE DEF u
    <2> QED
      BY <1>1, <2>1, <2>2, CallStutters
  <1>4. CASE PutRead(c)
    <2>1. CASE Goto(c, "insert", cur, q.hash, {})
      BY <1>3, <2>1 DEF Held
    <2> QED
      BY <1>1, <1>4, <2>1, RefusalRefines DEF PutRead
  <1>5. CASE RestoreSource(c)
    <2>1. CASE Goto(c, "source", 0, table[q.rev].hash, {})
      BY <1>3, <2>1 DEF Held
    <2> QED
      BY <1>1, <1>5, <2>1, RefusalRefines DEF RestoreSource
  <1> QED
    BY <1>4, <1>5

\* The other steps before the commit are not seen, unless the insertion fails.
LEMMA WritingRefines ==
    ASSUME SyncInv, NEW c \in Clients,
           LockSettingsSyncUser(c) \/ RestoreRead(c) \/ InsertSnapshot(c) \/ TrimSnapshots(c)
    PROVE  Register!RegNext \/ UNCHANGED Register!regVars
  <1>1. UNCHANGED table /\ calls[c].step \notin {"idle", "done"}
    BY DEF LockSettingsSyncUser, RestoreRead, InsertSnapshot, TrimSnapshots
  <1>2. calls[c].reply = None
    BY <1>1, CallFacts
  <1>3. CASE Fails(c) /\ calls[c].step = "insert"
    <2>1. calls[c].req.op \in {"put", "restore"}
      BY <1>3, CallFacts DEF CallOK, Held
    <2> QED
      BY <1>1, <1>3, <2>1, FailureRefines
  <1>4. ASSUME NEW step, NEW n, NEW hash, NEW gone, Goto(c, step, n, hash, gone)
        PROVE  UNCHANGED Register!regVars
    <2> DEFINE u == [step |-> step, req |-> calls[c].req, reply |-> None, cur |-> n,
                     hash |-> hash, gone |-> gone]
    <2>1. calls' = [calls EXCEPT ![c] = u]
      BY <1>4 DEF Goto, SyncInv
    <2>2. u.req = calls[c].req /\ u.reply = calls[c].reply
      BY <1>2
    <2> HIDE DEF u
    <2> QED
      BY <1>1, <2>1, <2>2, CallStutters
  <1>5. CASE \E step, n, hash, gone : Goto(c, step, n, hash, gone)
    BY <1>4, <1>5
  <1>6. \/ Fails(c) /\ calls[c].step = "insert"
        \/ \E step, n, hash, gone : Goto(c, step, n, hash, gone)
    BY DEF LockSettingsSyncUser, RestoreRead, InsertSnapshot, TrimSnapshots
  <1> QED
    BY <1>3, <1>5, <1>6

\* The commit is the moment at which a change takes effect.
LEMMA CommitRefines ==
    ASSUME SyncInv, NEW c \in Clients, CommitSettingsSync(c)
    PROVE  Register!RegNext
  <1> DEFINE q == calls[c].req
             cur == Newest(table)
             row == [hash |-> calls[c].hash, by |-> c]
  <1>1. calls[c].step = "commit"
    BY DEF CommitSettingsSync
  <1>2. Earned(table, calls[c]) /\ q.op \in {"put", "restore"}
    BY <1>1, CallFacts DEF CallOK, Held
  <1>3. /\ calls[c].cur = cur /\ cur < MaxRevision /\ Newest(table') = cur + 1
        /\ table' = [r \in Revisions |->
                        IF r = cur + 1 THEN row
                        ELSE IF r + MaxHistory < cur + 1 THEN None ELSE table[r]]
    BY CommitFacts
  <1>4. [d \in Clients |-> calls[d].req][c] = q
    OBVIOUS
  <1>5. row \in Register!Fresh(c, q)
    BY <1>2, <1>3 DEF Earned, Register!Fresh
  <1>6. q.op = "put" => ~Register!Same(q)
    BY <1>2, <1>3 DEF Earned, Register!Same
  <1>7. table' = Register!Extended(row)
    BY <1>3, SameTerms DEF Register!Extended
  <1>8. \/ Register!RegReply(c, [status |-> "ok", shown |-> Register!Only(table', Newest(table'))])
        \/ Register!RegReply(c, Register!ErrorReply)
    <2>1. CASE Fails(c)
      BY <2>1, ReplyIsReply, SameTerms DEF Fails, ErrorReply
    <2>2. CASE Reply(c, "ok", Only(table', Newest(table')))
      <3>1. PICK shown : shown = Only(table', Newest(table')) /\ Reply(c, "ok", shown)
        BY <2>2 DEF Reply
      <3>2. shown = Register!Only(table', Newest(table'))
        BY <3>1, SameTerms
      <3>3. Register!RegReply(c, [status |-> "ok", shown |-> shown])
        BY <3>1, ReplyIsReply
      <3> QED
        BY <3>2, <3>3 DEF Register!RegReply
    <2> QED
      BY <2>1, <2>2, CommitReply
  <1> HIDE DEF q, cur, row
  <1>9. Register!RegWrite(c)
    BY <1>3, <1>4, <1>5, <1>6, <1>7, <1>8 DEF Register!RegWrite, cur
  <1> QED
    BY <1>1, <1>9, Serves

\* A read shows the register as it is, or nothing.
LEMMA ReadRefines ==
    ASSUME SyncInv, NEW c \in Clients, ReadSnapshots(c)
    PROVE  Register!RegNext
  <1> DEFINE q == calls[c].req
             cur == Newest(table)
  <1>1. calls[c].step = "begin" /\ UNCHANGED table /\ cur' = cur
    BY DEF ReadSnapshots
  <1>2. [d \in Clients |-> calls[d].req][c] = q
    OBVIOUS
  <1>3. Register!Only(table, cur) = Only(table, cur) /\ Register!Nothing = Nothing
    BY SameTerms
  <1>4. PICK shown : /\ Reply(c, "ok", shown)
                     /\ \/ q.op = "current" /\ shown = Only(table, cur)
                        \/ q.op = "history" /\ shown = table
                        \/ q.op \in {"current", "history"} /\ shown = Nothing
    BY DEF ReadSnapshots
  <1>5. Register!RegReply(c, [status |-> "ok", shown |-> shown])
    BY <1>4, ReplyIsReply
  <1> HIDE DEF q, cur
  <1>6. Register!RegRead(c)
    BY <1>1, <1>2, <1>3, <1>4, <1>5 DEF Register!RegRead, Register!RegReply, cur
  <1> QED
    BY <1>1, <1>6, Serves

\* Questions, answers and crashes.
LEMMA ClientRefines ==
    ASSUME SyncInv,
           \/ \E c \in Clients : Return(c) \/ \E q \in Requests : Ask(c, q)
           \/ Crash
    PROVE  Register!RegNext
  <1>1. UNCHANGED <<Newest(table), table>>
    BY DEF Return, Ask, Crash
  <1>2. ASSUME NEW c \in Clients, NEW q \in Requests, Ask(c, q) PROVE Register!RegNext
    <2> DEFINE u == [step |-> "begin", req |-> q, reply |-> None, cur |-> 0, hash |-> None,
                     gone |-> {}]
    <2>1. calls' = [calls EXCEPT ![c] = u] /\ calls[c].step = "idle"
      BY <1>2 DEF Ask
    <2>2. u.req = q /\ u.reply = None
      OBVIOUS
    <2> HIDE DEF u
    <2>3. calls[c].req = None /\ calls[c].reply = None
      BY <2>1, CallFacts
    <2>4. /\ \A d \in Clients : calls'[d].req = IF d = c THEN q ELSE calls[d].req
          /\ \A d \in Clients : calls'[d].reply = calls[d].reply
      BY <2>1, <2>2, <2>3 DEF SyncInv
    <2>5. Register!RegAsk(c, q)
      BY <1>1, <2>3, <2>4 DEF Register!RegAsk
    <2> QED
      BY <2>5, SameTerms DEF Register!RegNext
  <1>3. ASSUME NEW who \in SUBSET Clients,
               \A d \in Clients : calls'[d] = IF d \in who THEN IdleCall ELSE calls[d]
        PROVE  Register!RegNext
    <2>1. /\ \A d \in Clients : calls'[d].req = IF d \in who THEN None ELSE calls[d].req
          /\ \A d \in Clients : calls'[d].reply = IF d \in who THEN None ELSE calls[d].reply
      BY <1>3 DEF IdleCall
    <2>2. Register!RegForget(who)
      BY <1>1, <2>1 DEF Register!RegForget
    <2> QED
      BY <2>2 DEF Register!RegNext
  <1>4. ASSUME NEW c \in Clients, Return(c) PROVE Register!RegNext
    <2>1. \A d \in Clients : calls'[d] = IF d \in {c} THEN IdleCall ELSE calls[d]
      BY <1>4 DEF Return, SyncInv
    <2> QED
      BY <1>3, <2>1
  <1>5. CASE Crash
    <2>1. \A d \in Clients : calls'[d] = IF d \in Clients THEN IdleCall ELSE calls[d]
      BY <1>5 DEF Crash
    <2> QED
      BY <1>3, <2>1
  <1> QED
    BY <1>2, <1>4, <1>5

\* The store implements the register: each step of its transactions is a step of
\* the register or is not seen, for every number of devices and every length
\* of the history (Put, Restore, Current and History of the Postgres store).
THEOREM StoreImplementsRegister == SyncSpec => ImplementsRegister
  <1>1. SyncInit => Register!RegInit
    <2> SUFFICES ASSUME SyncInit PROVE Register!RegInit
      OBVIOUS
    <2>1. table = Nothing /\ \A c \in Clients : calls[c].req = None /\ calls[c].reply = None
      BY DEF SyncInit, IdleCall
    <2>2. Newest(table) = 0
      <3>1. 0 \in 0..MaxRevision /\ Window(table, 0)
        BY <2>1, SyncAssumption DEF Nothing, Window, Revisions
      <3> QED
        BY <3>1, NewestOfWindow
    <2> QED
      BY <2>1, <2>2, SameTerms DEF Register!RegInit
  <1>2. SyncInv /\ [SyncNext]_syncVars => [Register!RegNext]_Register!regVars
    <2> SUFFICES ASSUME SyncInv, [SyncNext]_syncVars
                 PROVE  Register!RegNext \/ UNCHANGED Register!regVars
      OBVIOUS
    <2>1. ASSUME NEW c \in Clients, TxFault(c) PROVE Register!RegNext
      <3>1. calls[c].step \notin {"idle", "done"} /\ calls[c].req.op \in {"put", "restore"}
            /\ Fails(c) /\ UNCHANGED table
        BY <2>1 DEF TxFault
      <3> QED
        BY <3>1, FailureRefines
    <2>2. ASSUME NEW c \in Clients, SyncStep(c)
          PROVE  Register!RegNext \/ UNCHANGED Register!regVars
      BY <2>1, <2>2, ReadingRefines, WritingRefines, CommitRefines, ReadRefines, ClientRefines
         DEF SyncStep
    <2>3. CASE UNCHANGED syncVars
      BY <2>3 DEF syncVars, Register!regVars
    <2> QED
      BY <2>2, <2>3, ClientRefines DEF SyncNext
  <1> QED
    BY <1>1, <1>2, SyncInvariant, PTL DEF SyncSpec, ImplementsRegister, Register!RegSpec
=============================================================================
