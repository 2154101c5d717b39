--------------------------- MODULE MobileAuthProofs ---------------------------
(***************************************************************************)
(* The OAuth broker leaves no session without a credential, spends no      *)
(* refresh token twice and keeps the credential of a request that runs     *)
(* alone, for any devices, accounts, sign-ins and requests.                *)
(***************************************************************************)
EXTENDS MobileAuth, TLAPS

Credential == [user : Users, good : BOOLEAN]
Leasing == {"get", "refresh", "put"}

\* What the steps of a request leave for those that follow.
CallOK(k) ==
    /\ k \in CallState
    /\ k.step # "idle" => k.dev \in Devices
    /\ \/ k.step \in Leasing \cup {"exchange", "create", "unused"}
       \/ k.step = "commit" /\ k.op = "complete"
       => k.att \in Attempts
    /\ k.step \in {"refresh", "put", "upsert"} \/ k.op = "register" => k.user \in Users
    /\ k.step = "commit" /\ k.op = "complete" => k.att \notin k.tx.c

\* The tables: every row has its device, every session and handoff its credential.
TablesOK ==
    /\ pending \subseteq Attempts /\ handoffs \subseteq Attempts /\ sessions \subseteq Attempts
    /\ creds \in [Attempts -> Credential \cup {None}]
    /\ owner \in [Attempts -> Devices \cup {None}]
    /\ \A n \in pending \cup handoffs \cup sessions : owner[n] # None
    /\ Referenced

PushOK ==
    /\ regs \in [Installations -> [dev : Devices, user : Users] \cup {None}]
    /\ queued \subseteq Installations

CallsOK == calls \in [Calls -> CallState] /\ \A c \in Calls : CallOK(calls[c])

\* The sign-in that a request works for has its device.
Owned == \A c \in Calls : calls[c].att # None => owner[calls[c].att] # None

AuthInv == TablesOK /\ PushOK /\ CallsOK /\ upsets \in Nat

-----------------------------------------------------------------------------
(* The calls.                                                              *)

\* An idle call is in order.
LEMMA IdleOK == CallOK(IdleCall)
  BY DEF CallOK, IdleCall, CallState, CallSteps, CallOps, NoTx, Leasing

\* The step of one call concerns that call only.
LEMMA OneCall ==
    ASSUME CallsOK, NEW c \in Calls, NEW k, CallOK(k), calls' = [calls EXCEPT ![c] = k]
    PROVE  CallsOK'
  BY DEF CallsOK, CallOK

\* A call that answers is idle.
LEMMA AnswerOK ==
    ASSUME CallsOK, NEW c \in Calls, Answer(c)
    PROVE  CallsOK'
  BY IdleOK, OneCall DEF Answer

\* A call that begins beside it leaves another one as it is but for alone.
LEMMA BesideOK ==
    ASSUME CallsOK, NEW c
    PROVE  /\ Beside(c) \in [Calls -> CallState]
           /\ \A x \in Calls : /\ CallOK(Beside(c)[x])
                               /\ Beside(c)[x].step = calls[x].step
                               /\ Beside(c)[x].att = calls[x].att
                               /\ Beside(c)[x].good = calls[x].good
<1>1. ASSUME NEW x \in Calls, NEW k, k = calls[x]
      PROVE  LET m == [k EXCEPT !.alone = FALSE]
             IN  CallOK(m) /\ m.step = k.step /\ m.att = k.att /\ m.good = k.good
  <2>1. CallOK(k)
    BY <1>1 DEF CallsOK
  <2> QED
    BY <2>1 DEF CallOK, CallState
<1>2. ASSUME NEW x \in Calls
      PROVE  /\ CallOK(Beside(c)[x])
             /\ Beside(c)[x].step = calls[x].step
             /\ Beside(c)[x].att = calls[x].att
             /\ Beside(c)[x].good = calls[x].good
  <2>1. Beside(c)[x] = calls[x] \/ Beside(c)[x] = [calls[x] EXCEPT !.alone = FALSE]
    BY DEF Beside
  <2> QED
    BY <1>1, <2>1 DEF CallsOK
<1>3. Beside(c) \in [Calls -> CallState]
  BY <1>2 DEF Beside, CallOK
<1> QED
  BY <1>2, <1>3

\* Also when it is over at once.
LEMMA DisturbOK ==
    ASSUME CallsOK, Disturb
    PROVE  CallsOK'
  BY BesideOK DEF Disturb, CallsOK

\* A request begins with what it was called with.
LEMMA BeginOK ==
    ASSUME CallsOK, NEW c \in Calls, NEW op \in CallOps, NEW step \in CallSteps, NEW d \in Devices,
           NEW n \in Attempts \cup {None}, NEW u \in Users \cup {None},
           NEW insts \in SUBSET Installations, Begin(c, op, step, d, n, u, insts),
           step \in {"exchange", "get"} => n \in Attempts,
           step \notin {"refresh", "put", "create", "unused", "commit"},
           step = "upsert" \/ op = "register" => u \in Users
    PROVE  CallsOK'
<1>1. PICK b \in BOOLEAN : b = (\A x \in Calls : calls[x].step = "idle")
  OBVIOUS
<1>2. PICK k : k = [IdleCall EXCEPT !.op = op, !.step = step, !.dev = d, !.att = n, !.user = u,
                                    !.insts = insts, !.alone = b]
  OBVIOUS
<1>3. CallOK(k)
  BY <1>2 DEF CallOK, IdleCall, CallState, NoTx, Leasing
<1>4. calls' = [Beside(c) EXCEPT ![c] = k]
  BY <1>1, <1>2 DEF Begin
<1>5. k \in CallState
  BY <1>3 DEF CallOK
<1>6. calls' \in [Calls -> CallState]
  BY <1>4, <1>5, BesideOK
<1>7. \A x \in Calls : CallOK(calls'[x])
  BY <1>3, <1>4, BesideOK
<1> QED
  BY <1>6, <1>7 DEF CallsOK

\* A call that goes on has what its next step needs.
LEMMA GotoOK ==
    ASSUME CallsOK, NEW c \in Calls, NEW step \in CallSteps \ {"commit"}, Goto(c, step),
           calls[c].step # "idle",
           step \in Leasing \cup {"exchange", "create", "unused"} => calls[c].att \in Attempts,
           step \in {"refresh", "put", "upsert"} => calls[c].user \in Users
    PROVE  CallsOK'
<1>1. PICK k : k = calls[c]
  OBVIOUS
<1>2. CallOK(k)
  BY <1>1 DEF CallsOK
<1>3. CallOK([k EXCEPT !.step = step])
  BY <1>1, <1>2 DEF CallOK, CallState, Leasing
<1>4. calls' = [calls EXCEPT ![c] = [k EXCEPT !.step = step]]
  BY <1>1 DEF Goto, CallsOK
<1> QED
  BY <1>3, <1>4, OneCall

\* The lease returns.
LEMMA ReturnOK ==
    ASSUME CallsOK, NEW c \in Calls, NEW step \in {"create", "unused"}, LeaseReturn(c, step),
           calls[c].step \in Leasing
    PROVE  CallsOK'
<1>1. PICK k : k = calls[c]
  OBVIOUS
<1>2. CallOK(k)
  BY <1>1 DEF CallsOK
<1>3. CASE k.op = "lease"
  BY <1>1, <1>3, AnswerOK DEF LeaseReturn
<1>4. CASE k.op = "register"
  <2>1. calls' = [calls EXCEPT ![c] = [k EXCEPT !.step = "upsert", !.good = TRUE]]
    <3>1. [k EXCEPT !.step = "upsert", !.good = TRUE, !.user = k.user]
            = [k EXCEPT !.step = "upsert", !.good = TRUE]
      BY <1>2 DEF CallOK, CallState
    <3>2. calls' = [calls EXCEPT ![c] = [k EXCEPT !.step = "upsert", !.good = TRUE, !.user = k.user]]
      BY <1>1, <1>4 DEF LeaseReturn, CallsOK
    <3> QED
      BY <3>1, <3>2
  <2>2. CallOK([k EXCEPT !.step = "upsert", !.good = TRUE])
    BY <1>1, <1>2, <1>4 DEF CallOK, CallState, CallSteps, Leasing
  <2> QED
    BY <2>1, <2>2, OneCall
<1>5. CASE k.op \notin {"lease", "register"}
  <2>1. calls' = [calls EXCEPT ![c] = [k EXCEPT !.step = step, !.good = TRUE, !.user = None]]
    BY <1>1, <1>2, <1>5 DEF LeaseReturn, CallsOK, CallOK, CallState
  <2>2. CallOK([k EXCEPT !.step = step, !.good = TRUE, !.user = None])
    BY <1>1, <1>2, <1>5 DEF CallOK, CallState, CallSteps, Leasing
  <2> QED
    BY <2>1, <2>2, OneCall
<1> QED
  BY <1>3, <1>4, <1>5

\* GetCredential gives the lease its user.
LEMMA ReadOK ==
    ASSUME CallsOK, NEW c \in Calls, NEW step \in {"refresh", "put"}, NEW cred \in Credential,
           calls[c].step = "get",
           calls' = [calls EXCEPT ![c].step = step, ![c].user = cred.user, ![c].good = cred.good]
    PROVE  CallsOK'
<1>1. PICK k : k = calls[c]
  OBVIOUS
<1>2. CallOK(k)
  BY <1>1 DEF CallsOK
<1>3. calls' = [calls EXCEPT ![c] = [k EXCEPT !.step = step, !.user = cred.user,
                                              !.good = cred.good]]
  BY <1>1, <1>2 DEF CallsOK, CallOK, CallState
<1>4. CallOK([k EXCEPT !.step = step, !.user = cred.user, !.good = cred.good])
  BY <1>1, <1>2 DEF CallOK, CallState, CallSteps, Leasing, Credential
<1> QED
  BY <1>3, <1>4, OneCall

\* A transaction is about to commit.
LEMMA CommitBeginOK ==
    ASSUME CallsOK, NEW c \in Calls, calls[c].step # "idle",
           NEW tx \in [p : SUBSET Attempts, h : SUBSET Attempts, s : SUBSET Attempts,
                       c : SUBSET Attempts, old : SUBSET Attempts],
           calls[c].op = "complete" => calls[c].att \in Attempts \ tx.c,
           calls' = [calls EXCEPT ![c].step = "commit", ![c].tx = tx]
    PROVE  CallsOK'
<1>1. PICK k : k = calls[c]
  OBVIOUS
<1>2. CallOK(k)
  BY <1>1 DEF CallsOK
<1>3. calls' = [calls EXCEPT ![c] = [k EXCEPT !.step = "commit", !.tx = tx]]
  BY <1>1, <1>2 DEF CallsOK, CallOK, CallState
<1>4. [k EXCEPT !.step = "commit", !.tx = tx] \in CallState
  BY <1>2 DEF CallOK, CallState, CallSteps
<1>5. CallOK([k EXCEPT !.step = "commit", !.tx = tx])
  BY <1>1, <1>2, <1>4 DEF CallOK, CallState, Leasing
<1> QED
  BY <1>3, <1>5, OneCall

-----------------------------------------------------------------------------
(* The tables.                                                             *)

\* Failures are counted.
LEMMA UpsetsOK ==
    ASSUME upsets \in Nat, Upset \/ UNCHANGED upsets
    PROVE  upsets' \in Nat
  BY DEF Upset

\* Credentials may go that no session and no handoff refers to any more.
LEMMA DropOK ==
    ASSUME TablesOK, NEW gone, creds' = Dropped(gone), UNCHANGED owner, pending' \subseteq pending,
           handoffs' \subseteq handoffs \ gone, sessions' \subseteq sessions \ gone
    PROVE  TablesOK'
<1>1. creds' \in [Attempts -> Credential \cup {None}]
  BY DEF TablesOK, Dropped
<1>2. \A n \in Attempts \ gone : creds'[n] = creds[n]
  BY DEF Dropped
<1>3. Referenced'
  BY <1>2 DEF TablesOK, Referenced, Stored
<1> QED
  BY <1>1, <1>3 DEF TablesOK

\* DELETE of a credential unless something refers to it.
LEMMA DropUnusedOK ==
    ASSUME TablesOK, NEW n, creds' = DropUnused(n, sessions'), sessions' \subseteq sessions,
           UNCHANGED <<pending, handoffs, owner>>
    PROVE  TablesOK'
<1>1. PICK gone : gone = {n} \cap Orphans(sessions', handoffs)
  OBVIOUS
<1>2. creds' = Dropped(gone)
  BY <1>1 DEF DropUnused
<1>3. gone \cap (sessions' \cup handoffs) = {}
  BY <1>1 DEF Orphans
<1> QED
  BY <1>2, <1>3, DropOK

\* A credential is stored for a row of its own.
LEMMA PutOK ==
    ASSUME TablesOK, NEW n \in Attempts, NEW cred \in Credential,
           creds' = [creds EXCEPT ![n] = cred], UNCHANGED <<pending, owner, sessions>>,
           handoffs' \subseteq handoffs \cup {n}, n \in handoffs' => owner[n] # None
    PROVE  TablesOK'
<1>1. creds' \in [Attempts -> Credential \cup {None}]
  BY DEF TablesOK
<1>2. cred # None
  BY AuthAssumption DEF Credential
<1>3. Referenced'
  BY <1>2 DEF TablesOK, Referenced, Stored
<1> QED
  BY <1>1, <1>3 DEF TablesOK

\* A refresh leaves every credential where it is.
LEMMA RotatedOK ==
    ASSUME TablesOK, NEW n \in Attempts, creds' = Rotated(n), UNCHANGED <<rows, owner>>
    PROVE  TablesOK' /\ Stored' = Stored
<1>1. ASSUME NEW m \in Attempts
      PROVE  /\ creds'[m] \in Credential \cup {None}
             /\ creds'[m] = None <=> creds[m] = None
  <2>1. CASE m = n /\ n \in Stored
    <3>1. creds[n] \in Credential
      BY <2>1 DEF TablesOK, Stored
    <3>2. [creds[n] EXCEPT !.good = FALSE] \in Credential
      BY <3>1 DEF Credential
    <3>3. creds'[m] = [creds[n] EXCEPT !.good = FALSE]
      BY <2>1 DEF Rotated
    <3> QED
      BY <2>1, <3>1, <3>2, <3>3, AuthAssumption DEF Credential
  <2>2. CASE ~(m = n /\ n \in Stored)
    BY <2>2 DEF Rotated, TablesOK
  <2> QED
    BY <2>1, <2>2
<1>2. creds' \in [Attempts -> Credential \cup {None}]
  BY <1>1 DEF Rotated
<1>3. Stored' = Stored
  BY <1>1 DEF Stored
<1> QED
  BY <1>2, <1>3 DEF TablesOK, Referenced, rows

\* Rows that stay as they are, or of which some are deleted, are in order.
LEMMA FewerOK ==
    ASSUME TablesOK, UNCHANGED <<creds, owner>>,
           pending' \subseteq pending, handoffs' \subseteq handoffs, sessions' \subseteq sessions
    PROVE  TablesOK'
  BY DEF TablesOK, Referenced, Stored

\* A request that changes no table.
LEMMA CallOnly ==
    ASSUME AuthInv, CallsOK', UNCHANGED <<rows, creds, owner, push>>, Upset \/ UNCHANGED upsets
    PROVE  AuthInv'
<1>1. TablesOK'
  BY FewerOK DEF AuthInv, rows
<1>2. PushOK'
  BY DEF AuthInv, PushOK, push
<1> QED
  BY <1>1, <1>2, UpsetsOK DEF AuthInv

-----------------------------------------------------------------------------
(* Sign-in and leases.                                                     *)

\* startMobileAuth gives a new attempt its device.
LEMMA StartKeeps ==
    ASSUME AuthInv, NEW d \in Devices, NEW n \in Attempts, StartMobileAuth(d, n)
    PROVE  AuthInv'
<1>1. TablesOK'
  <2>1. pending' \subseteq pending \cup {n}
    BY DEF StartMobileAuth, Kept
  <2>2. owner' = [owner EXCEPT ![n] = d] /\ d # None
    BY AuthAssumption DEF StartMobileAuth
  <2> QED
    BY <2>1, <2>2 DEF AuthInv, TablesOK, Referenced, Stored, StartMobileAuth
<1>2. PushOK'
  BY DEF AuthInv, PushOK, StartMobileAuth, push
<1>3. CallsOK' /\ upsets' \in Nat
  BY DisturbOK, UpsetsOK DEF AuthInv, StartMobileAuth, Expired
<1> QED
  BY <1>1, <1>2, <1>3 DEF AuthInv

\* An expired or refused row is deleted.
LEMMA RefusedKeeps ==
    ASSUME AuthInv, NEW n \in Attempts, CallbackRefused(n) \/ CompleteExpired(n)
    PROVE  AuthInv'
<1>1. TablesOK'
  BY FewerOK DEF AuthInv, CallbackRefused, CompleteExpired
<1>2. PushOK'
  BY DEF AuthInv, PushOK, CallbackRefused, CompleteExpired, push
<1> QED
  BY <1>1, <1>2, DisturbOK, UpsetsOK DEF AuthInv, CallbackRefused, CompleteExpired

\* The device of a row, and its installation.
LEMMA OwnerOK ==
    ASSUME AuthInv, NEW n \in pending \cup handoffs \cup sessions
    PROVE  n \in Attempts /\ owner[n] \in Devices /\ Inst(n) \in Installations
<1>1. n \in Attempts /\ owner[n] \in Devices
  BY DEF AuthInv, TablesOK
<1> QED
  BY <1>1, AuthAssumption DEF Inst

\* twitchOAuthCallback.
LEMMA CallbackKeeps ==
    ASSUME AuthInv, Owned, NEW c \in Calls,
           \/ \E n \in Attempts : CallbackBegin(c, n)
           \/ \E u \in Users : CallbackStore(c, u)
           \/ CallbackFault(c)
    PROVE  AuthInv'
<1>1. ASSUME NEW n \in Attempts, CallbackBegin(c, n)
      PROVE  AuthInv'
  <2>1. TablesOK'
    BY <1>1, FewerOK DEF AuthInv, CallbackBegin
  <2>2. PushOK' /\ upsets' \in Nat
    BY <1>1 DEF AuthInv, PushOK, CallbackBegin, push
  <2>3. PICK d \in Devices : d = owner[n]
    BY <1>1, OwnerOK DEF CallbackBegin
  <2>4. Begin(c, "callback", "exchange", d, n, None, {})
    BY <1>1, <2>3 DEF CallbackBegin
  <2>5. {} \in SUBSET Installations /\ "callback" \in CallOps /\ "exchange" \in CallSteps
    BY DEF CallOps, CallSteps
  <2>6. CallsOK'
    BY <2>4, <2>5, BeginOK DEF AuthInv
  <2> QED
    BY <2>1, <2>2, <2>6 DEF AuthInv
<1>2. ASSUME NEW u \in Users, CallbackStore(c, u)
      PROVE  AuthInv'
  <2>1. PICK n \in Attempts : n = calls[c].att
    BY <1>2 DEF AuthInv, CallsOK, CallOK, CallbackStore
  <2>2. [user |-> u, good |-> TRUE] \in Credential
    BY DEF Credential
  <2>3. handoffs' \subseteq handoffs \cup {n} /\ creds' = [creds EXCEPT ![n] = [user |-> u, good |-> TRUE]]
    BY <1>2, <2>1 DEF CallbackStore, Kept
  <2>4. owner[n] # None
    BY <2>1, AuthAssumption DEF Owned
  <2>5. TablesOK'
    BY <1>2, <2>2, <2>3, <2>4, PutOK DEF AuthInv, CallbackStore
  <2>6. PushOK' /\ CallsOK' /\ upsets' \in Nat
    BY <1>2, AnswerOK, UpsetsOK DEF AuthInv, PushOK, CallbackStore, push, Expired
  <2> QED
    BY <2>5, <2>6 DEF AuthInv
<1>3. CASE CallbackFault(c)
  BY <1>3, AnswerOK, CallOnly DEF AuthInv, CallbackFault
<1> QED
  BY <1>1, <1>2, <1>3

\* completeMobileAuth, leaseMobileToken and upsertRegistration begin.
LEMMA LeasersKeep ==
    ASSUME AuthInv, NEW c \in Calls, NEW n \in Attempts,
           CompleteBegin(c, n) \/ LeaseBegin(c, n) \/ RegisterBegin(c, n)
    PROVE  AuthInv'
<1>1. owner[n] \in Devices /\ Inst(n) \in Installations
  BY OwnerOK DEF CompleteBegin, LeaseBegin, RegisterBegin
<1>2. TablesOK'
  BY FewerOK DEF AuthInv, CompleteBegin, LeaseBegin, RegisterBegin, rows
<1>3. PushOK' /\ upsets' \in Nat
  BY DEF AuthInv, PushOK, CompleteBegin, LeaseBegin, RegisterBegin, push
<1>4. CASE CompleteBegin(c, n) \/ LeaseBegin(c, n)
  <2>1. PICK d \in Devices : d = owner[n]
    BY <1>1
  <2>2. PICK op \in {"complete", "lease"}, insts \in SUBSET Installations :
              Begin(c, op, "get", d, n, None, insts)
    BY <1>1, <1>4, <2>1 DEF CompleteBegin, LeaseBegin
  <2>3. op \in CallOps \ {"register"} /\ "get" \in CallSteps
    BY DEF CallOps, CallSteps
  <2>4. CallsOK'
    BY <2>2, <2>3, BeginOK DEF AuthInv
  <2> QED
    BY <1>2, <1>3, <2>4 DEF AuthInv
<1>6. CASE RegisterBegin(c, n)
  <2>1. PICK u \in Users : u = creds[n].user
    BY <1>6 DEF AuthInv, TablesOK, Referenced, Stored, Credential, RegisterBegin
  <2>2. PICK step \in {"get", "upsert"} :
              Begin(c, "register", step, owner[n], n, u, {Inst(n)})
    BY <1>6, <2>1 DEF RegisterBegin
  <2>3. CallsOK'
    BY <1>1, <2>2, BeginOK DEF AuthInv, CallOps, CallSteps
  <2> QED
    BY <1>2, <1>3, <2>3 DEF AuthInv
<1> QED
  BY <1>4, <1>6

\* The steps of a lease.
LEMMA LeaseKeeps ==
    ASSUME AuthInv, NEW c \in Calls, LeaseGet(c) \/ LeaseRefresh(c) \/ LeasePut(c)
    PROVE  AuthInv'
<1>1. PICK n \in Attempts : n = calls[c].att
  BY DEF AuthInv, CallsOK, CallOK, Leasing, LeaseGet, LeaseRefresh, LeasePut
<1>2. LeaseDone(c) \/ LeaseFailed(c) => CallsOK'
  BY ReturnOK DEF AuthInv, LeaseDone, LeaseFailed, Leasing, LeaseGet, LeaseRefresh, LeasePut
<1>3. CASE LeaseGet(c)
  <2>1. ASSUME NEW step \in {"put", "refresh"}, n \in Stored,
               calls' = [calls EXCEPT ![c].step = step, ![c].user = creds[n].user,
                                      ![c].good = creds[n].good]
        PROVE  CallsOK'
    <3>1. PICK cred \in Credential : cred = creds[n]
      BY <2>1 DEF AuthInv, TablesOK, Stored
    <3> QED
      BY <1>3, <2>1, <3>1, ReadOK DEF AuthInv, LeaseGet
  <2>2. CallsOK'
    BY <1>1, <1>2, <1>3, <2>1 DEF LeaseGet
  <2> QED
    BY <1>3, <2>2, CallOnly DEF LeaseGet
<1>4. CASE LeaseRefresh(c)
  <2>1. Goto(c, "put") => CallsOK'
    BY <1>1, <1>4, GotoOK DEF AuthInv, CallsOK, CallOK, LeaseRefresh, CallSteps
  <2>2. CallsOK'
    BY <1>2, <1>4, <2>1 DEF LeaseRefresh
  <2>3. TablesOK'
    <3>1. CASE creds' = Rotated(n)
      BY <1>1, <1>4, <3>1, RotatedOK DEF AuthInv, LeaseRefresh
    <3>2. CASE UNCHANGED creds
      BY <1>4, <3>2, FewerOK DEF AuthInv, LeaseRefresh, rows
    <3> QED
      BY <1>1, <1>4, <3>1, <3>2 DEF LeaseRefresh
  <2>4. PushOK' /\ upsets' \in Nat
    BY <1>4, UpsetsOK DEF AuthInv, PushOK, LeaseRefresh, push
  <2> QED
    BY <2>2, <2>3, <2>4 DEF AuthInv
<1>5. CASE LeasePut(c)
  <2>1. PICK cred \in Credential : cred = [user |-> calls[c].user, good |-> calls[c].good]
    BY <1>5 DEF AuthInv, CallsOK, CallOK, CallState, Credential, LeasePut
  <2>2. TablesOK'
    <3>1. CASE creds' = [creds EXCEPT ![n] = cred]
      <4>1. handoffs' \subseteq handoffs \cup {n} /\ (n \in handoffs' => owner[n] # None)
        BY <1>5 DEF AuthInv, TablesOK, LeasePut, rows
      <4> QED
        BY <1>5, <3>1, <4>1, PutOK DEF AuthInv, LeasePut, rows
    <3>2. CASE UNCHANGED creds
      BY <1>5, <3>2, FewerOK DEF AuthInv, LeasePut, rows
    <3> QED
      BY <1>1, <1>5, <2>1, <3>1, <3>2 DEF LeasePut
  <2>3. CallsOK'
    BY <1>2, <1>5 DEF LeasePut
  <2>4. PushOK' /\ upsets' \in Nat
    BY <1>5, UpsetsOK DEF AuthInv, PushOK, LeasePut, push
  <2> QED
    BY <2>2, <2>3, <2>4 DEF AuthInv
<1> QED
  BY <1>3, <1>4, <1>5

-----------------------------------------------------------------------------
(* Sessions.                                                               *)

\* CreateSession up to its commit.
LEMMA CreateKeeps ==
    ASSUME AuthInv, NEW c \in Calls, CreateSession(c)
    PROVE  AuthInv'
<1>1. PICK n \in Attempts : n = calls[c].att
  BY DEF AuthInv, CallsOK, CallOK, CreateSession
<1>2. Goto(c, "unused") => CallsOK'
  BY <1>1, GotoOK DEF AuthInv, CreateSession, CallSteps
<1>3. ASSUME NEW old \in SUBSET sessions, NEW d, NEW tx,
             tx = TxOf({}, {}, sessions \ Kept(sessions, d, old), {}),
             calls' = [calls EXCEPT ![c].step = "commit",
                                    ![c].tx = [tx EXCEPT !.c = @ \ {n}, !.old = old]]
      PROVE  CallsOK'
  <2>1. PICK t : t = [tx EXCEPT !.c = @ \ {n}, !.old = old]
    OBVIOUS
  <2>2. t \in [p : SUBSET Attempts, h : SUBSET Attempts, s : SUBSET Attempts,
               c : SUBSET Attempts, old : SUBSET Attempts] /\ n \notin t.c
    BY <1>3, <2>1 DEF TxOf, Kept, Orphans, Stored, AuthInv, TablesOK
  <2>3. calls' = [calls EXCEPT ![c].step = "commit", ![c].tx = t]
    BY <1>3, <2>1
  <2> QED
    BY <1>1, <2>2, <2>3, CommitBeginOK DEF AuthInv, CreateSession
<1>4. CallsOK'
  BY <1>1, <1>2, <1>3 DEF CreateSession
<1> QED
  BY <1>4, CallOnly DEF CreateSession, Expired

\* The commit of CreateSession.
LEMMA SessionKeeps ==
    ASSUME AuthInv, Owned, NEW c \in Calls, CommitSession(c)
    PROVE  AuthInv'
<1>1. PICK n \in Attempts : n = calls[c].att /\ n \notin calls[c].tx.c /\ owner[n] # None
  BY AuthAssumption DEF AuthInv, CallsOK, CallOK, Owned, CommitSession
<1>2. PushOK' /\ upsets' \in Nat
  BY UpsetsOK DEF AuthInv, PushOK, CommitSession, push
<1>3. CallsOK'
  BY <1>1, GotoOK, AnswerOK DEF AuthInv, CommitSession, CallSteps
<1>4. TablesOK'
  <2>1. CASE UNCHANGED <<handoffs, sessions, creds>>
    BY <2>1, FewerOK DEF AuthInv, CommitSession
  <2>2. ASSUME NEW gone, n \notin gone, NEW s, sessions' = (sessions \ (s \cup gone)) \cup {n},
               handoffs' = handoffs \ gone, creds' = Dropped(gone), creds[n] # None,
               UNCHANGED <<pending, owner>>
        PROVE  TablesOK'
    <3>1. creds' \in [Attempts -> Credential \cup {None}]
      BY <2>2 DEF AuthInv, TablesOK, Dropped
    <3>2. \A m \in Attempts \ gone : creds'[m] = creds[m]
      BY <2>2 DEF Dropped
    <3>3. Referenced'
      BY <2>2, <3>2 DEF AuthInv, TablesOK, Referenced, Stored
    <3> QED
      BY <1>1, <2>2, <3>1, <3>3 DEF AuthInv, TablesOK
  <2> QED
    BY <1>1, <2>1, <2>2 DEF CommitSession
<1> QED
  BY <1>2, <1>3, <1>4 DEF AuthInv

\* A session ends, or a failed sign-in gives its credential up.
LEMMA EndKeeps ==
    ASSUME AuthInv, NEW n,
           \/ \E d \in Devices : SignOut(d, n)
           \/ SessionExpired(n)
           \/ \E c \in Calls : CompleteUndo(c)
    PROVE  AuthInv'
<1>1. PushOK' /\ upsets' \in Nat
  BY UpsetsOK DEF AuthInv, PushOK, SignOut, SessionExpired, CompleteUndo, push
<1>2. CallsOK'
  BY DisturbOK, AnswerOK DEF AuthInv, SignOut, SessionExpired, CompleteUndo
<1>3. TablesOK'
  <2>1. CASE (\E d \in Devices : SignOut(d, n)) \/ SessionExpired(n)
    BY <2>1, DropUnusedOK DEF AuthInv, SignOut, SessionExpired
  <2>2. ASSUME NEW c \in Calls, CompleteUndo(c)
        PROVE  TablesOK'
    BY <2>2, DropUnusedOK, FewerOK DEF AuthInv, CompleteUndo, rows
  <2> QED
    BY <2>1, <2>2
<1> QED
  BY <1>1, <1>2, <1>3 DEF AuthInv

\* upsertRegistration saves the device and the user of the request.
LEMMA UpsertKeeps ==
    ASSUME AuthInv, NEW c \in Calls, RegisterUpsert(c)
    PROVE  AuthInv'
<1>1. PICK d \in Devices, u \in Users : d = calls[c].dev /\ u = calls[c].user
  BY DEF AuthInv, CallsOK, CallOK, RegisterUpsert
<1>2. TablesOK' /\ CallsOK' /\ upsets' \in Nat
  BY FewerOK, AnswerOK, UpsetsOK DEF AuthInv, RegisterUpsert, rows
<1>3. Installation[d] \in Installations
  BY AuthAssumption
<1>4. PushOK'
  <2>1. CASE /\ regs' = [regs EXCEPT ![Installation[d]] = [dev |-> d, user |-> u]]
             /\ queued' = queued \cup {Installation[d]}
    BY <1>3, <2>1 DEF AuthInv, PushOK
  <2>2. CASE UNCHANGED push
    BY <2>2 DEF AuthInv, PushOK, push
  <2> QED
    BY <1>1, <2>1, <2>2 DEF RegisterUpsert
<1> QED
  BY <1>2, <1>4 DEF AuthInv

-----------------------------------------------------------------------------
(* Revocation.                                                             *)

RevokeSteps ==
    {"binding", "device", "targets", "installs", "list", "unregister", "undeliver", "revoke"}

\* A revocation goes on with what it has found.
LEMMA FoundOK ==
    ASSUME CallsOK, NEW c \in Calls, NEW k \in CallState, calls' = [calls EXCEPT ![c] = k],
           calls[c].step # "idle", k.step \in RevokeSteps, k.dev = calls[c].dev,
           k.op = calls[c].op, k.user = calls[c].user \/ k.user \in Users
    PROVE  CallsOK'
<1>1. CallOK(calls[c])
  BY DEF CallsOK
<1>2. CallOK(k)
  BY <1>1 DEF CallOK, RevokeSteps, Leasing
<1> QED
  BY <1>2, OneCall

\* A revocation begins.
LEMMA RevokersKeep ==
    ASSUME AuthInv, NEW c \in Calls, NEW n \in Attempts, RevokeBegin(c, n) \/ RevokeAllBegin(c, n)
    PROVE  AuthInv'
<1>1. PICK d \in Devices : d = owner[n]
  BY DEF AuthInv, TablesOK, RevokeBegin, RevokeAllBegin
<1>2. PICK insts \in SUBSET Installations : insts = {Installation[d]}
  BY AuthAssumption
<1>3. PushOK' /\ upsets' \in Nat
  BY UpsetsOK DEF AuthInv, PushOK, RevokeBegin, RevokeAllBegin, push
<1>4. TablesOK'
  <2>1. CASE RevokeAllBegin(c, n) \/ UNCHANGED <<sessions, creds>>
    BY <2>1, FewerOK DEF AuthInv, RevokeBegin, RevokeAllBegin, rows
  <2>2. CASE RevokeBegin(c, n) /\ ~UNCHANGED <<sessions, creds>>
    BY <2>2, DropUnusedOK DEF AuthInv, RevokeBegin
  <2> QED
    BY <2>1, <2>2
<1>5. "revoke" \in CallOps /\ "revokeAll" \in CallOps /\ RevokeSteps \subseteq CallSteps
  BY DEF CallOps, CallSteps, RevokeSteps
<1>6. CASE RevokeBegin(c, n)
  <2>1. PICK step \in RevokeSteps : Begin(c, "revoke", step, d, None, None, insts)
    BY <1>1, <1>2, <1>6 DEF RevokeBegin, RevokeSteps
  <2>2. CallsOK'
    BY <1>5, <2>1, BeginOK DEF AuthInv, RevokeSteps
  <2> QED
    BY <1>3, <1>4, <2>2 DEF AuthInv
<1>7. CASE RevokeAllBegin(c, n)
  <2>1. PICK u \in Users \cup {None} : u = IF n \in sessions THEN creds[n].user ELSE None
    BY DEF AuthInv, TablesOK, Referenced, Stored, Credential
  <2>2. PICK step \in RevokeSteps : Begin(c, "revokeAll", step, d, None, u, insts)
    BY <1>1, <1>2, <1>7, <2>1 DEF RevokeAllBegin, RevokeSteps
  <2>3. CallsOK'
    BY <1>5, <2>2, BeginOK DEF AuthInv, RevokeSteps
  <2> QED
    BY <1>3, <1>4, <2>3 DEF AuthInv
<1> QED
  BY <1>6, <1>7

\* The steps that look for what is to be revoked.
LEMMA LookupsKeep ==
    ASSUME AuthInv, NEW c \in Calls,
           RevokeBinding(c) \/ RevokeDevice(c) \/ RevokeTargets(c) \/ RevokeInstalls(c) \/ RevokeList(c)
    PROVE  AuthInv'
<1>1. PICK k : k = calls[c] /\ k \in CallState /\ k.step \in RevokeSteps /\ k.dev \in Devices
  BY DEF AuthInv, CallsOK, CallOK, RevokeSteps, RevokeBinding, RevokeDevice, RevokeTargets,
         RevokeInstalls, RevokeList
<1>2. Answer(c) => CallsOK'
  BY AnswerOK DEF AuthInv
<1>3. k.step # "idle" /\ DOMAIN calls = Calls /\ calls = [x \in Calls |-> calls[x]]
  BY <1>1 DEF RevokeSteps, AuthInv, CallsOK
<1>4. ASSUME NEW m \in CallState, calls' = [calls EXCEPT ![c] = m], m.step \in RevokeSteps,
             m.dev = k.dev, m.op = k.op, m.user = k.user \/ m.user \in Users
      PROVE  CallsOK'
  BY <1>1, <1>3, <1>4, FoundOK DEF AuthInv
<1>5. ASSUME NEW step \in RevokeSteps, calls' = [calls EXCEPT ![c].step = step]
      PROVE  CallsOK'
  <2>1. calls' = [calls EXCEPT ![c] = [k EXCEPT !.step = step]]
    BY <1>1, <1>3, <1>5
  <2>2. [k EXCEPT !.step = step] \in CallState
    BY <1>1, <1>5 DEF CallState, RevokeSteps, CallSteps
  <2> QED
    BY <1>1, <1>4, <2>1, <2>2 DEF CallState
<1>6. CASE RevokeBinding(c)
  <2>1. CallsOK'
    BY <1>2, <1>5, <1>6 DEF RevokeBinding, Goto, Fault, RevokeSteps
  <2> QED
    BY <1>6, <2>1, CallOnly DEF RevokeBinding, Fault
<1>7. CASE RevokeDevice(c)
  <2>1. ASSUME HasReg(k.dev),
               calls' = [calls EXCEPT ![c].step = "targets",
                                      ![c].user = regs[Installation[k.dev]].user]
        PROVE  CallsOK'
    <3>1. PICK u \in Users : u = regs[Installation[k.dev]].user
      BY <1>1, <2>1, AuthAssumption DEF HasReg, AuthInv, PushOK
    <3>2. calls' = [calls EXCEPT ![c] = [k EXCEPT !.step = "targets", !.user = u]]
      BY <1>1, <1>3, <2>1, <3>1
    <3>3. [k EXCEPT !.step = "targets", !.user = u] \in CallState
      BY <1>1 DEF CallState, CallSteps
    <3> QED
      BY <1>1, <1>4, <3>2, <3>3 DEF CallState, RevokeSteps
  <2>2. CallsOK'
    BY <1>1, <1>2, <1>5, <1>7, <2>1 DEF RevokeDevice, Fault, RevokeSteps
  <2> QED
    BY <1>7, <2>2, CallOnly DEF RevokeDevice, Fault
<1>8. CASE RevokeTargets(c)
  <2>1. ASSUME calls' = [calls EXCEPT ![c].step = "installs", ![c].todo = OfUser(k.user)]
        PROVE  CallsOK'
    <3>1. calls' = [calls EXCEPT ![c] = [k EXCEPT !.step = "installs", !.todo = OfUser(k.user)]]
      BY <1>1, <1>3, <2>1
    <3>2. [k EXCEPT !.step = "installs", !.todo = OfUser(k.user)] \in CallState
      BY <1>1 DEF CallState, CallSteps, OfUser, Stored
    <3> QED
      BY <1>1, <1>4, <3>1, <3>2 DEF CallState, RevokeSteps
  <2>2. CallsOK'
    BY <1>1, <1>2, <1>8, <2>1 DEF RevokeTargets, Fault
  <2> QED
    BY <1>8, <2>2, CallOnly DEF RevokeTargets, Fault
<1>9. CASE RevokeInstalls(c)
  <2>1. PICK found : found = {Inst(n) : n \in calls[c].todo \cap sessions}
    OBVIOUS
  <2>2. found \subseteq Installations
    BY <2>1, OwnerOK
  <2>3. ASSUME calls' = [calls EXCEPT ![c].step = "list", ![c].insts = @ \cup found]
        PROVE  CallsOK'
    <3>1. calls' = [calls EXCEPT ![c] = [k EXCEPT !.step = "list", !.insts = k.insts \cup found]]
      BY <1>1, <1>3, <2>3
    <3>2. [k EXCEPT !.step = "list", !.insts = k.insts \cup found] \in CallState
      BY <1>1, <2>2 DEF CallState, CallSteps
    <3> QED
      BY <1>1, <1>4, <3>1, <3>2 DEF CallState, RevokeSteps
  <2>4. CallsOK'
    BY <1>2, <1>9, <2>1, <2>3 DEF RevokeInstalls, Fault
  <2> QED
    BY <1>9, <2>4, CallOnly DEF RevokeInstalls, Fault
<1>10. CASE RevokeList(c)
  <2>1. ASSUME NEW insts \in SUBSET Installations,
               calls' = [calls EXCEPT ![c].step = "unregister", ![c].todo = {},
                                      ![c].insts = @ \cup insts]
        PROVE  CallsOK'
    <3>1. calls' = [calls EXCEPT ![c] = [k EXCEPT !.step = "unregister", !.todo = {},
                                                  !.insts = k.insts \cup insts]]
      BY <1>1, <1>3, <2>1
    <3>2. [k EXCEPT !.step = "unregister", !.todo = {}, !.insts = k.insts \cup insts] \in CallState
      BY <1>1 DEF CallState, CallSteps
    <3> QED
      BY <1>1, <1>4, <3>1, <3>2 DEF CallState, RevokeSteps
  <2>2. Registered(k.user) \in SUBSET Installations /\ {} \in SUBSET Installations
    BY DEF Registered
  <2>3. CallsOK'
    BY <1>1, <1>10, <2>1, <2>2 DEF RevokeList
  <2> QED
    BY <1>10, <2>3, CallOnly DEF RevokeList
<1> QED
  BY <1>6, <1>7, <1>8, <1>9, <1>10

\* The steps that delete registrations and deliveries.
LEMMA UnregisterKeeps ==
    ASSUME AuthInv, NEW c \in Calls, RevokeUnregister(c) \/ RevokeDeliveries(c)
    PROVE  AuthInv'
<1>1. PICK k : k = calls[c] /\ k \in CallState /\ k.step \in RevokeSteps /\ k.dev \in Devices
  BY DEF AuthInv, CallsOK, CallOK, RevokeSteps, RevokeUnregister, RevokeDeliveries
<1>2. Answer(c) => CallsOK'
  BY AnswerOK DEF AuthInv
<1>3. k.step # "idle" /\ DOMAIN calls = Calls /\ calls = [x \in Calls |-> calls[x]]
  BY <1>1 DEF RevokeSteps, AuthInv, CallsOK
<1>4. TablesOK' /\ upsets' \in Nat
  BY FewerOK, UpsetsOK DEF AuthInv, RevokeUnregister, RevokeDeliveries, Fault, rows
<1>5. CASE RevokeUnregister(c)
  <2>1. PICK gone : gone = IF calls[c].op = "revokeAll"
                             THEN calls[c].insts \cup Registered(calls[c].user)
                             ELSE {Installation[calls[c].dev]}
    OBVIOUS
  <2>2. gone \in SUBSET Installations
    BY <1>1, <2>1, AuthAssumption DEF CallState, Registered
  <2>3. ASSUME calls' = [calls EXCEPT ![c].step = "undeliver", ![c].insts = gone]
        PROVE  CallsOK'
    <3>1. PICK m : m = [k EXCEPT !.step = "undeliver", !.insts = gone]
      OBVIOUS
    <3>2. calls' = [calls EXCEPT ![c] = m]
      BY <1>1, <1>3, <2>3, <3>1
    <3>3. m \in CallState /\ m.step \in RevokeSteps /\ m.dev = k.dev /\ m.op = k.op /\ m.user = k.user
      BY <1>1, <2>2, <3>1 DEF CallState, CallSteps, RevokeSteps
    <3>4. CallsOK
      BY DEF AuthInv
    <3> QED
      BY <1>1, <1>3, <3>2, <3>3, <3>4, FoundOK
  <2>4. CallsOK'
    BY <1>2, <1>5, <2>1, <2>3 DEF RevokeUnregister, Fault
  <2>5. \/ regs' = [i \in Installations |-> IF i \in gone THEN None ELSE regs[i]]
        \/ regs' = regs
    BY <1>5, <2>1 DEF RevokeUnregister
  <2>6. PushOK'
    BY <1>5, <2>5 DEF AuthInv, PushOK, RevokeUnregister
  <2> QED
    BY <1>4, <2>4, <2>6 DEF AuthInv
<1>6. CASE RevokeDeliveries(c)
  <2>1. PushOK'
    BY <1>6 DEF AuthInv, PushOK, RevokeDeliveries
  <2>2. CallsOK'
    BY <1>1, <1>2, <1>3, <1>6, GotoOK DEF AuthInv, RevokeDeliveries, Fault, CallSteps, Leasing
  <2> QED
    BY <1>4, <2>1, <2>2 DEF AuthInv
<1> QED
  BY <1>5, <1>6

\* RevokeInstallation and RevokeAccount, up to their commit.
LEMMA RevokingKeeps ==
    ASSUME AuthInv, NEW c \in Calls, RevokeInstallation(c) \/ RevokeAccount(c)
    PROVE  AuthInv'
<1>1. ASSUME NEW p \in SUBSET Attempts, NEW h \in SUBSET Attempts, NEW s \in SUBSET Attempts,
             NEW g \in SUBSET Attempts,
             calls' = [calls EXCEPT ![c].step = "commit", ![c].tx = TxOf(p, h, s, g)]
      PROVE  CallsOK'
  <2>1. PICK tx : tx = TxOf(p, h, s, g)
    OBVIOUS
  <2>2. tx \in [p : SUBSET Attempts, h : SUBSET Attempts, s : SUBSET Attempts,
                c : SUBSET Attempts, old : SUBSET Attempts]
    BY <2>1 DEF TxOf, Orphans, Stored
  <2>3. calls[c].step # "idle" /\ calls[c].op # "complete"
    BY DEF RevokeInstallation, RevokeAccount
  <2> QED
    BY <1>1, <2>1, <2>2, <2>3, CommitBeginOK DEF AuthInv
<1>2. Answer(c) => CallsOK'
  BY AnswerOK DEF AuthInv
<1>3. CASE RevokeInstallation(c)
  <2>1. PICK mine \in SUBSET Attempts : mine = OfInstallation(Installation[calls[c].dev])
    BY DEF OfInstallation
  <2>2. CallsOK'
    BY <1>1, <1>2, <1>3, <2>1 DEF RevokeInstallation, Fault
  <2> QED
    BY <1>3, <2>2, CallOnly DEF RevokeInstallation, Fault
<1>4. CASE RevokeAccount(c)
  <2>1. PICK mine \in SUBSET Attempts : mine = OfUser(calls[c].user)
    BY DEF OfUser, Stored
  <2>2. PICK at : at = UNION {OfInstallation(i) :
                                i \in calls[c].insts \cup {Inst(n) : n \in mine \cap sessions}}
    OBVIOUS
  <2>3. at \subseteq Attempts
    BY <2>2 DEF OfInstallation
  <2>4. CallsOK'
    BY <1>1, <1>2, <1>4, <2>1, <2>2, <2>3 DEF RevokeAccount, Fault
  <2> QED
    BY <1>4, <2>4, CallOnly DEF RevokeAccount, Fault
<1> QED
  BY <1>3, <1>4

\* The commit of a revocation deletes credentials with what refers to them.
LEMMA RevokedKeeps ==
    ASSUME AuthInv, NEW c \in Calls, CommitRevoke(c)
    PROVE  AuthInv'
<1>1. PushOK' /\ CallsOK' /\ upsets' \in Nat
  BY AnswerOK, UpsetsOK DEF AuthInv, PushOK, CommitRevoke, push
<1>2. PICK gone : gone = calls[c].tx.c
  OBVIOUS
<1>3. CASE /\ creds' = Dropped(gone) /\ pending' \subseteq pending /\ UNCHANGED owner
           /\ handoffs' \subseteq handoffs \ gone /\ sessions' \subseteq sessions \ gone
  BY <1>1, <1>3, DropOK DEF AuthInv
<1>4. CASE UNCHANGED <<rows, creds, owner>>
  BY <1>1, <1>4, FewerOK DEF AuthInv, rows
<1> QED
  BY <1>2, <1>3, <1>4 DEF CommitRevoke

-----------------------------------------------------------------------------
(* The invariant of the tables and the calls.                              *)

Holding == {"refresh", "put"}

\* The steps of a request but for those of a lease under its lock.
PlainStep(c) ==
    \/ \E u \in Users : CallbackStore(c, u)
    \/ CallbackFault(c)
    \/ CreateSession(c) \/ CommitSession(c) \/ CompleteUndo(c) \/ RegisterUpsert(c)
    \/ RevokeBinding(c) \/ RevokeDevice(c) \/ RevokeTargets(c) \/ RevokeInstalls(c)
    \/ RevokeList(c) \/ RevokeUnregister(c) \/ RevokeDeliveries(c) \/ RevokeInstallation(c)
    \/ RevokeAccount(c) \/ CommitRevoke(c)

\* Such a step changes its own call, which keeps its sign-in or ends, and neither
\* takes a lock nor has one.
LEMMA PlainShape ==
    ASSUME AuthInv, NEW c \in Calls, PlainStep(c)
    PROVE  /\ \A x \in Calls \ {c} : calls'[x] = calls[x]
           /\ calls'[c].att \in {calls[c].att, None}
           /\ calls'[c].step \notin Holding /\ calls[c].step \notin Holding
           /\ calls'[c].step # "idle" => calls'[c].alone = calls[c].alone
<1> DEFINE Shape == /\ \A x \in Calls \ {c} : calls'[x] = calls[x]
                    /\ calls'[c].att \in {calls[c].att, None}
                    /\ calls'[c].step \notin Holding /\ calls[c].step \notin Holding
                    /\ calls'[c].step # "idle" => calls'[c].alone = calls[c].alone
<1>1. PICK k : k = calls[c] /\ k \in CallState /\ calls = [x \in Calls |-> calls[x]]
  BY DEF AuthInv, CallsOK
<1>2. ASSUME Answer(c), calls[c].step \notin Holding
      PROVE  Shape
  BY <1>1, <1>2 DEF Answer, IdleCall, Holding
<1>3. ASSUME NEW step, step \notin Holding, Goto(c, step), calls[c].step \notin Holding
      PROVE  Shape
  BY <1>1, <1>3 DEF Goto, CallState
<1>4. ASSUME (\E u \in Users : CallbackStore(c, u)) \/ CallbackFault(c) \/ CompleteUndo(c)
             \/ RegisterUpsert(c) \/ CommitRevoke(c)
      PROVE  Shape
  BY <1>2, <1>4 DEF CallbackStore, CallbackFault, CompleteUndo, RegisterUpsert, CommitRevoke, Holding
<1>5. ASSUME CommitSession(c) \/ RevokeBinding(c) \/ RevokeDeliveries(c)
      PROVE  Shape
  BY <1>2, <1>3, <1>5 DEF CommitSession, RevokeBinding, RevokeDeliveries, Fault, Holding
<1>6. ASSUME NEW tx, calls' = [calls EXCEPT ![c].step = "commit", ![c].tx = tx],
             calls[c].step \notin Holding
      PROVE  Shape
  BY <1>1, <1>6 DEF CallState, Holding
<1>7. ASSUME CreateSession(c) \/ RevokeInstallation(c) \/ RevokeAccount(c)
      PROVE  Shape
  BY <1>2, <1>3, <1>6, <1>7 DEF CreateSession, RevokeInstallation, RevokeAccount, Fault, Holding
<1>8. ASSUME RevokeDevice(c) \/ RevokeTargets(c)
      PROVE  Shape
  <2>1. ASSUME NEW u, calls' = [calls EXCEPT ![c].step = "targets", ![c].user = u],
               calls[c].step \notin Holding
        PROVE  Shape
    BY <1>1, <2>1 DEF CallState, Holding
  <2>2. ASSUME NEW todo, calls' = [calls EXCEPT ![c].step = "installs", ![c].todo = todo],
               calls[c].step \notin Holding
        PROVE  Shape
    BY <1>1, <2>2 DEF CallState, Holding
  <2> QED
    BY <1>2, <1>3, <1>8, <2>1, <2>2 DEF RevokeDevice, RevokeTargets, Fault, Goto, Holding
<1>9. ASSUME RevokeInstalls(c) \/ RevokeList(c) \/ RevokeUnregister(c)
      PROVE  Shape
  <2>1. ASSUME NEW insts, calls' = [calls EXCEPT ![c].step = "list", ![c].insts = @ \cup insts],
               calls[c].step \notin Holding
        PROVE  Shape
    BY <1>1, <2>1 DEF CallState, Holding
  <2>2. ASSUME NEW insts, calls' = [calls EXCEPT ![c].step = "unregister", ![c].todo = {},
                                                 ![c].insts = @ \cup insts],
               calls[c].step \notin Holding
        PROVE  Shape
    BY <1>1, <2>2 DEF CallState, Holding
  <2>3. ASSUME NEW insts, calls' = [calls EXCEPT ![c].step = "undeliver", ![c].insts = insts],
               calls[c].step \notin Holding
        PROVE  Shape
    BY <1>1, <2>3 DEF CallState, Holding
  <2> QED
    BY <1>2, <1>9, <2>1, <2>2, <2>3 DEF RevokeInstalls, RevokeList, RevokeUnregister, Fault, Holding
<1> QED
  BY <1>4, <1>5, <1>7, <1>8, <1>9 DEF PlainStep

\* A lease keeps its sign-in too.
LEMMA LeaseShape ==
    ASSUME AuthInv, NEW c \in Calls, LeaseGet(c) \/ LeaseRefresh(c) \/ LeasePut(c)
    PROVE  /\ \A x \in Calls \ {c} : calls'[x] = calls[x]
           /\ calls'[c].att \in {calls[c].att, None}
           /\ LeaseDone(c) \/ LeaseFailed(c) => calls'[c].step \notin Holding
           /\ calls'[c].step # "idle" => calls'[c].alone = calls[c].alone
<1>1. PICK k : k = calls[c] /\ k \in CallState /\ calls = [x \in Calls |-> calls[x]]
  BY DEF AuthInv, CallsOK
<1>2. ASSUME LeaseDone(c) \/ LeaseFailed(c)
      PROVE  /\ \A x \in Calls \ {c} : calls'[x] = calls[x]
             /\ calls'[c].att \in {calls[c].att, None}
             /\ calls'[c].step \notin Holding
             /\ calls'[c].step # "idle" => calls'[c].alone = calls[c].alone
  <2>1. PICK step \in {"create", "unused"} : LeaseReturn(c, step)
    BY <1>2 DEF LeaseDone, LeaseFailed
  <2> QED
    BY <1>1, <2>1 DEF LeaseReturn, Answer, IdleCall, CallState, Holding
<1>3. ASSUME ~(LeaseDone(c) \/ LeaseFailed(c))
      PROVE  /\ \A x \in Calls \ {c} : calls'[x] = calls[x]
             /\ calls'[c].att \in {calls[c].att, None}
             /\ calls'[c].step # "idle" => calls'[c].alone = calls[c].alone
  BY <1>1, <1>3 DEF LeaseGet, LeaseRefresh, LeasePut, Goto, CallState
<1> QED
  BY <1>2, <1>3

\* A request that begins was idle, holds no lock and works for a sign-in that has
\* its device.
LEMMA BeginShape ==
    ASSUME AuthInv, NEW c \in Calls, CallBegin(c)
    PROVE  /\ \A x \in Calls \ {c} : /\ calls'[x].step = calls[x].step
                                     /\ calls'[x].att = calls[x].att
                                     /\ calls'[x].good = calls[x].good
           /\ calls[c].step = "idle" /\ calls'[c].step \notin Holding
           /\ calls'[c].att # None => owner[calls'[c].att] # None
<1>1. PICK op, step, d, n, u, insts : /\ Begin(c, op, step, d, n, u, insts)
                                      /\ step \notin Holding
                                      /\ n # None => owner[n] # None
  <2>1. PICK n \in Attempts : \/ CallbackBegin(c, n) \/ CompleteBegin(c, n) \/ LeaseBegin(c, n)
                              \/ RegisterBegin(c, n) \/ RevokeBegin(c, n) \/ RevokeAllBegin(c, n)
    BY DEF CallBegin
  <2>2. n \in pending \cup handoffs \cup sessions => owner[n] # None
    BY DEF AuthInv, TablesOK
  <2>3. CASE CallbackBegin(c, n) \/ CompleteBegin(c, n) \/ LeaseBegin(c, n)
    BY <2>2, <2>3 DEF CallbackBegin, CompleteBegin, LeaseBegin, Holding
  <2>4. CASE RegisterBegin(c, n)
    BY <2>2, <2>4 DEF RegisterBegin, Holding
  <2>5. CASE RevokeBegin(c, n)
    <3>1. PICK step :
                /\ step \in {"unregister", "binding", "device"}
                /\ Begin(c, "revoke", step, owner[n], None, None, {Installation[owner[n]]})
      BY <2>5 DEF RevokeBegin
    <3> QED
      BY <3>1 DEF Holding
  <2>6. CASE RevokeAllBegin(c, n)
    <3>1. PICK step, u :
                /\ step \in {"targets", "binding"}
                /\ Begin(c, "revokeAll", step, owner[n], None, u, {Installation[owner[n]]})
      BY <2>6 DEF RevokeAllBegin
    <3> QED
      BY <3>1 DEF Holding
  <2> QED
    BY <2>1, <2>3, <2>4, <2>5, <2>6
<1>2. PICK b : b = (\A x \in Calls : calls[x].step = "idle")
  OBVIOUS
<1>3. PICK k : k = [IdleCall EXCEPT !.op = op, !.step = step, !.dev = d, !.att = n, !.user = u,
                                    !.insts = insts, !.alone = b]
  OBVIOUS
<1>4. calls' = [Beside(c) EXCEPT ![c] = k] /\ calls[c].step = "idle"
  BY <1>1, <1>2, <1>3 DEF Begin
<1>5. k.step = step /\ k.att = n
  BY <1>3 DEF IdleCall
<1>6. Beside(c) \in [Calls -> CallState] /\ CallsOK
  BY BesideOK DEF AuthInv
<1>7. calls'[c] = k /\ \A x \in Calls \ {c} : calls'[x] = Beside(c)[x]
  BY <1>4, <1>6
<1>8. \A x \in Calls : /\ Beside(c)[x].step = calls[x].step
                       /\ Beside(c)[x].att = calls[x].att
                       /\ Beside(c)[x].good = calls[x].good
  BY <1>6, BesideOK
<1> QED
  BY <1>1, <1>4, <1>5, <1>7, <1>8

\* The requests of one step run beside the others.
LEMMA DisturbShape ==
    ASSUME AuthInv, Disturb
    PROVE  \A x \in Calls : /\ calls'[x].step = calls[x].step
                            /\ calls'[x].att = calls[x].att
                            /\ calls'[x].good = calls[x].good
  BY BesideOK DEF AuthInv, Disturb

\* No sign-in loses or changes its device.
LEMMA OwnerKept ==
    ASSUME AuthInv, AuthNext
    PROVE  \A n \in Attempts : owner[n] # None => owner'[n] = owner[n]
<1>1. ASSUME NEW d \in Devices, NEW n \in Attempts, StartMobileAuth(d, n)
      PROVE  \A m \in Attempts : owner[m] # None => owner'[m] = owner[m]
  BY <1>1, AuthAssumption DEF AuthInv, TablesOK, StartMobileAuth
<1>2. CASE \E n \in Attempts : \/ CallbackRefused(n) \/ CompleteExpired(n) \/ SessionExpired(n)
                               \/ \E d \in Devices : SignOut(d, n)
  BY <1>2 DEF CallbackRefused, CompleteExpired, SessionExpired, SignOut
<1>3. CASE \E c \in Calls : CallBegin(c)
  BY <1>3 DEF CallBegin, CallbackBegin, CompleteBegin, LeaseBegin, RegisterBegin, RevokeBegin,
              RevokeAllBegin
<1>4. ASSUME NEW c \in Calls, CallStep(c)
      PROVE  UNCHANGED owner
  <2>1. CASE (\E u \in Users : CallbackStore(c, u)) \/ CallbackFault(c)
    BY <2>1 DEF CallbackStore, CallbackFault
  <2>2. CASE LeaseGet(c) \/ LeaseRefresh(c) \/ LeasePut(c)
    BY <2>2 DEF LeaseGet, LeaseRefresh, LeasePut
  <2>3. CASE CreateSession(c) \/ CommitSession(c) \/ CompleteUndo(c) \/ RegisterUpsert(c)
    BY <2>3 DEF CreateSession, CommitSession, CompleteUndo, RegisterUpsert
  <2>4. CASE \/ RevokeBinding(c) \/ RevokeDevice(c) \/ RevokeTargets(c) \/ RevokeInstalls(c)
             \/ RevokeList(c)
    BY <2>4 DEF RevokeBinding, RevokeDevice, RevokeTargets, RevokeInstalls, RevokeList
  <2>5. CASE \/ RevokeUnregister(c) \/ RevokeDeliveries(c) \/ RevokeInstallation(c)
             \/ RevokeAccount(c) \/ CommitRevoke(c)
    BY <2>5 DEF RevokeUnregister, RevokeDeliveries, RevokeInstallation, RevokeAccount, CommitRevoke
  <2> QED
    BY <1>4, <2>1, <2>2, <2>3, <2>4, <2>5 DEF CallStep
<1>5. CASE Crash
  BY <1>5 DEF Crash
<1> QED
  BY <1>1, <1>2, <1>3, <1>4, <1>5 DEF AuthNext

\* The sign-in that a request works for has its device.
LEMMA OwnedKeeps ==
    ASSUME AuthInv, Owned, AuthNext
    PROVE  Owned'
<1>1. \A x \in Calls : calls[x].att # None => calls[x].att \in Attempts
  BY DEF AuthInv, CallsOK, CallState
<1>2. \A n \in Attempts : owner[n] # None => owner'[n] # None
  BY OwnerKept
<1>3. ASSUME \A x \in Calls : calls'[x].att \in {calls[x].att, None}
      PROVE  Owned'
  BY <1>1, <1>2, <1>3 DEF Owned
<1>4. ASSUME NEW c \in Calls, CallBegin(c)
      PROVE  Owned'
  <2>1. UNCHANGED owner
    BY <1>4 DEF CallBegin, CallbackBegin, CompleteBegin, LeaseBegin, RegisterBegin, RevokeBegin,
                RevokeAllBegin
  <2> QED
    BY <1>4, <2>1, BeginShape DEF Owned
<1>5. ASSUME NEW c \in Calls, CallStep(c)
      PROVE  Owned'
  <2>1. PlainStep(c) \/ LeaseGet(c) \/ LeaseRefresh(c) \/ LeasePut(c)
    BY <1>5 DEF CallStep, PlainStep
  <2> QED
    BY <1>3, <2>1, PlainShape, LeaseShape
<1>6. CASE \E n \in Attempts : \/ CallbackRefused(n) \/ CompleteExpired(n) \/ SessionExpired(n)
                               \/ \E d \in Devices : StartMobileAuth(d, n) \/ SignOut(d, n)
  <2>1. Disturb
    BY <1>6 DEF CallbackRefused, CompleteExpired, SessionExpired, StartMobileAuth, SignOut
  <2> QED
    BY <1>3, <2>1, DisturbShape
<1>7. CASE Crash
  BY <1>3, <1>7 DEF Crash, IdleCall
<1> QED
  BY <1>4, <1>5, <1>6, <1>7 DEF AuthNext

\* Every step keeps the tables and the calls in order.
LEMMA StepKeeps ==
    ASSUME AuthInv, Owned, AuthNext
    PROVE  AuthInv'
<1>1. ASSUME NEW c \in Calls, CallBegin(c)
      PROVE  AuthInv'
  BY <1>1, CallbackKeeps, LeasersKeep, RevokersKeep DEF CallBegin
<1>2. ASSUME NEW c \in Calls, CallStep(c)
      PROVE  AuthInv'
  <2>1. CASE (\E u \in Users : CallbackStore(c, u)) \/ CallbackFault(c)
    BY <2>1, CallbackKeeps
  <2>2. CASE LeaseGet(c) \/ LeaseRefresh(c) \/ LeasePut(c)
    BY <2>2, LeaseKeeps
  <2>3. CASE CreateSession(c) \/ CommitSession(c) \/ CompleteUndo(c) \/ RegisterUpsert(c)
    BY <2>3, CreateKeeps, SessionKeeps, EndKeeps, UpsertKeeps
  <2>4. CASE \/ RevokeBinding(c) \/ RevokeDevice(c) \/ RevokeTargets(c) \/ RevokeInstalls(c)
             \/ RevokeList(c)
    BY <2>4, LookupsKeep
  <2>5. CASE \/ RevokeUnregister(c) \/ RevokeDeliveries(c) \/ RevokeInstallation(c)
             \/ RevokeAccount(c) \/ CommitRevoke(c)
    BY <2>5, UnregisterKeeps, RevokingKeeps, RevokedKeeps
  <2> QED
    BY <1>2, <2>1, <2>2, <2>3, <2>4, <2>5 DEF CallStep
<1>3. ASSUME NEW n \in Attempts,
             \/ CallbackRefused(n) \/ CompleteExpired(n) \/ SessionExpired(n)
             \/ \E d \in Devices : StartMobileAuth(d, n) \/ SignOut(d, n)
      PROVE  AuthInv'
  BY <1>3, RefusedKeeps, EndKeeps, StartKeeps
<1>4. CASE Crash
  <2>1. CallsOK'
    <3>1. IdleCall \in CallState
      BY IdleOK DEF CallOK
    <3> QED
      BY <1>4, <3>1, IdleOK DEF Crash, CallsOK
  <2> QED
    BY <1>4, <2>1, CallOnly DEF Crash
<1> QED
  BY <1>1, <1>2, <1>3, <1>4 DEF AuthNext

\* At the start there are no rows.
LEMMA InitKeeps == AuthInit => AuthInv /\ Owned
<1> SUFFICES ASSUME AuthInit PROVE AuthInv /\ Owned
  OBVIOUS
<1>1. TablesOK /\ PushOK /\ upsets \in Nat
  BY DEF AuthInit, TablesOK, PushOK, Referenced
<1>2. CallsOK /\ Owned
  <2>1. IdleCall \in CallState /\ IdleCall.att = None
    BY IdleOK DEF CallOK, IdleCall
  <2> QED
    BY <2>1, IdleOK DEF AuthInit, CallsOK, Owned
<1> QED
  BY <1>1, <1>2 DEF AuthInv

\* The tables and the local state of the handlers stay in order.
THEOREM AuthInvariant == AuthSpec => [](AuthInv /\ Owned)
<1>1. AuthInv /\ Owned /\ UNCHANGED authVars => (AuthInv /\ Owned)'
  BY DEF AuthInv, TablesOK, PushOK, CallsOK, CallOK, Referenced, Stored, Owned, authVars, rows, push
<1>2. AuthInv /\ Owned /\ [AuthNext]_authVars => (AuthInv /\ Owned)'
  BY <1>1, StepKeeps, OwnedKeeps
<1> QED
  BY <1>2, InitKeeps, PTL DEF AuthSpec

\* The types of the tables and of the handlers' local state.
THEOREM AuthTypes == AuthSpec => []AuthTypeOK
<1>1. AuthInv => AuthTypeOK
  BY DEF AuthInv, TablesOK, PushOK, CallsOK, Credential, AuthTypeOK
<1> QED
  BY <1>1, AuthInvariant, PTL

\* Whatever sessions, revocations and failed sign-ins delete at the same time,
\* every session and every handoff keeps its credential.
THEOREM EverReferenced == AuthSpec => []Referenced
<1>1. AuthInv => Referenced
  BY DEF AuthInv, TablesOK
<1> QED
  BY <1>1, AuthInvariant, PTL

-----------------------------------------------------------------------------
(* Refresh tokens.                                                         *)

\* No two leases hold the lock of the same stripe.
LockHeld ==
    \A c, x \in Calls : c # x /\ calls[c].step \in Holding /\ calls[x].step \in Holding =>
        Stripe[calls[c].att] # Stripe[calls[x].att]

\* Without a failure a lease stores a token that Twitch honours.
PutGood == \A c \in Calls : calls[c].step = "put" => calls[c].good \/ upsets > 0

TokenInv == LockHeld /\ PutGood /\ RefreshTokenSafe

\* What keeps the tokens: calls take no lock, those that are about to store a token
\* go on unless something fails, and credentials stay, go or are new.
LEMMA TokensKept ==
    ASSUME TokenInv, upsets \in Nat, upsets' \in Nat, upsets' >= upsets,
           \A x \in Calls : calls'[x].step \in Holding => /\ calls'[x].step = calls[x].step
                                                          /\ calls'[x].att = calls[x].att
                                                          /\ calls'[x].good = calls[x].good,
           upsets' > 0 \/ \A x \in Calls : calls[x].step = "put" => /\ calls'[x].step = "put"
                                                                    /\ calls'[x].att = calls[x].att,
           \A n \in Stored' : creds'[n].good \/ (n \in Stored /\ creds'[n] = creds[n])
    PROVE  TokenInv'
<1>1. LockHeld'
  <2> SUFFICES ASSUME NEW c \in Calls, NEW x \in Calls, c # x,
                      calls'[c].step \in Holding, calls'[x].step \in Holding
               PROVE  Stripe[calls'[c].att] # Stripe[calls'[x].att]
    BY DEF LockHeld
  <2>1. calls[c].step \in Holding /\ calls[x].step \in Holding
    OBVIOUS
  <2>2. calls'[c].att = calls[c].att /\ calls'[x].att = calls[x].att
    OBVIOUS
  <2>3. Stripe[calls[c].att] # Stripe[calls[x].att]
    BY <2>1 DEF TokenInv, LockHeld
  <2> QED
    BY <2>2, <2>3
<1>2. PutGood'
  BY DEF TokenInv, PutGood, Holding
<1>3. ASSUME NEW c \in Calls, calls'[c].step = "refresh", calls'[c].good, calls'[c].att \in Stored'
      PROVE  creds'[calls'[c].att].good
  <2>1. /\ calls[c].step = "refresh" /\ calls'[c].att = calls[c].att
        /\ calls[c].good = calls'[c].good
    BY <1>3 DEF Holding
  <2>2. calls[c].good
    BY <1>3, <2>1, Zenon
  <2>3. calls[c].att \in Stored => creds[calls[c].att].good
    BY <2>1, <2>2 DEF TokenInv, RefreshTokenSafe
  <2> QED
    BY <1>3, <2>1, <2>3
<1>4. ASSUME NEW n \in Stored', ~creds'[n].good, ~(upsets' > 0)
      PROVE  \E c \in Calls : calls'[c].step = "put" /\ calls'[c].att = n
  BY <1>4 DEF TokenInv, RefreshTokenSafe
<1> QED
  BY <1>1, <1>2, <1>3, <1>4 DEF TokenInv, RefreshTokenSafe

\* Deleted credentials are gone and the others are as they were.
LEMMA DroppedSame ==
    ASSUME NEW gone, creds' = Dropped(gone)
    PROVE  \A n \in Stored' : n \in Stored /\ creds'[n] = creds[n]
  BY DEF Dropped, Stored

\* What a step without a lock does to the credentials.
LEMMA PlainCreds ==
    ASSUME AuthInv, NEW c \in Calls, PlainStep(c)
    PROVE  \A n \in Stored' : creds'[n].good \/ (n \in Stored /\ creds'[n] = creds[n])
<1>1. CASE UNCHANGED creds
  BY <1>1 DEF Stored
<1>2. CASE \E gone : creds' = Dropped(gone)
  BY <1>2, DroppedSame
<1>3. ASSUME NEW u \in Users, CallbackStore(c, u)
      PROVE  \A n \in Stored' : creds'[n].good \/ (n \in Stored /\ creds'[n] = creds[n])
  <2>1. creds' = [creds EXCEPT ![calls[c].att] = [user |-> u, good |-> TRUE]]
    BY <1>3 DEF CallbackStore
  <2>2. ASSUME NEW n \in Attempts
        PROVE  creds'[n] = [user |-> u, good |-> TRUE] \/ creds'[n] = creds[n]
    BY <2>1 DEF AuthInv, TablesOK
  <2>3. [user |-> u, good |-> TRUE].good
    OBVIOUS
  <2> QED
    BY <2>2, <2>3 DEF Stored
<1>4. CASE CommitSession(c) \/ CompleteUndo(c) \/ CommitRevoke(c)
  BY <1>1, <1>2, <1>4 DEF CommitSession, CompleteUndo, CommitRevoke, DropUnused
<1> QED
  BY <1>1, <1>3, <1>4 DEF PlainStep, CallbackFault, CreateSession, RegisterUpsert, RevokeBinding,
         RevokeDevice, RevokeTargets, RevokeInstalls, RevokeList, RevokeUnregister,
         RevokeDeliveries, RevokeInstallation, RevokeAccount

\* Failures are only added.
LEMMA UpsetsGrow ==
    ASSUME AuthInv, AuthNext
    PROVE  upsets' \in Nat /\ upsets' >= upsets
<1>1. upsets \in Nat
  BY DEF AuthInv
<1>2. Upset \/ UNCHANGED upsets
  <2>1. CASE \E c \in Calls : CallBegin(c)
    BY <2>1 DEF CallBegin, CallbackBegin, CompleteBegin, LeaseBegin, RegisterBegin, RevokeBegin,
                RevokeAllBegin
  <2>2. ASSUME NEW c \in Calls, CallStep(c)
        PROVE  Upset \/ UNCHANGED upsets
    <3>1. CASE (\E u \in Users : CallbackStore(c, u)) \/ CallbackFault(c)
      BY <3>1 DEF CallbackStore, CallbackFault, Expired
    <3>2. CASE LeaseGet(c) \/ LeaseRefresh(c) \/ LeasePut(c)
      BY <3>2 DEF LeaseGet, LeaseRefresh, LeasePut
    <3>3. CASE CreateSession(c) \/ CommitSession(c) \/ CompleteUndo(c) \/ RegisterUpsert(c)
      BY <3>3 DEF CreateSession, CommitSession, CompleteUndo, RegisterUpsert, Expired
    <3>4. CASE \/ RevokeBinding(c) \/ RevokeDevice(c) \/ RevokeTargets(c) \/ RevokeInstalls(c)
               \/ RevokeList(c)
      BY <3>4 DEF RevokeBinding, RevokeDevice, RevokeTargets, RevokeInstalls, RevokeList, Fault
    <3>5. CASE \/ RevokeUnregister(c) \/ RevokeDeliveries(c) \/ RevokeInstallation(c)
               \/ RevokeAccount(c) \/ CommitRevoke(c)
      BY <3>5 DEF RevokeUnregister, RevokeDeliveries, RevokeInstallation, RevokeAccount,
                  CommitRevoke, Fault
    <3> QED
      BY <2>2, <3>1, <3>2, <3>3, <3>4, <3>5 DEF CallStep
  <2>3. CASE \E n \in Attempts :
                \/ CallbackRefused(n) \/ CompleteExpired(n) \/ SessionExpired(n)
                \/ \E d \in Devices : StartMobileAuth(d, n) \/ SignOut(d, n)
    BY <2>3 DEF CallbackRefused, CompleteExpired, SessionExpired, StartMobileAuth, SignOut, Expired
  <2>4. CASE Crash
    BY <2>4 DEF Crash
  <2> QED
    BY <2>1, <2>2, <2>3, <2>4 DEF AuthNext
<1> QED
  BY <1>1, <1>2 DEF Upset

\* A lease that fails while it holds the lock leaves nothing to be stored.
LEMMA ReturnTokens ==
    ASSUME AuthInv, TokenInv, NEW c \in Calls, LeaseGet(c) \/ LeaseRefresh(c) \/ LeasePut(c),
           LeaseDone(c) \/ LeaseFailed(c), upsets' \in Nat, upsets' >= upsets,
           upsets' > 0 \/ calls[c].step # "put",
           \A n \in Stored' : creds'[n].good \/ (n \in Stored /\ creds'[n] = creds[n])
    PROVE  TokenInv'
<1>1. /\ \A x \in Calls \ {c} : calls'[x] = calls[x]
      /\ calls'[c].step \notin Holding
  BY LeaseShape
<1>2. \A x \in Calls : calls'[x].step \in Holding => /\ calls'[x].step = calls[x].step
                                                     /\ calls'[x].att = calls[x].att
                                                     /\ calls'[x].good = calls[x].good
  BY <1>1
<1>3. upsets' > 0 \/ \A x \in Calls : calls[x].step = "put" => /\ calls'[x].step = "put"
                                                               /\ calls'[x].att = calls[x].att
  BY <1>1
<1>4. upsets \in Nat
  BY DEF AuthInv
<1> QED
  BY <1>2, <1>3, <1>4, TokensKept

\* The credential that a lease works with, and those that other leases work with.
LEMMA OtherLease ==
    ASSUME TokenInv, NEW c \in Calls, calls[c].step \in Holding
    PROVE  \A x \in Calls \ {c} : calls[x].step \in Holding => calls[x].att # calls[c].att
  BY DEF TokenInv, LockHeld

\* A lease that has read its credential knows whether its token is good.
LEMMA ReadSafe ==
    ASSUME RefreshTokenSafe, Stored' = Stored, creds' = creds, upsets' = upsets, NEW c \in Calls,
           calls[c].step = "get", calls'[c].good = creds[calls'[c].att].good,
           \A x \in Calls \ {c} : calls'[x] = calls[x]
    PROVE  RefreshTokenSafe'
<1>1. ASSUME NEW x \in Calls, calls'[x].step = "refresh", calls'[x].good, calls'[x].att \in Stored'
      PROVE  creds'[calls'[x].att].good
  <2>1. CASE x = c
    BY <1>1, <2>1
  <2>2. CASE x # c
    <3>1. calls'[x] = calls[x]
      BY <2>2
    <3>2. calls[x].step = "refresh" /\ calls[x].att \in Stored
      BY <1>1, <3>1
    <3>3. calls[x].good
      BY <1>1, <3>1, Zenon
    <3>4. creds[calls[x].att].good
      BY <3>2, <3>3 DEF RefreshTokenSafe
    <3> QED
      BY <3>1, <3>4
  <2> QED
    BY <2>1, <2>2
<1>2. ASSUME NEW m \in Stored', ~creds'[m].good, ~(upsets' > 0)
      PROVE  \E x \in Calls : calls'[x].step = "put" /\ calls'[x].att = m
  <2>1. PICK x \in Calls : calls[x].step = "put" /\ calls[x].att = m
    BY <1>2 DEF RefreshTokenSafe
  <2>2. calls'[x] = calls[x]
    BY <2>1
  <2> QED
    BY <2>1, <2>2
<1> QED
  BY <1>1, <1>2 DEF RefreshTokenSafe

\* A lease reads its credential under the lock.
LEMMA ReadTokens ==
    ASSUME AuthInv, TokenInv, NEW c \in Calls, calls[c].step = "get", LockFree(calls[c].att),
           calls[c].att \in Stored, UNCHANGED <<creds, upsets>>, NEW step \in Holding,
           calls' = [calls EXCEPT ![c].step = step, ![c].user = creds[calls[c].att].user,
                                  ![c].good = creds[calls[c].att].good]
    PROVE  TokenInv'
<1>1. PICK n \in Attempts : n = calls[c].att
  BY DEF Stored
<1>2. /\ \A x \in Calls \ {c} : calls'[x] = calls[x]
      /\ calls'[c].step = step /\ calls'[c].att = n /\ calls'[c].good = creds[n].good
  BY <1>1 DEF AuthInv, CallsOK, CallState
<1>3. \A x \in Calls : calls[x].step \in Holding => Stripe[calls[x].att] # Stripe[n]
  BY <1>1 DEF LockFree, Holding
<1>4. LockHeld'
  <2>1. ASSUME NEW x \in Calls, NEW y \in Calls, x # y,
               calls'[x].step \in Holding, calls'[y].step \in Holding
        PROVE  Stripe[calls'[x].att] # Stripe[calls'[y].att]
    <3>1. CASE x = c
      BY <1>2, <1>3, <2>1, <3>1
    <3>2. CASE y = c
      BY <1>2, <1>3, <2>1, <3>2
    <3>3. CASE x # c /\ y # c
      <4>1. calls'[x] = calls[x] /\ calls'[y] = calls[y]
        BY <1>2, <3>3
      <4> QED
        BY <2>1, <4>1 DEF TokenInv, LockHeld
    <3> QED
      BY <3>1, <3>2, <3>3
  <2> QED
    BY <2>1 DEF LockHeld
<1>5. creds[n].good \/ upsets > 0
  BY <1>1, <1>3 DEF TokenInv, RefreshTokenSafe, Holding
<1>6. PutGood'
  BY <1>2, <1>5 DEF TokenInv, PutGood
<1>7. Stored' = Stored
  BY DEF Stored
<1>8. RefreshTokenSafe'
  BY <1>2, <1>7, ReadSafe DEF TokenInv
<1> QED
  BY <1>4, <1>6, <1>8 DEF TokenInv

\* Twitch takes the refresh token: the lease goes on to store its successor, or
\* something fails.
LEMMA RefreshTokens ==
    ASSUME AuthInv, TokenInv, NEW c \in Calls, LeaseRefresh(c), creds' = Rotated(calls[c].att),
           calls[c].good, upsets' \in Nat, upsets' >= upsets
    PROVE  TokenInv'
<1>1. PICK n \in Attempts : n = calls[c].att
  BY DEF AuthInv, CallsOK, CallOK, Leasing, LeaseRefresh
<1>2. /\ \A x \in Calls \ {c} : calls'[x] = calls[x]
      /\ \/ upsets' > 0 /\ calls'[c].step \notin Holding
         \/ calls'[c].step = "put" /\ calls'[c].att = n /\ calls'[c].good /\ UNCHANGED upsets
  <2>1. ASSUME Goto(c, "put")
        PROVE  calls'[c].step = "put" /\ calls'[c].att = n /\ calls'[c].good
    BY <1>1, <2>1 DEF AuthInv, CallsOK, CallState, Goto
  <2>2. \A x \in Calls \ {c} : calls'[x] = calls[x]
    BY LeaseShape
  <2>3. LeaseFailed(c) => calls'[c].step \notin Holding
    BY LeaseShape
  <2>4. upsets \in Nat
    BY DEF AuthInv
  <2>5. calls[c].att \in Stored => creds[calls[c].att].good
    BY DEF TokenInv, RefreshTokenSafe, LeaseRefresh
  <2>6. (Goto(c, "put") /\ UNCHANGED upsets) \/ (LeaseFailed(c) /\ Upset)
    BY <2>5 DEF LeaseRefresh
  <2>7. Upset => upsets' > 0
    BY <2>4 DEF Upset
  <2> QED
    BY <2>1, <2>2, <2>3, <2>6, <2>7
<1>3. calls[c].step = "refresh"
  BY DEF LeaseRefresh
<1>4. \A x \in Calls \ {c} : calls[x].step \in Holding => calls[x].att # n
  BY <1>1, <1>3, OtherLease DEF Holding
<1>5. Stored' = Stored /\ \A m \in Stored \ {n} : creds'[m] = creds[m]
  <2>1. UNCHANGED <<rows, owner>>
    BY DEF LeaseRefresh
  <2>2. Stored' = Stored
    BY <1>1, <2>1, RotatedOK DEF AuthInv
  <2> QED
    BY <1>1, <2>2 DEF Rotated, Stored
<1>6. LockHeld'
  <2>1. ASSUME NEW x \in Calls, calls'[x].step \in Holding
        PROVE  calls[x].step \in Holding /\ calls'[x].att = calls[x].att
    BY <1>1, <1>2, <1>3, <2>1 DEF Holding
  <2> QED
    BY <2>1 DEF TokenInv, LockHeld
<1>7. PutGood'
  <2>1. upsets \in Nat
    BY DEF AuthInv
  <2> QED
    BY <1>2, <2>1 DEF TokenInv, PutGood, Holding
<1>8. ASSUME NEW x \in Calls, calls'[x].step = "refresh", calls'[x].good, calls'[x].att \in Stored'
      PROVE  creds'[calls'[x].att].good
  <2>1. x # c /\ calls'[x] = calls[x]
    BY <1>2, <1>8 DEF Holding
  <2>2. calls[x].att # n /\ creds'[calls[x].att] = creds[calls[x].att] /\ calls[x].att \in Stored
    BY <1>4, <1>5, <1>8, <2>1 DEF Holding
  <2>3. creds[calls[x].att].good
    BY <1>8, <2>1, <2>2 DEF TokenInv, RefreshTokenSafe
  <2> QED
    BY <2>1, <2>2, <2>3
<1>9. ASSUME NEW m \in Stored', ~creds'[m].good, ~(upsets' > 0)
      PROVE  \E x \in Calls : calls'[x].step = "put" /\ calls'[x].att = m
  <2>1. CASE m = n
    BY <1>2, <1>9, <2>1
  <2>2. CASE m # n
    <3>1. ~creds[m].good /\ m \in Stored /\ ~(upsets > 0)
      BY <1>2, <1>5, <1>9, <2>2
    <3>2. PICK x \in Calls : calls[x].step = "put" /\ calls[x].att = m
      BY <3>1 DEF TokenInv, RefreshTokenSafe
    <3> QED
      BY <1>2, <1>3, <3>2
  <2> QED
    BY <2>1, <2>2
<1> QED
  BY <1>6, <1>7, <1>8, <1>9 DEF TokenInv, RefreshTokenSafe

\* PutCredential stores the successor.
LEMMA PutTokens ==
    ASSUME AuthInv, TokenInv, NEW c \in Calls, LeasePut(c), LeaseDone(c), UNCHANGED upsets,
           creds' = [creds EXCEPT ![calls[c].att] = [user |-> calls[c].user, good |-> calls[c].good]]
    PROVE  TokenInv'
<1>1. PICK n \in Attempts : n = calls[c].att
  BY DEF AuthInv, CallsOK, CallOK, Leasing, LeasePut
<1>2. (\A x \in Calls \ {c} : calls'[x] = calls[x]) /\ calls'[c].step \notin Holding
  BY LeaseShape
<1>3. calls[c].step = "put"
  BY DEF LeasePut
<1>4. \A x \in Calls \ {c} : calls[x].step \in Holding => calls[x].att # n
  BY <1>1, <1>3, OtherLease DEF Holding
<1>5. /\ creds'[n].good = calls[c].good
      /\ \A m \in Attempts \ {n} : creds'[m] = creds[m]
  BY <1>1 DEF AuthInv, TablesOK
<1>6. creds'[n].good \/ upsets' > 0
  BY <1>3, <1>5 DEF TokenInv, PutGood
<1>7. LockHeld'
  BY <1>2 DEF TokenInv, LockHeld
<1>8. PutGood'
  BY <1>2 DEF TokenInv, PutGood, Holding
<1>9. ASSUME NEW x \in Calls, calls'[x].step = "refresh", calls'[x].good, calls'[x].att \in Stored'
      PROVE  creds'[calls'[x].att].good
  <2>1. x # c /\ calls'[x] = calls[x]
    BY <1>2, <1>9 DEF Holding
  <2>2. calls[x].att # n /\ calls[x].att \in Stored'
    BY <1>4, <1>9, <2>1 DEF Holding
  <2>3. creds'[calls[x].att] = creds[calls[x].att] /\ calls[x].att \in Stored
    BY <1>5, <2>2 DEF Stored
  <2>4. creds[calls[x].att].good
    BY <1>9, <2>1, <2>3 DEF TokenInv, RefreshTokenSafe
  <2> QED
    BY <2>1, <2>3, <2>4
<1>10. ASSUME NEW m \in Stored', ~creds'[m].good, ~(upsets' > 0)
       PROVE  \E x \in Calls : calls'[x].step = "put" /\ calls'[x].att = m
  <2>1. m # n /\ m \in Stored /\ ~creds[m].good
    BY <1>5, <1>6, <1>10 DEF Stored
  <2>2. PICK x \in Calls : calls[x].step = "put" /\ calls[x].att = m
    BY <1>10, <2>1 DEF TokenInv, RefreshTokenSafe
  <2> QED
    BY <1>1, <1>2, <2>1, <2>2
<1> QED
  BY <1>7, <1>8, <1>9, <1>10 DEF TokenInv, RefreshTokenSafe

\* Every step of a lease keeps the tokens.
LEMMA LeaseTokens ==
    ASSUME AuthInv, TokenInv, AuthNext, NEW c \in Calls, LeaseGet(c) \/ LeaseRefresh(c) \/ LeasePut(c)
    PROVE  TokenInv'
<1>1. upsets \in Nat /\ upsets' \in Nat /\ upsets' >= upsets
  BY UpsetsGrow DEF AuthInv
<1>2. UNCHANGED creds => \A n \in Stored' : creds'[n].good \/ (n \in Stored /\ creds'[n] = creds[n])
  BY DEF Stored
<1>3. CASE LeaseGet(c)
  <2>1. UNCHANGED creds /\ calls[c].step = "get" /\ LockFree(calls[c].att)
    BY <1>3 DEF LeaseGet
  <2>2. CASE LeaseDone(c) \/ LeaseFailed(c)
    BY <1>1, <1>2, <1>3, <2>1, <2>2, ReturnTokens
  <2>3. CASE ~(LeaseDone(c) \/ LeaseFailed(c))
    <3>1. PICK step \in Holding :
              /\ calls' = [calls EXCEPT ![c].step = step, ![c].user = creds[calls[c].att].user,
                                        ![c].good = creds[calls[c].att].good]
              /\ calls[c].att \in Stored /\ UNCHANGED upsets
      BY <1>3, <2>3 DEF LeaseGet, Holding
    <3> QED
      BY <2>1, <3>1, ReadTokens
  <2> QED
    BY <2>2, <2>3
<1>4. CASE LeaseRefresh(c)
  <2>1. CASE creds' = Rotated(calls[c].att) /\ calls[c].good
    BY <1>1, <1>4, <2>1, RefreshTokens
  <2>2. CASE LeaseFailed(c) /\ UNCHANGED creds
    <3>1. calls[c].step # "put"
      BY <1>4 DEF LeaseRefresh
    <3> QED
      BY <1>1, <1>2, <1>4, <2>2, <3>1, ReturnTokens
  <2> QED
    BY <1>4, <2>1, <2>2 DEF LeaseRefresh
<1>5. CASE LeasePut(c)
  <2>1. CASE LeaseFailed(c) /\ Upset /\ UNCHANGED creds
    <3>1. upsets' > 0
      BY <1>1, <2>1 DEF Upset
    <3> QED
      BY <1>1, <1>2, <1>5, <2>1, <3>1, ReturnTokens
  <2> QED
    BY <1>5, <2>1, PutTokens DEF LeasePut
<1> QED
  BY <1>3, <1>4, <1>5

\* Every step keeps the tokens.
LEMMA TokenStep ==
    ASSUME AuthInv, TokenInv, AuthNext
    PROVE  TokenInv'
<1>1. upsets \in Nat /\ upsets' \in Nat /\ upsets' >= upsets
  BY UpsetsGrow DEF AuthInv
<1>2. ASSUME NEW c \in Calls, PlainStep(c)
      PROVE  TokenInv'
  <2>1. /\ \A x \in Calls \ {c} : calls'[x] = calls[x]
        /\ calls'[c].step \notin Holding /\ calls[c].step \notin Holding
    BY <1>2, PlainShape
  <2>2. \A n \in Stored' : creds'[n].good \/ (n \in Stored /\ creds'[n] = creds[n])
    BY <1>2, PlainCreds
  <2>3. \A x \in Calls : calls'[x].step \in Holding => /\ calls'[x].step = calls[x].step
                                                       /\ calls'[x].att = calls[x].att
                                                       /\ calls'[x].good = calls[x].good
    BY <2>1
  <2>4. \A x \in Calls : calls[x].step = "put" => calls'[x].step = "put" /\ calls'[x].att = calls[x].att
    BY <2>1 DEF Holding
  <2> QED
    BY <1>1, <2>2, <2>3, <2>4, TokensKept
<1>3. ASSUME NEW c \in Calls, CallBegin(c)
      PROVE  TokenInv'
  <2>1. /\ \A x \in Calls \ {c} : /\ calls'[x].step = calls[x].step
                                  /\ calls'[x].att = calls[x].att
                                  /\ calls'[x].good = calls[x].good
        /\ calls[c].step = "idle" /\ calls'[c].step \notin Holding
    BY <1>3, BeginShape
  <2>2. \A n \in Stored' : n \in Stored /\ creds'[n] = creds[n]
    <3>1. UNCHANGED creds \/ \E gone : creds' = Dropped(gone)
      BY <1>3 DEF CallBegin, CallbackBegin, CompleteBegin, LeaseBegin, RegisterBegin, RevokeBegin,
                  RevokeAllBegin, DropUnused
    <3> QED
      BY <3>1, DroppedSame DEF Stored
  <2>3. \A x \in Calls : calls'[x].step \in Holding => /\ calls'[x].step = calls[x].step
                                                       /\ calls'[x].att = calls[x].att
                                                       /\ calls'[x].good = calls[x].good
    BY <2>1
  <2>4. \A x \in Calls : calls[x].step = "put" => calls'[x].step = "put" /\ calls'[x].att = calls[x].att
    BY <2>1
  <2> QED
    BY <1>1, <2>2, <2>3, <2>4, TokensKept
<1>4. CASE \E n \in Attempts : \/ CallbackRefused(n) \/ CompleteExpired(n) \/ SessionExpired(n)
                               \/ \E d \in Devices : StartMobileAuth(d, n) \/ SignOut(d, n)
  <2>1. Disturb
    BY <1>4 DEF CallbackRefused, CompleteExpired, SessionExpired, StartMobileAuth, SignOut
  <2>2. \A x \in Calls : /\ calls'[x].step = calls[x].step
                         /\ calls'[x].att = calls[x].att
                         /\ calls'[x].good = calls[x].good
    BY <2>1, DisturbShape
  <2>3. \A n \in Stored' : n \in Stored /\ creds'[n] = creds[n]
    <3>1. UNCHANGED creds \/ \E gone : creds' = Dropped(gone)
      BY <1>4 DEF CallbackRefused, CompleteExpired, SessionExpired, StartMobileAuth, SignOut,
                  DropUnused
    <3> QED
      BY <3>1, DroppedSame DEF Stored
  <2> QED
    BY <1>1, <2>2, <2>3, TokensKept
<1>5. CASE Crash
  <2>1. upsets' > 0 /\ UNCHANGED creds /\ \A x \in Calls : calls'[x].step \notin Holding
    BY <1>1, <1>5 DEF Crash, Upset, IdleCall, Holding
  <2> QED
    BY <1>1, <2>1, TokensKept DEF Stored
<1> QED
  BY <1>2, <1>3, <1>4, <1>5, LeaseTokens DEF AuthNext, CallStep, PlainStep

\* The lock of twitchOAuthClient.lease: no two leases spend the same refresh token,
\* and without a failure the stored token is good or about to be replaced.
THEOREM RefreshTokensSafe == AuthSpec => []RefreshTokenSafe
<1>1. AuthInit => TokenInv
  <2> SUFFICES ASSUME AuthInit PROVE TokenInv
    OBVIOUS
  <2>1. \A c \in Calls : calls[c].step = "idle"
    BY DEF AuthInit, IdleCall
  <2>2. Stored = {}
    BY DEF AuthInit, Stored
  <2> QED
    BY <2>1, <2>2 DEF TokenInv, LockHeld, PutGood, RefreshTokenSafe, Holding
<1>2. TokenInv /\ UNCHANGED authVars => TokenInv'
  <2> SUFFICES ASSUME TokenInv, UNCHANGED authVars PROVE TokenInv'
    OBVIOUS
  <2>1. UNCHANGED <<calls, creds, upsets>> /\ Stored' = Stored
    BY DEF authVars, Stored
  <2>2. LockHeld' /\ PutGood'
    BY <2>1 DEF TokenInv, LockHeld, PutGood
  <2>3. RefreshTokenSafe'
    BY <2>1 DEF TokenInv, RefreshTokenSafe
  <2> QED
    BY <2>2, <2>3 DEF TokenInv
<1>3. AuthInv /\ TokenInv /\ [AuthNext]_authVars => TokenInv'
  BY <1>2, TokenStep
<1>4. TokenInv => RefreshTokenSafe
  BY DEF TokenInv
<1> QED
  BY <1>1, <1>3, <1>4, AuthInvariant, PTL DEF AuthSpec

-----------------------------------------------------------------------------
(* Requests that run alone.                                                *)

\* Beside a request that no other one overlaps, none is under way.
AloneInv ==
    \A c \in Calls : calls[c].alone /\ calls[c].step # "idle" =>
        \A x \in Calls \ {c} : calls[x].step = "idle"

\* The request works with a credential that must not go.
Needs(k) ==
    \/ k.step \in {"get", "refresh", "put", "create"}
    \/ k.step = "commit" /\ k.op = "complete"

\* Whatever runs beside a request tells it so.
LEMMA BesideAlone ==
    ASSUME CallsOK, NEW c, NEW x \in Calls, x # c, calls[x].step # "idle"
    PROVE  ~Beside(c)[x].alone
<1>1. PICK k : k = calls[x] /\ k \in CallState
  BY DEF CallsOK
<1>2. Beside(c)[x] = [k EXCEPT !.alone = FALSE]
  BY <1>1 DEF Beside
<1> QED
  BY <1>1, <1>2 DEF CallState

\* A request that begins knows whether others are under way.
LEMMA BeginAlone ==
    ASSUME AuthInv, NEW c \in Calls, NEW op, NEW step, NEW d, NEW n, NEW u, NEW insts,
           Begin(c, op, step, d, n, u, insts)
    PROVE  /\ \A x \in Calls \ {c} : calls[x].step # "idle" => ~calls'[x].alone
           /\ calls'[c].alone => \A x \in Calls : calls[x].step = "idle"
           /\ calls'[c].step = step /\ calls'[c].att = n
<1>1. PICK b : b = (\A x \in Calls : calls[x].step = "idle")
  OBVIOUS
<1>2. PICK k : k = [IdleCall EXCEPT !.op = op, !.step = step, !.dev = d, !.att = n, !.user = u,
                                    !.insts = insts, !.alone = b]
  OBVIOUS
<1>3. calls' = [Beside(c) EXCEPT ![c] = k]
  BY <1>1, <1>2 DEF Begin
<1>4. Beside(c) \in [Calls -> CallState] /\ CallsOK
  BY BesideOK DEF AuthInv
<1>5. calls'[c] = k /\ \A x \in Calls \ {c} : calls'[x] = Beside(c)[x]
  BY <1>3, <1>4
<1>6. k.alone = b /\ k.step = step /\ k.att = n
  BY <1>2 DEF IdleCall
<1>7. \A x \in Calls \ {c} : calls[x].step # "idle" => ~calls'[x].alone
  BY <1>4, <1>5, BesideAlone
<1>8. calls'[c].alone => \A x \in Calls : calls[x].step = "idle"
  BY <1>1, <1>5, <1>6
<1> QED
  BY <1>5, <1>6, <1>7, <1>8

\* The beginning of any request.
LEMMA SomeBegin ==
    ASSUME AuthInv, NEW c \in Calls, CallBegin(c)
    PROVE  \E op, step, d, n, u, insts :
              /\ Begin(c, op, step, d, n, u, insts)
              /\ step \notin {"refresh", "put", "create", "commit"}
              /\ step = "get" => n \in Stored /\ creds' = creds
<1>1. PICK m \in Attempts : \/ CallbackBegin(c, m) \/ CompleteBegin(c, m) \/ LeaseBegin(c, m)
                            \/ RegisterBegin(c, m) \/ RevokeBegin(c, m) \/ RevokeAllBegin(c, m)
  BY DEF CallBegin
<1>2. m \in handoffs \cup sessions => m \in Stored
  BY DEF AuthInv, TablesOK, Referenced
<1>3. CASE CallbackBegin(c, m) \/ CompleteBegin(c, m) \/ LeaseBegin(c, m)
  BY <1>2, <1>3 DEF CallbackBegin, CompleteBegin, LeaseBegin
<1>4. CASE RegisterBegin(c, m)
  BY <1>2, <1>4 DEF RegisterBegin
<1>5. CASE RevokeBegin(c, m)
  <2>1. PICK step :
              /\ step \in {"unregister", "binding", "device"}
              /\ Begin(c, "revoke", step, owner[m], None, None, {Installation[owner[m]]})
    BY <1>5 DEF RevokeBegin
  <2> QED
    BY <2>1
<1>6. CASE RevokeAllBegin(c, m)
  <2>1. PICK step, u :
              /\ step \in {"targets", "binding"}
              /\ Begin(c, "revokeAll", step, owner[m], None, u, {Installation[owner[m]]})
    BY <1>6 DEF RevokeAllBegin
  <2> QED
    BY <2>1
<1> QED
  BY <1>1, <1>3, <1>4, <1>5, <1>6

\* A call that takes a step was under way.
LEMMA StepActive ==
    ASSUME NEW c \in Calls, CallStep(c)
    PROVE  calls[c].step # "idle"
<1>1. CASE (\E u \in Users : CallbackStore(c, u)) \/ CallbackFault(c)
  BY <1>1 DEF CallbackStore, CallbackFault
<1>2. CASE LeaseGet(c) \/ LeaseRefresh(c) \/ LeasePut(c)
  BY <1>2 DEF LeaseGet, LeaseRefresh, LeasePut
<1>3. CASE CreateSession(c) \/ CommitSession(c) \/ CompleteUndo(c) \/ RegisterUpsert(c)
  BY <1>3 DEF CreateSession, CommitSession, CompleteUndo, RegisterUpsert
<1>4. CASE \/ RevokeBinding(c) \/ RevokeDevice(c) \/ RevokeTargets(c) \/ RevokeInstalls(c)
           \/ RevokeList(c)
  BY <1>4 DEF RevokeBinding, RevokeDevice, RevokeTargets, RevokeInstalls, RevokeList
<1>5. CASE \/ RevokeUnregister(c) \/ RevokeDeliveries(c) \/ RevokeInstallation(c)
           \/ RevokeAccount(c) \/ CommitRevoke(c)
  BY <1>5 DEF RevokeUnregister, RevokeDeliveries, RevokeInstallation, RevokeAccount, CommitRevoke
<1> QED
  BY <1>1, <1>2, <1>3, <1>4, <1>5 DEF CallStep

\* Only the call of the step changes, and it stays alone or not.
LEMMA StepShape ==
    ASSUME AuthInv, NEW c \in Calls, CallStep(c)
    PROVE  /\ \A x \in Calls \ {c} : calls'[x] = calls[x]
           /\ calls'[c].step # "idle" => calls'[c].alone = calls[c].alone
<1>1. PlainStep(c) \/ LeaseGet(c) \/ LeaseRefresh(c) \/ LeasePut(c)
  BY DEF CallStep, PlainStep
<1> QED
  BY <1>1, PlainShape, LeaseShape

\* Every step keeps it.
LEMMA AloneStep ==
    ASSUME AuthInv, AloneInv, AuthNext
    PROVE  AloneInv'
<1>1. ASSUME NEW c \in Calls, CallBegin(c)
      PROVE  AloneInv'
  <2>1. /\ \A x \in Calls \ {c} : calls'[x].step = calls[x].step
        /\ \A x \in Calls \ {c} : calls[x].step # "idle" => ~calls'[x].alone
        /\ calls'[c].alone => \A x \in Calls : calls[x].step = "idle"
    BY <1>1, BeginShape, SomeBegin, BeginAlone
  <2> QED
    BY <2>1 DEF AloneInv
<1>2. ASSUME NEW c \in Calls, CallStep(c)
      PROVE  AloneInv'
  <2>1. /\ \A x \in Calls \ {c} : calls'[x] = calls[x]
        /\ calls'[c].step # "idle" => calls'[c].alone = calls[c].alone
        /\ calls[c].step # "idle"
    BY <1>2, StepActive, StepShape
  <2>2. ASSUME NEW x \in Calls, calls'[x].alone, calls'[x].step # "idle", NEW y \in Calls \ {x}
        PROVE  calls'[y].step = "idle"
    <3>1. CASE x = c
      <4>1. calls[c].alone
        BY <2>1, <2>2, <3>1
      <4> QED
        BY <2>1, <2>2, <3>1, <4>1 DEF AloneInv
    <3>2. CASE x # c
      <4>1. calls[x].alone /\ calls[x].step # "idle"
        BY <2>1, <2>2, <3>2
      <4>2. calls[c].step = "idle"
        BY <3>2, <4>1 DEF AloneInv
      <4> QED
        BY <2>1, <4>2
    <3> QED
      BY <3>1, <3>2
  <2> QED
    BY <2>2 DEF AloneInv
<1>3. CASE \E n \in Attempts : \/ CallbackRefused(n) \/ CompleteExpired(n) \/ SessionExpired(n)
                               \/ \E d \in Devices : StartMobileAuth(d, n) \/ SignOut(d, n)
  <2>1. Disturb
    BY <1>3 DEF CallbackRefused, CompleteExpired, SessionExpired, StartMobileAuth, SignOut
  <2>2. \A x \in Calls : calls'[x].step = calls[x].step
    BY <2>1, DisturbShape
  <2>3. \A x \in Calls : calls[x].step # "idle" => ~calls'[x].alone
    BY <2>1, BesideAlone, AuthAssumption DEF AuthInv, Disturb
  <2> QED
    BY <2>2, <2>3 DEF AloneInv
<1>4. CASE Crash
  BY <1>4 DEF Crash, IdleCall, AloneInv
<1> QED
  BY <1>1, <1>2, <1>3, <1>4 DEF AuthNext

\* Outside the lease a request needs its credential only on from a session it creates.
LEMMA PlainNeeds ==
    ASSUME AuthInv, NEW c \in Calls, PlainStep(c), Needs(calls'[c])
    PROVE  calls[c].step = "create" /\ UNCHANGED creds
<1>1. PICK k : k = calls[c] /\ k \in CallState /\ calls = [x \in Calls |-> calls[x]]
  BY DEF AuthInv, CallsOK
<1>2. ~Answer(c)
  BY <1>1 DEF Answer, IdleCall, Needs
<1>3. \A step : Goto(c, step) => step \in {"get", "refresh", "put", "create", "commit"}
  BY <1>1 DEF Goto, CallState, Needs
<1>4. ASSUME NEW tx, calls' = [calls EXCEPT ![c].step = "commit", ![c].tx = tx]
      PROVE  calls[c].op = "complete"
  BY <1>1, <1>4 DEF CallState, Needs
<1>5. CASE (\E u \in Users : CallbackStore(c, u)) \/ CallbackFault(c) \/ CompleteUndo(c)
           \/ RegisterUpsert(c) \/ CommitRevoke(c)
  BY <1>2, <1>5 DEF CallbackStore, CallbackFault, CompleteUndo, RegisterUpsert, CommitRevoke
<1>6. CASE CommitSession(c) \/ RevokeBinding(c) \/ RevokeDeliveries(c)
  <2>1. ~Goto(c, "unused") /\ ~Goto(c, "device") /\ ~Goto(c, "revoke")
    BY <1>3
  <2>2. CASE CommitSession(c)
    BY <1>2, <2>1, <2>2 DEF CommitSession
  <2>3. CASE RevokeBinding(c)
    BY <1>2, <2>1, <2>3 DEF RevokeBinding, Fault
  <2>4. CASE RevokeDeliveries(c)
    BY <1>2, <2>1, <2>4 DEF RevokeDeliveries, Fault
  <2> QED
    BY <1>6, <2>2, <2>3, <2>4
<1>7. CASE CreateSession(c)
  BY <1>7 DEF CreateSession
<1>8. CASE RevokeInstallation(c) \/ RevokeAccount(c)
  BY <1>2, <1>4, <1>8 DEF RevokeInstallation, RevokeAccount, Fault
<1>9. CASE RevokeDevice(c) \/ RevokeTargets(c)
  <2>1. calls'[c].step \in {"unregister", "targets", "installs"}
    BY <1>1, <1>2, <1>9 DEF RevokeDevice, RevokeTargets, Fault, CallState
  <2> QED
    BY <2>1 DEF Needs
<1>10. CASE RevokeInstalls(c) \/ RevokeList(c) \/ RevokeUnregister(c)
  <2>1. calls'[c].step \in {"list", "unregister", "undeliver"}
    BY <1>1, <1>2, <1>10 DEF RevokeInstalls, RevokeList, RevokeUnregister, Fault, CallState
  <2> QED
    BY <2>1 DEF Needs
<1> QED
  BY <1>5, <1>6, <1>7, <1>8, <1>9, <1>10 DEF PlainStep

\* A lease deletes no credential.
LEMMA LeaseStored ==
    ASSUME AuthInv, NEW c \in Calls, LeaseGet(c) \/ LeaseRefresh(c) \/ LeasePut(c)
    PROVE  Stored \subseteq Stored'
<1>1. CASE UNCHANGED creds
  BY <1>1 DEF Stored
<1>2. ASSUME NEW n, creds' = Rotated(n)
      PROVE  Stored \subseteq Stored'
  <2>1. ASSUME NEW m \in Stored
        PROVE  creds'[m] # None
    <3>1. PICK k : k = creds[m] /\ k \in Credential /\ m \in Attempts
      BY <2>1 DEF AuthInv, TablesOK, Stored
    <3>2. [k EXCEPT !.good = FALSE] \in Credential
      BY <3>1 DEF Credential
    <3>3. creds'[m] \in {k, [k EXCEPT !.good = FALSE]}
      BY <1>2, <3>1 DEF Rotated
    <3> QED
      BY <3>1, <3>2, <3>3, AuthAssumption DEF Credential
  <2> QED
    BY <2>1 DEF Stored
<1>3. ASSUME LeasePut(c), ~UNCHANGED creds
      PROVE  Stored \subseteq Stored'
  <2>1. PICK u, g : u = calls[c].user /\ g = calls[c].good
    OBVIOUS
  <2>2. creds' = [creds EXCEPT ![calls[c].att] = [user |-> u, good |-> g]]
    BY <1>3, <2>1 DEF LeasePut
  <2>3. u \in Users /\ g \in BOOLEAN
    BY <1>3, <2>1 DEF LeasePut, AuthInv, CallsOK, CallOK, CallState
  <2>4. [user |-> u, good |-> g] # None
    BY <2>3, AuthAssumption
  <2> QED
    BY <2>2, <2>4 DEF AuthInv, TablesOK, Stored
<1> QED
  BY <1>1, <1>2, <1>3 DEF LeaseGet, LeaseRefresh

\* What a request needs, it needed before the step, and has it still.
LEMMA StepNeeds ==
    ASSUME AuthInv, AuthInv', NEW c \in Calls, CallStep(c), Needs(calls'[c])
    PROVE  /\ Needs(calls[c]) /\ calls'[c].att = calls[c].att
           /\ calls'[c].step # "idle" /\ Stored \subseteq Stored'
<1>1. calls'[c].att \in Attempts
  BY DEF AuthInv, CallsOK, CallOK, Needs, Leasing
<1>2. calls'[c].att # None /\ calls'[c].step # "idle"
  BY <1>1, AuthAssumption DEF Needs
<1>3. CASE PlainStep(c)
  <2>1. calls[c].step = "create" /\ UNCHANGED creds
    BY <1>3, PlainNeeds
  <2>2. calls'[c].att \in {calls[c].att, None}
    BY <1>3, PlainShape
  <2> QED
    BY <1>2, <2>1, <2>2 DEF Needs, Stored
<1>4. CASE LeaseGet(c) \/ LeaseRefresh(c) \/ LeasePut(c)
  <2>1. calls[c].step \in {"get", "refresh", "put"}
    BY <1>4 DEF LeaseGet, LeaseRefresh, LeasePut
  <2>2. calls'[c].att \in {calls[c].att, None}
    BY <1>4, LeaseShape
  <2> QED
    BY <1>2, <1>4, <2>1, <2>2, LeaseStored DEF Needs
<1> QED
  BY <1>3, <1>4 DEF CallStep, PlainStep

\* A request that runs alone has its credential.
HasCredential ==
    \A c \in Calls : calls[c].alone /\ Needs(calls[c]) => calls[c].att \in Stored

\* Every step keeps that.
LEMMA KeptStep ==
    ASSUME AuthInv, AuthInv', AloneInv, AloneInv', HasCredential, AuthNext
    PROVE  HasCredential'
<1>1. \A x \in Calls : Needs(calls'[x]) => calls'[x].step # "idle"
  BY DEF Needs
<1>2. ASSUME NEW c \in Calls, CallBegin(c), NEW x \in Calls, calls'[x].alone, Needs(calls'[x])
      PROVE  calls'[x].att \in Stored'
  <2>1. PICK op, step, d, n, u, insts :
              /\ Begin(c, op, step, d, n, u, insts)
              /\ step \notin {"refresh", "put", "create", "commit"}
              /\ step = "get" => n \in Stored /\ creds' = creds
    BY <1>2, SomeBegin
  <2>2. /\ \A y \in Calls \ {c} : calls[y].step # "idle" => ~calls'[y].alone
        /\ calls'[c].step = step /\ calls'[c].att = n
    BY <2>1, BeginAlone
  <2>3. \A y \in Calls \ {c} : calls'[y].step = calls[y].step
    BY <1>2, BeginShape
  <2>4. x = c
    BY <1>1, <1>2, <2>2, <2>3
  <2>5. step = "get"
    BY <1>2, <2>1, <2>2, <2>4 DEF Needs
  <2> QED
    BY <2>1, <2>2, <2>4, <2>5 DEF Stored
<1>3. ASSUME NEW c \in Calls, CallStep(c), NEW x \in Calls, calls'[x].alone, Needs(calls'[x])
      PROVE  calls'[x].att \in Stored'
  <2>1. /\ \A y \in Calls \ {c} : calls'[y] = calls[y]
        /\ calls'[c].step # "idle" => calls'[c].alone = calls[c].alone
        /\ calls[c].step # "idle"
    BY <1>3, StepActive, StepShape
  <2>2. x = c
    BY <1>1, <1>3, <2>1 DEF AloneInv
  <2>3. /\ Needs(calls[c]) /\ calls'[c].att = calls[c].att
        /\ calls'[c].step # "idle" /\ Stored \subseteq Stored'
    BY <1>3, <2>2, StepNeeds
  <2>4. calls[c].alone
    BY <1>3, <2>1, <2>2, <2>3
  <2> QED
    BY <2>2, <2>3, <2>4 DEF HasCredential
<1>4. CASE \E n \in Attempts : \/ CallbackRefused(n) \/ CompleteExpired(n) \/ SessionExpired(n)
                               \/ \E d \in Devices : StartMobileAuth(d, n) \/ SignOut(d, n)
  <2>1. Disturb
    BY <1>4 DEF CallbackRefused, CompleteExpired, SessionExpired, StartMobileAuth, SignOut
  <2>2. \A x \in Calls : calls'[x].step = calls[x].step
    BY <2>1, DisturbShape
  <2>3. \A x \in Calls : calls[x].step # "idle" => ~calls'[x].alone
    BY <2>1, BesideAlone, AuthAssumption DEF AuthInv, Disturb
  <2> QED
    BY <1>1, <2>2, <2>3 DEF HasCredential
<1>5. CASE Crash
  BY <1>1, <1>5 DEF Crash, IdleCall, HasCredential
<1> QED
  BY <1>2, <1>3, <1>4, <1>5 DEF AuthNext, HasCredential

\* A sign-in between ConsumeHandoff and CreateSession, and a lease between its read
\* and its write, keep the credential while no other request overlaps them.
THEOREM CredentialsKept == AuthSpec => []CredentialKept
<1>1. AuthInit => AloneInv /\ HasCredential
  <2> SUFFICES ASSUME AuthInit PROVE AloneInv /\ HasCredential
    OBVIOUS
  <2>1. \A c \in Calls : calls[c].step = "idle"
    BY DEF AuthInit, IdleCall
  <2> QED
    BY <2>1 DEF AloneInv, HasCredential, Needs
<1>2. AloneInv /\ HasCredential /\ UNCHANGED authVars => (AloneInv /\ HasCredential)'
  BY DEF authVars, AloneInv, HasCredential, Stored
<1>3. AuthInv /\ AuthInv' /\ AloneInv /\ HasCredential /\ [AuthNext]_authVars
          => (AloneInv /\ HasCredential)'
  BY <1>2, AloneStep, KeptStep
<1>4. HasCredential => CredentialKept
  BY DEF HasCredential, CredentialKept, Needs
<1> QED
  BY <1>1, <1>3, <1>4, AuthInvariant, PTL DEF AuthSpec
=============================================================================
