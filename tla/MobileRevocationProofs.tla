----------------------- MODULE MobileRevocationProofs ------------------------
(***************************************************************************)
(* Of the OAuth broker: what ends a session, and what the two revocations  *)
(* have removed when they answer, for any devices, accounts, sign-ins and  *)
(* requests.                                                               *)
(***************************************************************************)
EXTENDS MobileAuthProofs

\* An installation has one session at most.
OneSession == \A m, n \in sessions : Inst(m) = Inst(n) => m = n

\* Only a sign-in creates a session, with a lease of its token before.
OpFits(k) ==
    /\ k.step = "create" => k.op = "complete"
    /\ k.step \in Leasing => k.op \in {"complete", "lease", "register"}

\* A transaction ends sessions of its own device, of its installation or account, and
\* expired ones.
TxFits(k) ==
    k.step = "commit" =>
        /\ k.op = "complete" => k.tx.s \subseteq OfDevice(k.dev) \cup k.tx.old
        /\ k.op = "revoke" => k.tx.s \subseteq OfInstallation(Installation[k.dev])
        /\ k.op = "revokeAll" => k.tx.s \subseteq k.tx.c

\* While no other request overlaps it, what a transaction saw is still so ...
TxExact(k) ==
    k.step = "commit" =>
        /\ k.op \in {"complete", "revoke"} => k.tx.c \cap sessions \subseteq k.tx.s
        /\ k.op = "revoke" =>
              LET mine == OfInstallation(Installation[k.dev])
              IN  mine \cap pending \subseteq k.tx.p /\ mine \cap handoffs \subseteq k.tx.h
                  /\ mine \cap sessions \subseteq k.tx.s
        /\ k.op = "revokeAll" => OfUser(k.user) \subseteq k.tx.c /\ k.tx.c \cap sessions \subseteq OfUser(k.user)

\* ... and what the earlier steps of a revocation removed has not come back.
Unregistered(k) ==
    LET i == Installation[k.dev]
    IN  /\ k.op = "revoke" /\ k.step = "device" => sessions \cap OfInstallation(i) = {}
        /\ k.op = "revoke" /\ k.step \in {"undeliver", "revoke", "commit"} =>
              regs[i] = None /\ k.insts = {i}
        /\ k.op = "revokeAll" /\ k.step \in {"undeliver", "revoke", "commit"} =>
              Registered(k.user) = {}
        /\ k.op \in {"revoke", "revokeAll"} /\ k.step \in {"revoke", "commit"} =>
              k.insts \cap queued = {}

AloneFits(k) == k.alone => TxExact(k) /\ Unregistered(k)

RevokeInv == OneSession /\ \A c \in Calls : OpFits(calls[c]) /\ TxFits(calls[c]) /\ AloneFits(calls[c])

\* What belongs to a device or an installation goes on belonging to it.
LEMMA OwnersGrow ==
    ASSUME AuthInv, AuthNext
    PROVE  /\ \A d \in Devices : OfDevice(d) \subseteq OfDevice(d)'
           /\ \A i \in Installations : OfInstallation(i) \subseteq OfInstallation(i)'
           /\ \A n \in Attempts : owner[n] # None => Inst(n)' = Inst(n)
<1>1. \A n \in Attempts : owner[n] # None => owner'[n] = owner[n]
  BY OwnerKept
<1>2. None \notin Devices /\ None \notin Installations
  BY AuthAssumption
<1>3. \A n \in Attempts : owner[n] # None => Inst(n)' = Inst(n)
  BY <1>1 DEF Inst
<1>4. \A d \in Devices : OfDevice(d) \subseteq OfDevice(d)'
  BY <1>1, <1>2 DEF OfDevice
<1>5. ASSUME NEW i \in Installations, NEW n \in OfInstallation(i)
      PROVE  n \in OfInstallation(i)'
  <2>1. n \in Attempts /\ Inst(n) = i /\ owner[n] # None
    BY <1>2 DEF OfInstallation, Inst
  <2> QED
    BY <1>3, <2>1 DEF OfInstallation
<1> QED
  BY <1>3, <1>4, <1>5

\* A request that begins leaves another one all but the mark that it is alone.
LEMMA BesideSame ==
    ASSUME CallsOK, NEW c, NEW x \in Calls
    PROVE  /\ Beside(c)[x].step = calls[x].step /\ Beside(c)[x].op = calls[x].op
           /\ Beside(c)[x].dev = calls[x].dev /\ Beside(c)[x].tx = calls[x].tx
<1>1. PICK k : k = calls[x] /\ k \in CallState
  BY DEF CallsOK
<1>2. Beside(c)[x] = k \/ Beside(c)[x] = [k EXCEPT !.alone = FALSE]
  BY <1>1 DEF Beside
<1> QED
  BY <1>1, <1>2 DEF CallState

\* What a request begins with.
LEMMA BeginFields ==
    ASSUME AuthInv, NEW c \in Calls, NEW op, NEW step, NEW d, NEW n, NEW u, NEW insts,
           Begin(c, op, step, d, n, u, insts)
    PROVE  /\ calls'[c].step = step /\ calls'[c].op = op /\ calls'[c].dev = d
           /\ \A x \in Calls \ {c} : calls'[x] = Beside(c)[x]
           /\ calls[c].step = "idle"
<1>1. PICK b \in BOOLEAN : b = (\A x \in Calls : calls[x].step = "idle")
  OBVIOUS
<1>2. PICK k : k = [IdleCall EXCEPT !.op = op, !.step = step, !.dev = d, !.att = n, !.user = u,
                                    !.insts = insts, !.alone = b]
  OBVIOUS
<1>3. calls' = [Beside(c) EXCEPT ![c] = k]
  BY <1>1, <1>2 DEF Begin
<1>4. Beside(c) \in [Calls -> CallState]
  BY BesideOK DEF AuthInv
<1>5. calls'[c] = k /\ \A x \in Calls \ {c} : calls'[x] = Beside(c)[x]
  BY <1>3, <1>4
<1>6. k.step = step /\ k.op = op /\ k.dev = d
  BY <1>2 DEF IdleCall
<1> QED
  BY <1>5, <1>6 DEF Begin

\* A request that neither begins nor takes a step stays where it is, or is lost in a crash.
LEMMA OthersSame ==
    ASSUME AuthInv, AuthNext, NEW x \in Calls, ~CallBegin(x), ~CallStep(x)
    PROVE  \/ calls'[x].step = "idle" /\ Crash
           \/ /\ calls'[x].step = calls[x].step /\ calls'[x].op = calls[x].op
              /\ calls'[x].dev = calls[x].dev /\ calls'[x].tx = calls[x].tx
<1>0. CallsOK
  BY DEF AuthInv
<1>1. ASSUME NEW c \in Calls, CallBegin(c)
      PROVE  calls'[x] = Beside(c)[x]
  <2>1. x # c
    BY <1>1
  <2>2. PICK op, step, d, n, u, insts : Begin(c, op, step, d, n, u, insts)
    BY <1>1, SomeBegin
  <2> QED
    BY <2>1, <2>2, BeginFields
<1>2. ASSUME NEW c \in Calls, CallStep(c)
      PROVE  calls'[x] = calls[x]
  BY <1>2, StepShape
<1>3. ASSUME Disturb
      PROVE  calls'[x] = Beside(None)[x]
  BY <1>3 DEF Disturb
<1>4. CASE Crash
  BY <1>4 DEF Crash, IdleCall
<1>5. CASE \E n \in Attempts : \/ CallbackRefused(n) \/ CompleteExpired(n) \/ SessionExpired(n)
                               \/ \E d \in Devices : StartMobileAuth(d, n) \/ SignOut(d, n)
  <2>1. Disturb
    BY <1>5 DEF CallbackRefused, CompleteExpired, SessionExpired, StartMobileAuth, SignOut
  <2> QED
    BY <1>0, <1>3, <2>1, BesideSame
<1>6. CASE \E c \in Calls : CallBegin(c)
  BY <1>0, <1>1, <1>6, BesideSame
<1>7. CASE \E c \in Calls : CallStep(c)
  BY <1>2, <1>7
<1> QED
  BY <1>4, <1>5, <1>6, <1>7 DEF AuthNext

\* Nothing but its own steps happens beside a request that is still alone.
LEMMA AloneOthers ==
    ASSUME AuthInv, AloneInv, AuthNext, NEW x \in Calls, calls'[x].alone, calls'[x].step # "idle"
    PROVE  CallBegin(x) \/ CallStep(x)
<1> SUFFICES ASSUME ~CallBegin(x), ~CallStep(x)
             PROVE  FALSE
  OBVIOUS
<1>1. ASSUME NEW c \in Calls, CallBegin(c)
      PROVE  FALSE
  <2>1. /\ calls'[x].step = calls[x].step
        /\ calls[x].step # "idle" => ~calls'[x].alone
    BY <1>1, BeginShape, SomeBegin, BeginAlone
  <2> QED
    BY <2>1
<1>2. ASSUME NEW c \in Calls, CallStep(c)
      PROVE  FALSE
  <2>1. calls'[x] = calls[x] /\ calls[c].step # "idle"
    BY <1>2, StepActive, StepShape
  <2> QED
    BY <1>2, <2>1 DEF AloneInv
<1>3. CASE \E n \in Attempts : \/ CallbackRefused(n) \/ CompleteExpired(n) \/ SessionExpired(n)
                               \/ \E d \in Devices : StartMobileAuth(d, n) \/ SignOut(d, n)
  <2>1. Disturb
    BY <1>3 DEF CallbackRefused, CompleteExpired, SessionExpired, StartMobileAuth, SignOut
  <2>2. calls'[x].step = calls[x].step
    BY <2>1, DisturbShape
  <2>3. calls[x].step # "idle" => ~calls'[x].alone
    BY <2>1, BesideAlone, AuthAssumption DEF AuthInv, Disturb
  <2> QED
    BY <2>2, <2>3
<1>4. CASE Crash
  BY <1>4 DEF Crash, IdleCall
<1> QED
  BY <1>1, <1>2, <1>3, <1>4 DEF AuthNext

\* The requests that end a session, and the one that creates one.
LEMMA SessionSteps ==
    ASSUME AuthNext
    PROVE  \/ UNCHANGED sessions
           \/ sessions' \subseteq sessions /\ (Upset \/ Disturb)
           \/ \E c \in Calls : CommitSession(c) \/ CommitRevoke(c)
<1>1. ASSUME NEW c \in Calls, CallBegin(c)
      PROVE  UNCHANGED sessions \/ (sessions' \subseteq sessions /\ Upset)
  <2>1. PICK n \in Attempts : \/ CallbackBegin(c, n) \/ CompleteBegin(c, n) \/ LeaseBegin(c, n)
                              \/ RegisterBegin(c, n) \/ RevokeBegin(c, n) \/ RevokeAllBegin(c, n)
    BY <1>1 DEF CallBegin
  <2>2. CASE RevokeBegin(c, n)
    BY <2>2 DEF RevokeBegin
  <2>3. CASE ~RevokeBegin(c, n)
    BY <2>1, <2>3 DEF CallbackBegin, CompleteBegin, LeaseBegin, RegisterBegin, RevokeAllBegin, rows
  <2> QED
    BY <2>2, <2>3
<1>2. ASSUME NEW c \in Calls, CallStep(c), ~CommitSession(c), ~CommitRevoke(c)
      PROVE  UNCHANGED sessions
  <2>1. CASE (\E u \in Users : CallbackStore(c, u)) \/ CallbackFault(c)
    BY <2>1 DEF CallbackStore, CallbackFault, rows
  <2>2. CASE LeaseGet(c) \/ LeaseRefresh(c) \/ LeasePut(c)
    BY <2>2 DEF LeaseGet, LeaseRefresh, LeasePut, rows
  <2>3. CASE CreateSession(c) \/ CompleteUndo(c) \/ RegisterUpsert(c)
    BY <2>3 DEF CreateSession, CompleteUndo, RegisterUpsert, rows
  <2>4. CASE \/ RevokeBinding(c) \/ RevokeDevice(c) \/ RevokeTargets(c) \/ RevokeInstalls(c)
             \/ RevokeList(c)
    BY <2>4 DEF RevokeBinding, RevokeDevice, RevokeTargets, RevokeInstalls, RevokeList, rows
  <2>5. CASE \/ RevokeUnregister(c) \/ RevokeDeliveries(c) \/ RevokeInstallation(c)
             \/ RevokeAccount(c)
    BY <2>5 DEF RevokeUnregister, RevokeDeliveries, RevokeInstallation, RevokeAccount, rows
  <2> QED
    BY <1>2, <2>1, <2>2, <2>3, <2>4, <2>5 DEF CallStep
<1>3. ASSUME NEW n \in Attempts,
             \/ CallbackRefused(n) \/ CompleteExpired(n) \/ SessionExpired(n)
             \/ \E d \in Devices : StartMobileAuth(d, n) \/ SignOut(d, n)
      PROVE  sessions' \subseteq sessions /\ Disturb
  BY <1>3 DEF CallbackRefused, CompleteExpired, SessionExpired, StartMobileAuth, SignOut
<1>4. CASE Crash
  BY <1>4 DEF Crash, rows
<1> QED
  BY <1>1, <1>2, <1>3, <1>4 DEF AuthNext

\* The unique index: a session is committed only where no other one is left.
LEMMA OneSessionStep ==
    ASSUME AuthInv, OneSession, AuthNext
    PROVE  OneSession'
<1>0. sessions \subseteq Attempts /\ \A n \in sessions : owner[n] # None
  BY DEF AuthInv, TablesOK
<1>1. \A n \in sessions : Inst(n)' = Inst(n)
  BY <1>0, OwnersGrow
<1>2. ASSUME sessions' \subseteq sessions
      PROVE  OneSession'
  BY <1>1, <1>2 DEF OneSession
<1>3. ASSUME NEW c \in Calls, CommitSession(c), ~(sessions' \subseteq sessions)
      PROVE  OneSession'
  <2>1. PICK n, tx : n = calls[c].att /\ tx = calls[c].tx
    OBVIOUS
  <2>2. /\ sessions' = (sessions \ (tx.s \cup tx.c)) \cup {n}
        /\ (sessions \cap OfInstallation(Inst(n))) \ tx.s = {}
        /\ UNCHANGED owner
    BY <1>3, <2>1 DEF CommitSession
  <2>3. \A m : Inst(m)' = Inst(m)
    BY <2>2 DEF Inst
  <2>4. \A m \in sessions' \ {n} : m \in sessions /\ Inst(m) # Inst(n)
    BY <1>0, <2>2 DEF OfInstallation
  <2> QED
    BY <2>3, <2>4 DEF OneSession
<1>4. ASSUME NEW c \in Calls, CommitRevoke(c)
      PROVE  sessions' \subseteq sessions
  BY <1>4 DEF CommitRevoke, rows
<1> QED
  BY <1>2, <1>3, <1>4, SessionSteps

\* What the invariant says of one request.
Fits(k) == OpFits(k) /\ TxFits(k) /\ AloneFits(k)

\* At most of its steps nothing is asked of a request.
LEMMA FitsFree ==
    ASSUME NEW c, calls'[c].step \notin Leasing \cup {"create", "commit", "device", "undeliver", "revoke"}
    PROVE  Fits(calls[c])'
<1>1. PICK step : step = calls'[c].step
  OBVIOUS
<1>2. step \notin Leasing /\ step \notin {"create", "commit", "device", "undeliver", "revoke"}
  BY <1>1
<1>3. OpFits(calls[c])' /\ TxFits(calls[c])'
  BY <1>1, <1>2 DEF OpFits, TxFits
<1>4. TxExact(calls[c])' /\ Unregistered(calls[c])'
  BY <1>1, <1>2 DEF TxExact, Unregistered
<1> QED
  BY <1>3, <1>4 DEF Fits, AloneFits

\* A request that begins.
LEMMA BeginFits ==
    ASSUME AuthInv, OneSession, NEW c \in Calls, CallBegin(c)
    PROVE  Fits(calls[c])'
<1> DEFINE Ended(d) == \E m \in sessions : /\ owner[m] = d /\ d # None /\ sessions' = sessions \ {m}
                                           /\ UNCHANGED owner
           Starts(op, step, d) ==
               /\ step \notin {"create", "commit", "undeliver", "revoke", "refresh", "put"}
               /\ step = "get" => op \in {"complete", "lease", "register"}
               /\ op = "revoke" /\ step = "device" => Ended(d)
<1>1. PICK op, step, d, n, u, insts : Begin(c, op, step, d, n, u, insts) /\ Starts(op, step, d)
  <2>1. PICK n \in Attempts : \/ CallbackBegin(c, n) \/ CompleteBegin(c, n) \/ LeaseBegin(c, n)
                              \/ RegisterBegin(c, n) \/ RevokeBegin(c, n) \/ RevokeAllBegin(c, n)
    BY DEF CallBegin
  <2>2. CASE CallbackBegin(c, n) \/ CompleteBegin(c, n) \/ LeaseBegin(c, n)
    BY <2>2 DEF CallbackBegin, CompleteBegin, LeaseBegin
  <2>3. CASE RegisterBegin(c, n)
    BY <2>3 DEF RegisterBegin
  <2>4. CASE RevokeBegin(c, n)
    <3>1. PICK step : /\ step \in {"unregister", "binding", "device"}
                      /\ Begin(c, "revoke", step, owner[n], None, None, {Installation[owner[n]]})
                      /\ step = "device" => Ended(owner[n])
      BY <2>4 DEF RevokeBegin
    <3> QED
      BY <3>1
  <2>5. CASE RevokeAllBegin(c, n)
    <3>1. PICK step, u :
                /\ step \in {"targets", "binding"}
                /\ Begin(c, "revokeAll", step, owner[n], None, u, {Installation[owner[n]]})
      BY <2>5 DEF RevokeAllBegin
    <3> QED
      BY <3>1
  <2> QED
    BY <2>1, <2>2, <2>3, <2>4, <2>5
<1>2. calls'[c].step = step /\ calls'[c].op = op /\ calls'[c].dev = d
  BY <1>1, BeginFields
<1>3. ASSUME op = "revoke", step = "device"
      PROVE  sessions' \cap OfInstallation(Installation[d])' = {}
  <2>1. PICK m \in sessions : /\ owner[m] = d /\ d # None /\ sessions' = sessions \ {m}
                              /\ UNCHANGED owner
    BY <1>1, <1>3
  <2>2. Inst(m) = Installation[d] /\ \A x : Inst(x)' = Inst(x)
    BY <2>1 DEF Inst
  <2>3. \A x \in sessions' : Inst(x) # Installation[d]
    BY <2>1, <2>2 DEF OneSession
  <2> QED
    BY <2>2, <2>3 DEF OfInstallation
<1>4. OpFits(calls[c])' /\ TxFits(calls[c])'
  BY <1>1, <1>2 DEF OpFits, TxFits, Leasing
<1>5. TxExact(calls[c])'
  BY <1>1, <1>2 DEF TxExact
<1>6. Unregistered(calls[c])'
  BY <1>1, <1>2, <1>3 DEF Unregistered
<1> QED
  BY <1>4, <1>5, <1>6 DEF Fits, AloneFits

\* The lease leads to the session of a sign-in only.
LEMMA LeaseFits ==
    ASSUME AuthInv, NEW c \in Calls, Fits(calls[c]), LeaseGet(c) \/ LeaseRefresh(c) \/ LeasePut(c)
    PROVE  Fits(calls[c])'
<1>1. PICK k : k = calls[c] /\ k \in CallState /\ calls = [x \in Calls |-> calls[x]]
  BY DEF AuthInv, CallsOK
<1>2. k.step \in Leasing
  BY <1>1 DEF LeaseGet, LeaseRefresh, LeasePut, Leasing
<1>3. k.op \in {"complete", "lease", "register"}
  BY <1>1, <1>2 DEF Fits, OpFits
<1> DEFINE Next == /\ calls'[c].step \in {"idle", "upsert", "create", "unused", "put", "refresh"}
                   /\ calls'[c].step \in {"put", "refresh"} => calls'[c].op = k.op
                   /\ calls'[c].step = "create" => calls'[c].op = "complete"
<1>4. ASSUME LeaseDone(c) \/ LeaseFailed(c)
      PROVE  Next
  <2>1. PICK step \in {"create", "unused"} : LeaseReturn(c, step)
    BY <1>4 DEF LeaseDone, LeaseFailed
  <2> QED
    BY <1>1, <1>3, <2>1 DEF LeaseReturn, Answer, IdleCall, CallState
<1>5. ASSUME ~(LeaseDone(c) \/ LeaseFailed(c))
      PROVE  Next
  BY <1>1, <1>5 DEF LeaseGet, LeaseRefresh, LeasePut, Goto, CallState
<1>6. Next
  BY <1>4, <1>5
<1>7. OpFits(calls[c])' /\ TxFits(calls[c])'
  BY <1>3, <1>6 DEF OpFits, TxFits, Leasing
<1>8. TxExact(calls[c])' /\ Unregistered(calls[c])'
  BY <1>6 DEF TxExact, Unregistered
<1> QED
  BY <1>7, <1>8 DEF Fits, AloneFits

\* What a transaction has seen.
LEMMA TxSeen ==
    ASSUME NEW p, NEW h, NEW s, NEW m, NEW tx, tx = TxOf(p, h, s, m)
    PROVE  /\ tx.p = p /\ tx.h = h /\ tx.s = s /\ m \subseteq tx.c
           /\ \A n \in tx.c \cap sessions : n \in m \/ n \in s
<1>1. /\ tx.p = p /\ tx.h = h /\ tx.s = s
      /\ tx.c = m \cup Orphans(sessions \ s, handoffs \ h)
  BY DEF TxOf
<1> QED
  BY <1>1 DEF Orphans

\* The transaction of a sign-in.
LEMMA CreateFits ==
    ASSUME AuthInv, NEW c \in Calls, Fits(calls[c]), CreateSession(c)
    PROVE  Fits(calls[c])'
<1>1. PICK k : k = calls[c] /\ k \in CallState /\ calls = [x \in Calls |-> calls[x]]
  BY DEF AuthInv, CallsOK
<1>2. k.step = "create" /\ k.op = "complete" /\ UNCHANGED <<rows, creds, owner, push>>
  BY <1>1 DEF CreateSession, Fits, OpFits
<1>3. CASE Goto(c, "unused")
  <2>1. calls'[c].step = "unused"
    BY <1>1, <1>3 DEF Goto, CallState
  <2> QED
    BY <2>1, FitsFree DEF Leasing
<1>4. CASE ~Goto(c, "unused")
  <2>1. PICK old, tx :
          /\ tx = TxOf({}, {}, sessions \ Kept(sessions, k.dev, old), {})
          /\ calls' = [calls EXCEPT ![c].step = "commit",
                                    ![c].tx = [tx EXCEPT !.c = @ \ {k.att}, !.old = old]]
    BY <1>1, <1>4 DEF CreateSession
  <2>2. PICK t : t = [tx EXCEPT !.c = @ \ {k.att}, !.old = old]
    OBVIOUS
  <2>3. t.s = tx.s /\ t.c \subseteq tx.c /\ t.old = old
    BY <2>1, <2>2 DEF TxOf
  <2>4. /\ tx.s = sessions \ Kept(sessions, k.dev, old)
        /\ \A n \in tx.c \cap sessions : n \in tx.s
    BY <2>1, TxSeen
  <2>5. /\ calls'[c].step = "commit" /\ calls'[c].op = "complete" /\ calls'[c].dev = k.dev
        /\ calls'[c].tx = t
    BY <1>1, <1>2, <2>1, <2>2 DEF CallState
  <2>6. t.s \subseteq OfDevice(k.dev)' \cup t.old
    BY <1>2, <2>3, <2>4 DEF Kept, OfDevice
  <2>7. t.c \cap sessions' \subseteq t.s
    BY <1>2, <2>3, <2>4 DEF rows
  <2>8. OpFits(calls[c])' /\ TxFits(calls[c])'
    BY <2>5, <2>6 DEF OpFits, TxFits, Leasing
  <2>9. TxExact(calls[c])' /\ Unregistered(calls[c])'
    BY <2>5, <2>7 DEF TxExact, Unregistered
  <2> QED
    BY <2>8, <2>9 DEF Fits, AloneFits
<1> QED
  BY <1>3, <1>4

\* The transaction of a device's revocation.
LEMMA RevokeFits ==
    ASSUME AuthInv, NEW c \in Calls, Fits(calls[c]), RevokeInstallation(c)
    PROVE  Fits(calls[c])'
<1>1. PICK k : k = calls[c] /\ k \in CallState /\ calls = [x \in Calls |-> calls[x]]
  BY DEF AuthInv, CallsOK
<1>2. k.step = "revoke" /\ k.op = "revoke" /\ UNCHANGED <<rows, creds, owner, push>>
  BY <1>1 DEF RevokeInstallation
<1>3. CASE Answer(c)
  <2>1. calls'[c].step = "idle"
    BY <1>1, <1>3 DEF Answer, IdleCall
  <2> QED
    BY <2>1, FitsFree DEF Leasing
<1>4. CASE ~Answer(c)
  <2>1. PICK mine, tx :
          /\ mine = OfInstallation(Installation[k.dev])
          /\ tx = TxOf(mine \cap pending, mine \cap handoffs, mine \cap sessions, {})
          /\ calls' = [calls EXCEPT ![c].step = "commit", ![c].tx = tx]
    BY <1>1, <1>4 DEF RevokeInstallation, Fault
  <2>2. /\ calls'[c].step = "commit" /\ calls'[c].op = "revoke" /\ calls'[c].dev = k.dev
        /\ calls'[c].tx = tx /\ calls'[c].insts = k.insts
    BY <1>1, <1>2, <2>1 DEF CallState
  <2>3. calls'[c].alone = k.alone
    BY <1>1, <2>1 DEF CallState
  <2>4. mine = OfInstallation(Installation[k.dev])'
    BY <1>2, <2>1 DEF OfInstallation, Inst
  <2>5. /\ tx.p = mine \cap pending /\ tx.h = mine \cap handoffs /\ tx.s = mine \cap sessions
        /\ tx.c \cap sessions \subseteq tx.s
    BY <2>1, TxSeen
  <2>6. OpFits(calls[c])' /\ TxFits(calls[c])'
    BY <2>2, <2>4, <2>5 DEF OpFits, TxFits, Leasing
  <2>7. TxExact(calls[c])'
    BY <1>2, <2>2, <2>4, <2>5 DEF TxExact, rows
  <2>8. k.alone => Unregistered(calls[c])'
    <3> SUFFICES ASSUME k.alone
                 PROVE  Unregistered(calls[c])'
      OBVIOUS
    <3>1. /\ regs[Installation[k.dev]] = None /\ k.insts = {Installation[k.dev]}
          /\ k.insts \cap queued = {}
      BY <1>1, <1>2 DEF Fits, AloneFits, Unregistered
    <3> QED
      BY <1>2, <2>2, <3>1 DEF Unregistered, push
  <2> QED
    BY <2>3, <2>6, <2>7, <2>8 DEF Fits, AloneFits
<1> QED
  BY <1>3, <1>4

\* The transaction of an account's revocation.
LEMMA AccountFits ==
    ASSUME AuthInv, NEW c \in Calls, Fits(calls[c]), RevokeAccount(c)
    PROVE  Fits(calls[c])'
<1>1. PICK k : k = calls[c] /\ k \in CallState /\ calls = [x \in Calls |-> calls[x]]
  BY DEF AuthInv, CallsOK
<1>2. k.step = "revoke" /\ k.op = "revokeAll" /\ UNCHANGED <<rows, creds, owner, push>>
  BY <1>1 DEF RevokeAccount
<1>3. CASE Answer(c)
  <2>1. calls'[c].step = "idle"
    BY <1>1, <1>3 DEF Answer, IdleCall
  <2> QED
    BY <2>1, FitsFree DEF Leasing
<1>4. CASE ~Answer(c)
  <2> DEFINE mine == OfUser(k.user)
             insts == k.insts \cup {Inst(n) : n \in mine \cap sessions}
             at == UNION {OfInstallation(i) : i \in insts}
  <2>0. PICK tx : tx = TxOf(at \cap pending, (mine \cup at) \cap handoffs, mine \cap sessions, mine)
    OBVIOUS
  <2>1. calls' = [calls EXCEPT ![c].step = "commit", ![c].tx = tx]
    BY <1>1, <1>4, <2>0 DEF RevokeAccount, Fault
  <2> HIDE DEF insts, at
  <2>2. /\ calls'[c].step = "commit" /\ calls'[c].op = "revokeAll" /\ calls'[c].user = k.user
        /\ calls'[c].tx = tx /\ calls'[c].insts = k.insts
    BY <1>1, <1>2, <2>1 DEF CallState
  <2>3. calls'[c].alone = k.alone
    BY <1>1, <2>1 DEF CallState
  <2>4. mine = OfUser(k.user)'
    BY <1>2 DEF OfUser, Stored
  <2>5. /\ tx.s = mine \cap sessions /\ mine \subseteq tx.c /\ tx.c \cap sessions \subseteq mine
    BY <2>0, TxSeen
  <2>6. OpFits(calls[c])' /\ TxFits(calls[c])'
    BY <2>2, <2>5 DEF OpFits, TxFits, Leasing
  <2>7. TxExact(calls[c])'
    BY <1>2, <2>2, <2>4, <2>5 DEF TxExact, rows
  <2>8. k.alone => Unregistered(calls[c])'
    <3> SUFFICES ASSUME k.alone
                 PROVE  Unregistered(calls[c])'
      OBVIOUS
    <3>1. Registered(k.user) = {} /\ k.insts \cap queued = {}
      BY <1>1, <1>2 DEF Fits, AloneFits, Unregistered
    <3>2. Registered(k.user)' = Registered(k.user)
      BY <1>2 DEF Registered, push
    <3> QED
      BY <1>2, <2>2, <3>1, <3>2 DEF Unregistered, push
  <2> QED
    BY <2>3, <2>6, <2>7, <2>8 DEF Fits, AloneFits
<1> QED
  BY <1>3, <1>4

\* An unknown token revokes where no row is left.
LEMMA BindingFits ==
    ASSUME AuthInv, NEW c \in Calls, RevokeBinding(c)
    PROVE  Fits(calls[c])'
<1>1. PICK k : k = calls[c] /\ k \in CallState /\ calls = [x \in Calls |-> calls[x]]
  BY DEF AuthInv, CallsOK
<1>2. UNCHANGED <<rows, creds, owner, push>>
  BY DEF RevokeBinding
<1>3. CASE Answer(c)
  <2>1. calls'[c].step = "idle"
    BY <1>1, <1>3 DEF Answer, IdleCall
  <2> QED
    BY <2>1, FitsFree DEF Leasing
<1>4. CASE ~Answer(c)
  <2>1. Goto(c, "device") /\ Artifacts(Installation[k.dev]) = {}
    BY <1>1, <1>4 DEF RevokeBinding, Fault
  <2>2. calls'[c].step = "device" /\ calls'[c].dev = k.dev
    BY <1>1, <2>1 DEF Goto, CallState
  <2>3. OfInstallation(Installation[k.dev])' = OfInstallation(Installation[k.dev])
    BY <1>2 DEF OfInstallation, Inst
  <2>4. sessions' \cap OfInstallation(Installation[k.dev])' = {}
    BY <1>2, <2>1, <2>3 DEF Artifacts, rows
  <2>5. OpFits(calls[c])' /\ TxFits(calls[c])'
    BY <2>2 DEF OpFits, TxFits, Leasing
  <2>6. TxExact(calls[c])' /\ Unregistered(calls[c])'
    BY <2>2, <2>4 DEF TxExact, Unregistered
  <2> QED
    BY <2>5, <2>6 DEF Fits, AloneFits
<1> QED
  BY <1>3, <1>4

\* The registrations of a revocation are gone.
LEMMA UnregisterFits ==
    ASSUME AuthInv, NEW c \in Calls, RevokeUnregister(c)
    PROVE  Fits(calls[c])'
<1>1. PICK k : k = calls[c] /\ k \in CallState /\ calls = [x \in Calls |-> calls[x]]
  BY DEF AuthInv, CallsOK
<1>2. k.step = "unregister" /\ k.dev \in Devices
  BY <1>1 DEF RevokeUnregister, AuthInv, CallsOK, CallOK
<1>3. CASE Answer(c)
  <2>1. calls'[c].step = "idle"
    BY <1>1, <1>3 DEF Answer, IdleCall
  <2> QED
    BY <2>1, FitsFree DEF Leasing
<1>4. CASE ~Answer(c)
  <2>0. PICK gone :
          gone = IF k.op = "revokeAll" THEN k.insts \cup Registered(k.user) ELSE {Installation[k.dev]}
    OBVIOUS
  <2>1. /\ regs' = [i \in Installations |-> IF i \in gone THEN None ELSE regs[i]]
        /\ calls' = [calls EXCEPT ![c].step = "undeliver", ![c].insts = gone]
    BY <1>1, <1>4, <2>0 DEF RevokeUnregister, Fault
  <2>2. /\ calls'[c].step = "undeliver" /\ calls'[c].op = k.op /\ calls'[c].dev = k.dev
        /\ calls'[c].user = k.user /\ calls'[c].insts = gone
    BY <1>1, <2>1 DEF CallState
  <2>3. k.op = "revoke" => regs'[Installation[k.dev]] = None /\ gone = {Installation[k.dev]}
    BY <1>2, <2>0, <2>1 DEF Installations
  <2>4. k.op = "revokeAll" => Registered(k.user)' = {}
    BY <2>0, <2>1 DEF Registered
  <2>5. OpFits(calls[c])' /\ TxFits(calls[c])'
    BY <2>2 DEF OpFits, TxFits, Leasing
  <2>6. TxExact(calls[c])'
    BY <2>2 DEF TxExact
  <2>7. Unregistered(calls[c])'
    BY <2>2, <2>3, <2>4 DEF Unregistered
  <2> QED
    BY <2>5, <2>6, <2>7 DEF Fits, AloneFits
<1> QED
  BY <1>3, <1>4

\* So are the deliveries.
LEMMA DeliveriesFit ==
    ASSUME AuthInv, NEW c \in Calls, Fits(calls[c]), RevokeDeliveries(c)
    PROVE  Fits(calls[c])'
<1>1. PICK k : k = calls[c] /\ k \in CallState /\ calls = [x \in Calls |-> calls[x]]
  BY DEF AuthInv, CallsOK
<1>2. k.step = "undeliver" /\ UNCHANGED <<rows, creds, owner, regs>>
  BY <1>1 DEF RevokeDeliveries
<1>3. CASE Answer(c)
  <2>1. calls'[c].step = "idle"
    BY <1>1, <1>3 DEF Answer, IdleCall
  <2> QED
    BY <2>1, FitsFree DEF Leasing
<1>4. CASE ~Answer(c)
  <2>1. Goto(c, "revoke") /\ queued' = queued \ k.insts
    BY <1>1, <1>4 DEF RevokeDeliveries, Fault
  <2>2. /\ calls'[c].step = "revoke" /\ calls'[c].op = k.op /\ calls'[c].dev = k.dev
        /\ calls'[c].user = k.user /\ calls'[c].insts = k.insts
    BY <1>1, <2>1 DEF Goto, CallState
  <2>3. calls'[c].alone = k.alone
    BY <1>1, <2>1 DEF Goto, CallState
  <2>4. OpFits(calls[c])' /\ TxFits(calls[c])' /\ TxExact(calls[c])'
    BY <2>2 DEF OpFits, TxFits, TxExact, Leasing
  <2>5. k.alone => Unregistered(calls[c])'
    <3> SUFFICES ASSUME k.alone
                 PROVE  Unregistered(calls[c])'
      OBVIOUS
    <3>1. /\ k.op = "revoke" => regs[Installation[k.dev]] = None /\ k.insts = {Installation[k.dev]}
          /\ k.op = "revokeAll" => Registered(k.user) = {}
      BY <1>1, <1>2 DEF Fits, AloneFits, Unregistered
    <3>2. Registered(k.user)' = Registered(k.user)
      BY <1>2 DEF Registered
    <3>3. k.insts \cap queued' = {}
      BY <2>1
    <3> QED
      BY <1>2, <2>2, <3>1, <3>2, <3>3 DEF Unregistered
  <2> QED
    BY <2>3, <2>4, <2>5 DEF Fits, AloneFits
<1> QED
  BY <1>3, <1>4

\* The other steps lead where nothing is asked.
LEMMA PlainFits ==
    ASSUME AuthInv, NEW c \in Calls,
           \/ \E u \in Users : CallbackStore(c, u)
           \/ CallbackFault(c) \/ CommitSession(c) \/ CompleteUndo(c) \/ RegisterUpsert(c)
           \/ RevokeDevice(c) \/ RevokeTargets(c) \/ RevokeInstalls(c) \/ RevokeList(c)
           \/ CommitRevoke(c)
    PROVE  Fits(calls[c])'
<1> DEFINE Free == {"idle", "unused", "unregister", "targets", "installs", "list"}
<1>1. PICK k : k = calls[c] /\ k \in CallState /\ calls = [x \in Calls |-> calls[x]]
  BY DEF AuthInv, CallsOK
<1>2. Answer(c) => calls'[c].step = "idle"
  BY <1>1 DEF Answer, IdleCall
<1>3. \A step : Goto(c, step) => calls'[c].step = step
  BY <1>1 DEF Goto, CallState
<1>4. ASSUME (\E u \in Users : CallbackStore(c, u)) \/ CallbackFault(c) \/ CompleteUndo(c)
             \/ RegisterUpsert(c) \/ CommitRevoke(c)
      PROVE  calls'[c].step \in Free
  BY <1>2, <1>4 DEF CallbackStore, CallbackFault, CompleteUndo, RegisterUpsert, CommitRevoke
<1>5. ASSUME CommitSession(c)
      PROVE  calls'[c].step \in Free
  BY <1>2, <1>3, <1>5 DEF CommitSession
<1>6. ASSUME RevokeDevice(c)
      PROVE  calls'[c].step \in Free
  <2>1. CASE Answer(c)
    BY <1>2, <2>1
  <2>2. CASE calls' = [calls EXCEPT ![c].step = "unregister"]
    BY <1>1, <2>2 DEF CallState
  <2>3. CASE calls' = [calls EXCEPT ![c].step = "targets",
                                    ![c].user = regs[Installation[calls[c].dev]].user]
    BY <1>1, <2>3 DEF CallState
  <2> QED
    BY <1>6, <2>1, <2>2, <2>3 DEF RevokeDevice, Fault
<1>7. ASSUME RevokeTargets(c)
      PROVE  calls'[c].step \in Free
  <2>1. CASE Answer(c)
    BY <1>2, <2>1
  <2>2. CASE ~Answer(c)
    <3>1. PICK todo : calls' = [calls EXCEPT ![c].step = "installs", ![c].todo = todo]
      BY <1>7, <2>2 DEF RevokeTargets, Fault
    <3> QED
      BY <1>1, <3>1 DEF CallState
  <2> QED
    BY <2>1, <2>2
<1>8. ASSUME RevokeInstalls(c)
      PROVE  calls'[c].step \in Free
  <2>1. CASE Answer(c)
    BY <1>2, <2>1
  <2>2. CASE ~Answer(c)
    <3>1. PICK found : calls' = [calls EXCEPT ![c].step = "list", ![c].insts = @ \cup found]
      BY <1>8, <2>2 DEF RevokeInstalls, Fault
    <3> QED
      BY <1>1, <3>1 DEF CallState
  <2> QED
    BY <2>1, <2>2
<1>9. ASSUME RevokeList(c)
      PROVE  calls'[c].step \in Free
  <2>1. PICK insts : calls' = [calls EXCEPT ![c].step = "unregister", ![c].todo = {},
                                            ![c].insts = @ \cup insts]
    BY <1>9 DEF RevokeList
  <2> QED
    BY <1>1, <2>1 DEF CallState
<1>10. calls'[c].step \in Free
  BY <1>4, <1>5, <1>6, <1>7, <1>8, <1>9
<1> QED
  BY <1>10, FitsFree DEF Leasing

\* Every step keeps the invariant.
LEMMA RevokeStep ==
    ASSUME AuthInv, AloneInv, RevokeInv, AuthNext
    PROVE  RevokeInv'
<1>0. OneSession /\ \A c \in Calls : Fits(calls[c])
  BY DEF RevokeInv, Fits
<1>1. OneSession'
  BY <1>0, OneSessionStep
<1>2. ASSUME NEW c \in Calls, CallBegin(c)
      PROVE  Fits(calls[c])'
  BY <1>0, <1>2, BeginFits
<1>3. ASSUME NEW c \in Calls, CallStep(c)
      PROVE  Fits(calls[c])'
  <2>1. Fits(calls[c])
    BY <1>0
  <2>2. CASE LeaseGet(c) \/ LeaseRefresh(c) \/ LeasePut(c)
    BY <2>1, <2>2, LeaseFits
  <2>3. CASE CreateSession(c) \/ RevokeInstallation(c) \/ RevokeAccount(c)
    BY <2>1, <2>3, CreateFits, RevokeFits, AccountFits
  <2>4. CASE RevokeBinding(c) \/ RevokeUnregister(c) \/ RevokeDeliveries(c)
    BY <2>1, <2>4, BindingFits, UnregisterFits, DeliveriesFit
  <2>5. CASE \/ \E u \in Users : CallbackStore(c, u)
             \/ CallbackFault(c) \/ CommitSession(c) \/ CompleteUndo(c) \/ RegisterUpsert(c)
             \/ RevokeDevice(c) \/ RevokeTargets(c) \/ RevokeInstalls(c) \/ RevokeList(c)
             \/ CommitRevoke(c)
    BY <2>5, PlainFits
  <2> QED
    BY <1>3, <2>2, <2>3, <2>4, <2>5 DEF CallStep
<1>4. ASSUME NEW c \in Calls, ~CallBegin(c), ~CallStep(c)
      PROVE  Fits(calls[c])'
  <2>1. CASE calls'[c].step = "idle"
    BY <2>1, FitsFree DEF Leasing
  <2>2. CASE calls'[c].step # "idle"
    <3>1. ~calls'[c].alone
      BY <1>4, <2>2, AloneOthers
    <3>2. /\ calls'[c].step = calls[c].step /\ calls'[c].op = calls[c].op
          /\ calls'[c].dev = calls[c].dev /\ calls'[c].tx = calls[c].tx
      BY <1>4, <2>2, OthersSame
    <3>3. calls[c].dev \in Devices /\ Installation[calls[c].dev] \in Installations
      BY <2>2, <3>2 DEF AuthInv, CallsOK, CallOK, Installations
    <3>4. OpFits(calls[c]) /\ TxFits(calls[c])
      BY <1>0 DEF Fits
    <3>5. OpFits(calls[c])'
      BY <3>2, <3>4 DEF OpFits, Leasing
    <3>6. TxFits(calls[c])'
      <4>1. /\ OfDevice(calls[c].dev) \subseteq OfDevice(calls[c].dev)'
            /\ OfInstallation(Installation[calls[c].dev]) \subseteq OfInstallation(Installation[calls[c].dev])'
        <5>1. PICK d : d = calls[c].dev /\ d = calls'[c].dev
          BY <3>2
        <5>2. OfDevice(d) \subseteq OfDevice(d)'
          BY <3>3, <5>1, OwnersGrow
        <5>3. OfInstallation(Installation[d]) \subseteq OfInstallation(Installation[d])'
          BY <3>3, <5>1, OwnersGrow
        <5> QED
          BY <5>1, <5>2, <5>3
      <4> QED
        BY <3>2, <3>4, <4>1 DEF TxFits
    <3> QED
      BY <3>1, <3>5, <3>6 DEF Fits, AloneFits
  <2> QED
    BY <2>1, <2>2
<1> QED
  BY <1>1, <1>2, <1>3, <1>4 DEF RevokeInv, Fits

\* What the transactions of sign-ins and revocations saw, for every step of every request.
THEOREM RevokeInvariant == AuthSpec => [](AloneInv /\ RevokeInv)
<1>1. AuthInit => AloneInv /\ RevokeInv
  <2> SUFFICES ASSUME AuthInit PROVE AloneInv /\ RevokeInv
    OBVIOUS
  <2>1. sessions = {} /\ \A c \in Calls : calls[c].step = "idle"
    BY DEF AuthInit, IdleCall
  <2>2. AloneInv /\ OneSession
    BY <2>1 DEF AloneInv, OneSession
  <2>3. \A c \in Calls : OpFits(calls[c]) /\ TxFits(calls[c])
    BY <2>1 DEF OpFits, TxFits, Leasing
  <2>4. \A c \in Calls : TxExact(calls[c]) /\ Unregistered(calls[c])
    BY <2>1 DEF TxExact, Unregistered
  <2> QED
    BY <2>2, <2>3, <2>4 DEF RevokeInv, AloneFits
<1>2. RevokeInv /\ UNCHANGED authVars => RevokeInv'
  <2> SUFFICES ASSUME RevokeInv, UNCHANGED authVars PROVE RevokeInv'
    OBVIOUS
  <2>1. UNCHANGED <<pending, handoffs, sessions, creds, owner, regs, queued, calls>>
    BY DEF authVars, rows, push
  <2>2. OneSession'
    BY <2>1 DEF RevokeInv, OneSession, Inst
  <2>3. \A c \in Calls : OpFits(calls[c])' /\ TxFits(calls[c])'
    BY <2>1 DEF RevokeInv, OpFits, TxFits, OfDevice, OfInstallation, Inst
  <2>4. \A c \in Calls : TxExact(calls[c])' = TxExact(calls[c])
    BY <2>1 DEF TxExact, OfInstallation, Inst, OfUser, Stored
  <2>5. \A c \in Calls : Unregistered(calls[c])' = Unregistered(calls[c])
    BY <2>1 DEF Unregistered, OfInstallation, Inst, Registered
  <2>6. \A c \in Calls : AloneFits(calls[c])'
    BY <2>1, <2>4, <2>5 DEF RevokeInv, AloneFits
  <2> QED
    BY <2>2, <2>3, <2>6 DEF RevokeInv
<1>3. AloneInv /\ UNCHANGED authVars => AloneInv'
  BY DEF authVars, AloneInv
<1>4. AuthInv /\ AloneInv /\ RevokeInv /\ [AuthNext]_authVars => (AloneInv /\ RevokeInv)'
  BY <1>2, <1>3, AloneStep, RevokeStep
<1> QED
  BY <1>1, <1>4, AuthInvariant, PTL DEF AuthSpec

\* The commit of a sign-in ends sessions of its device and expired ones.
LEMMA SignInEnds ==
    ASSUME AuthInv, RevokeInv, NEW c \in Calls, CommitSession(c), NEW n \in sessions \ sessions'
    PROVE  /\ calls[c].step = "commit" /\ calls'[c].step # "commit"
           /\ \/ Inst(n) = Installation[calls[c].dev] /\ calls[c].att \in sessions'
              \/ n \in calls[c].tx.old
              \/ n \in calls[c].tx.c /\ ~calls[c].alone
<1>1. PICK k : k = calls[c] /\ k \in CallState /\ calls = [x \in Calls |-> calls[x]]
  BY DEF AuthInv, CallsOK
<1>2. /\ k.step = "commit" /\ k.op = "complete"
      /\ sessions' = (sessions \ (k.tx.s \cup k.tx.c)) \cup {k.att} /\ Answer(c)
  BY <1>1 DEF CommitSession
<1>3. calls'[c].step = "idle"
  BY <1>1, <1>2 DEF Answer, IdleCall
<1>4. k.dev \in Devices /\ None \notin Devices
  BY <1>1, <1>2, AuthAssumption DEF AuthInv, CallsOK, CallOK
<1>5. k.tx.s \subseteq OfDevice(k.dev) \cup k.tx.old
  BY <1>1, <1>2 DEF RevokeInv, TxFits
<1>6. k.alone => k.tx.c \cap sessions \subseteq k.tx.s
  BY <1>1, <1>2 DEF RevokeInv, AloneFits, TxExact
<1>7. \A m \in OfDevice(k.dev) : Inst(m) = Installation[k.dev]
  BY <1>4 DEF OfDevice, Inst
<1>8. k.att \in sessions' /\ (n \in k.tx.s \/ n \in k.tx.c)
  BY <1>2
<1> QED
  BY <1>1, <1>2, <1>3, <1>5, <1>6, <1>7, <1>8

\* The commit of a revocation ends sessions of its installation or its account.
LEMMA RevocationEnds ==
    ASSUME AuthInv, RevokeInv, NEW c \in Calls, CommitRevoke(c), UNCHANGED upsets,
           NEW n \in sessions \ sessions'
    PROVE  /\ calls[c].step = "commit" /\ calls'[c].step # "commit" /\ calls[c].op # "complete"
           /\ \/ Inst(n) = Installation[calls[c].dev]
              \/ calls[c].op = "revokeAll" /\ n \in OfUser(calls[c].user)
              \/ n \in calls[c].tx.c /\ ~calls[c].alone
<1>1. PICK k : k = calls[c] /\ k \in CallState /\ calls = [x \in Calls |-> calls[x]]
  BY DEF AuthInv, CallsOK
<1>2. /\ k.step = "commit" /\ k.op \in {"revoke", "revokeAll"} /\ Answer(c)
      /\ n \in k.tx.s \/ n \in k.tx.c
  BY <1>1 DEF CommitRevoke, rows
<1>3. calls'[c].step = "idle"
  BY <1>1, <1>2 DEF Answer, IdleCall
<1>4. /\ k.op = "revoke" => k.tx.s \subseteq OfInstallation(Installation[k.dev])
      /\ k.op = "revokeAll" => k.tx.s \subseteq k.tx.c
  BY <1>1, <1>2 DEF RevokeInv, TxFits
<1>5. k.alone => /\ k.op = "revoke" => k.tx.c \cap sessions \subseteq k.tx.s
                 /\ k.op = "revokeAll" => k.tx.c \cap sessions \subseteq OfUser(k.user)
  BY <1>1, <1>2 DEF RevokeInv, AloneFits, TxExact
<1>6. \A m \in OfInstallation(Installation[k.dev]) : Inst(m) = Installation[k.dev]
  BY DEF OfInstallation
<1>7. CASE k.op = "revoke"
  BY <1>1, <1>2, <1>3, <1>4, <1>5, <1>6, <1>7
<1>8. CASE k.op = "revokeAll"
  BY <1>1, <1>2, <1>3, <1>4, <1>5, <1>8
<1> QED
  BY <1>2, <1>7, <1>8

\* A session ends by its expiry, by the sign-out or the revocation of its own device, by a
\* new session of that device, by the revocation of its account, or as an orphan of a
\* transaction beside which another request ran.
THEOREM SessionLosses == AuthSpec => SessionLossExplained
<1>1. ASSUME AuthInv, RevokeInv, AuthNext
      PROVE  SessionLossStep
  <2> SUFFICES ASSUME NEW n \in sessions \ sessions', UNCHANGED upsets,
                      ~\A c \in Calls : calls'[c].step = calls[c].step
               PROVE  \E c \in Calls :
                        /\ calls[c].step = "commit" /\ calls'[c].step # "commit"
                        /\ \/ /\ Inst(n) = Installation[calls[c].dev]
                              /\ calls[c].op = "complete" => calls[c].att \in sessions'
                           \/ calls[c].op = "revokeAll" /\ n \in OfUser(calls[c].user)
                           \/ n \in calls[c].tx.old
                           \/ n \in calls[c].tx.c /\ ~calls[c].alone
    BY DEF SessionLossStep
  <2>1. ~Upset
    BY <1>1 DEF Upset, AuthInv
  <2>2. ~Disturb
    BY <1>1, DisturbShape
  <2>3. PICK c \in Calls : CommitSession(c) \/ CommitRevoke(c)
    BY <1>1, <2>1, <2>2, SessionSteps
  <2>4. CASE CommitSession(c)
    BY <1>1, <2>4, SignInEnds
  <2>5. CASE CommitRevoke(c)
    BY <1>1, <2>5, RevocationEnds
  <2> QED
    BY <2>3, <2>4, <2>5
<1>2. AuthInv /\ RevokeInv /\ [AuthNext]_authVars => [SessionLossStep]_authVars
  BY <1>1
<1> QED
  BY <1>2, AuthInvariant, RevokeInvariant, PTL DEF AuthSpec, SessionLossExplained

\* A request that answers without an error has taken its last step.
LEMMA AnswersBy ==
    ASSUME AuthInv, AuthNext, NEW c \in Calls, NEW op, NEW step, step # "idle", Answers(c, op, step)
    PROVE  CallStep(c)
<1>1. /\ calls[c].step # "idle" /\ calls'[c].step = "idle" /\ UNCHANGED upsets
  BY DEF Answers
<1>2. ~CallBegin(c)
  BY <1>1, SomeBegin DEF Begin
<1>3. ~Crash
  BY <1>1 DEF Crash, Upset, AuthInv
<1> QED
  BY <1>1, <1>2, <1>3, OthersSame

\* The last steps of the two revocations.
LEMMA LastStep ==
    ASSUME NEW c \in Calls, CallStep(c)
    PROVE  /\ calls[c].step = "commit" /\ calls[c].op \in {"revoke", "revokeAll"} => CommitRevoke(c)
           /\ calls[c].step = "revoke" /\ calls[c].op = "revoke" => RevokeInstallation(c)
           /\ calls[c].step = "device" => RevokeDevice(c)
<1> DEFINE Late == \/ calls[c].step = "commit" /\ calls[c].op \in {"revoke", "revokeAll"}
                   \/ calls[c].step = "revoke" /\ calls[c].op = "revoke"
                   \/ calls[c].step = "device"
<1>1. ASSUME (\E u \in Users : CallbackStore(c, u)) \/ CallbackFault(c) \/ LeaseGet(c)
             \/ LeaseRefresh(c) \/ LeasePut(c)
      PROVE  ~Late
  BY <1>1 DEF CallbackStore, CallbackFault, LeaseGet, LeaseRefresh, LeasePut
<1>2. ASSUME CreateSession(c) \/ CommitSession(c) \/ CompleteUndo(c) \/ RegisterUpsert(c)
      PROVE  ~Late
  BY <1>2 DEF CreateSession, CommitSession, CompleteUndo, RegisterUpsert
<1>3. ASSUME RevokeBinding(c) \/ RevokeTargets(c) \/ RevokeInstalls(c) \/ RevokeList(c)
      PROVE  ~Late
  BY <1>3 DEF RevokeBinding, RevokeTargets, RevokeInstalls, RevokeList
<1>4. ASSUME RevokeUnregister(c) \/ RevokeDeliveries(c) \/ RevokeAccount(c)
      PROVE  ~Late
  BY <1>4 DEF RevokeUnregister, RevokeDeliveries, RevokeAccount
<1>5. /\ CommitRevoke(c) => calls[c].step = "commit"
      /\ RevokeInstallation(c) => calls[c].step = "revoke"
      /\ RevokeDevice(c) => calls[c].step = "device"
  BY DEF CommitRevoke, RevokeInstallation, RevokeDevice
<1> QED
  BY <1>1, <1>2, <1>3, <1>4, <1>5 DEF CallStep

\* A device's revocation that reaches its commit leaves nothing of the device.
LEMMA CommitRevokes ==
    ASSUME AuthInv, RevokeInv, NEW c \in Calls, CommitRevoke(c), Answers(c, "revoke", "commit"),
           NEW i, i = Installation[calls[c].dev]
    PROVE  /\ (sessions' \cup pending' \cup handoffs') \cap OfInstallation(i) = {}
           /\ regs'[i] = None /\ i \notin queued'
<1>1. PICK k : k = calls[c] /\ k.op = "revoke" /\ k.step = "commit" /\ k.alone /\ upsets' = upsets
  BY DEF Answers
<1>2. TxExact(k) /\ Unregistered(k)
  BY <1>1 DEF RevokeInv, AloneFits
<1>3. /\ OfInstallation(i) \cap pending \subseteq k.tx.p
      /\ OfInstallation(i) \cap handoffs \subseteq k.tx.h
      /\ OfInstallation(i) \cap sessions \subseteq k.tx.s
  BY <1>1, <1>2 DEF TxExact
<1>4. regs[i] = None /\ i \notin queued
  BY <1>1, <1>2 DEF Unregistered
<1>5. ~Upset
  BY <1>1 DEF Upset, AuthInv
<1>6. /\ pending' = pending \ k.tx.p
      /\ handoffs' = handoffs \ (k.tx.h \cup k.tx.c)
      /\ sessions' = sessions \ (k.tx.s \cup k.tx.c)
      /\ UNCHANGED push
  BY <1>1, <1>5 DEF CommitRevoke
<1> QED
  BY <1>3, <1>4, <1>6 DEF push

\* revokeMobileDevice answers 204, with no other request beside it, only when the
\* installation has neither a session nor a registration, and after all of its steps
\* nothing of the device is left.
THEOREM DevicesRevoked == AuthSpec => RevokedOut
<1>1. ASSUME AuthInv, RevokeInv, AuthNext, NEW c \in Calls, NEW i, i = Installation[calls[c].dev],
             Answers(c, "revoke", "commit")
      PROVE  /\ (sessions' \cup pending' \cup handoffs') \cap OfInstallation(i) = {}
             /\ regs'[i] = None /\ i \notin queued'
  <2>1. calls[c].step = "commit" /\ calls[c].op = "revoke"
    BY <1>1 DEF Answers
  <2>2. CommitRevoke(c)
    BY <1>1, <2>1, AnswersBy, LastStep
  <2> QED
    BY <1>1, <2>2, CommitRevokes
<1>2. ASSUME AuthInv, RevokeInv, AuthNext, NEW c \in Calls, NEW i, i = Installation[calls[c].dev],
             Answers(c, "revoke", "revoke"), Artifacts(i) = {}
      PROVE  /\ (sessions' \cup pending' \cup handoffs') \cap OfInstallation(i) = {}
             /\ regs'[i] = None /\ i \notin queued'
  <2>1. calls[c].step = "revoke" /\ calls[c].op = "revoke" /\ calls[c].alone
    BY <1>2 DEF Answers
  <2>2. RevokeInstallation(c)
    BY <1>2, <2>1, AnswersBy, LastStep
  <2>3. UNCHANGED <<rows, push>>
    BY <2>2 DEF RevokeInstallation
  <2>4. Unregistered(calls[c])
    BY <1>2, <2>1 DEF RevokeInv, AloneFits
  <2>5. regs[i] = None /\ i \notin queued
    BY <1>2, <2>1, <2>4 DEF Unregistered
  <2> QED
    BY <1>2, <2>3, <2>5 DEF rows, push, Artifacts
<1>3. ASSUME AuthInv, RevokeInv, AuthNext, NEW c \in Calls, NEW i, i = Installation[calls[c].dev],
             Answers(c, "revoke", "device"), MayUse(calls[c].dev)
      PROVE  sessions' \cap OfInstallation(i) = {} /\ regs'[i] = None
  <2>1. /\ calls[c].step = "device" /\ calls[c].op = "revoke" /\ calls[c].alone
        /\ calls'[c].step = "idle" /\ UNCHANGED upsets
    BY <1>3 DEF Answers
  <2>2. RevokeDevice(c)
    BY <1>3, <2>1, AnswersBy, LastStep
  <2>3. ~Upset
    BY <1>3, <2>1 DEF Upset, AuthInv
  <2>4. calls' # [calls EXCEPT ![c].step = "unregister"]
    BY <1>3, <2>1 DEF AuthInv, CallsOK, CallState
  <2>5. ~HasReg(calls[c].dev) /\ UNCHANGED <<rows, push>>
    BY <2>1, <2>2, <2>3, <2>4 DEF RevokeDevice, Fault
  <2>6. regs[i] = None
    BY <1>3, <2>5 DEF HasReg
  <2>7. sessions \cap OfInstallation(i) = {}
    BY <1>3, <2>1 DEF RevokeInv, AloneFits, Unregistered
  <2> QED
    BY <2>5, <2>6, <2>7 DEF rows, push
<1>4. AuthInv /\ RevokeInv /\ [AuthNext]_authVars => [RevokedStep]_authVars
  BY <1>1, <1>2, <1>3 DEF RevokedStep
<1> QED
  BY <1>4, AuthInvariant, RevokeInvariant, PTL DEF AuthSpec, RevokedOut

\* revokeAllMobileSessions answers 204 after its last step, with no other request beside it,
\* only when the account has no credential and no registration left and no installation
\* that it found keeps deliveries.
THEOREM AccountsRevoked == AuthSpec => RevokedAllOut
<1>1. ASSUME AuthInv, RevokeInv, AuthNext, NEW c \in Calls, Answers(c, "revokeAll", "commit")
      PROVE  /\ \A n \in Attempts : creds'[n] # None => creds'[n].user # calls[c].user
             /\ \A i \in Installations : regs'[i] # None => regs'[i].user # calls[c].user
             /\ calls[c].insts \cap queued' = {}
  <2>1. PICK k : /\ k = calls[c] /\ k.step = "commit" /\ k.op = "revokeAll" /\ k.alone
                 /\ UNCHANGED upsets
    BY <1>1 DEF Answers
  <2>2. CommitRevoke(c)
    BY <1>1, <2>1, AnswersBy, LastStep
  <2>3. TxExact(k) /\ Unregistered(k)
    BY <1>1, <2>1 DEF RevokeInv, AloneFits
  <2>4. /\ OfUser(k.user) \subseteq k.tx.c /\ Registered(k.user) = {}
        /\ k.insts \cap queued = {}
    BY <2>1, <2>3 DEF TxExact, Unregistered
  <2>5. ~Upset
    BY <1>1, <2>1 DEF Upset, AuthInv
  <2>6. creds' = Dropped(k.tx.c) /\ UNCHANGED push
    BY <2>1, <2>2, <2>5 DEF CommitRevoke
  <2>7. \A n \in Attempts : creds'[n] # None => n \notin OfUser(k.user) /\ creds'[n] = creds[n]
    BY <2>4, <2>6 DEF Dropped
  <2>8. \A n \in Attempts : creds'[n] # None => creds'[n].user # k.user
    BY <2>7 DEF OfUser, Stored
  <2>9. \A i \in Installations : regs'[i] # None => regs'[i].user # k.user
    BY <2>4, <2>6 DEF Registered, push
  <2> QED
    BY <2>1, <2>4, <2>6, <2>8, <2>9 DEF push
<1>2. AuthInv /\ RevokeInv /\ [AuthNext]_authVars => [RevokedAllStep]_authVars
  BY <1>1 DEF RevokedAllStep
<1> QED
  BY <1>2, AuthInvariant, RevokeInvariant, PTL DEF AuthSpec, RevokedAllOut
=============================================================================
