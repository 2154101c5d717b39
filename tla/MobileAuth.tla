------------------------------ MODULE MobileAuth ------------------------------
(***************************************************************************)
(* The OAuth broker: sign-in of a mobile device through Twitch, the lease  *)
(* of its access token, registration for push, and the two revocations.    *)
(* Requests are handled concurrently; between two steps of one request     *)
(* (statements, transactions, calls of Twitch) any other request may run.  *)
(*                                                                         *)
(* An OAuth state, a handoff code, a credential and a session token are    *)
(* random and made once for every sign-in, so one name, the attempt, keys  *)
(* the rows of all four tables.  Of a credential its user counts and       *)
(* whether Twitch still honours the refresh token that is stored.  Whether *)
(* a row is past its expiry is chosen by the statement that compares it    *)
(* with the clock.  The hub of sockets and the request to reconcile that   *)
(* end some handlers, and deleteRegistration, are in PushSystem and        *)
(* EventSubSubscriptions.                                                  *)
(***************************************************************************)
EXTENDS Naturals, FiniteSets

CONSTANTS
    Devices,        \* pairs of an installation and a device secret
    Installation,   \* the installation of each device
    Users,          \* Twitch accounts
    Attempts,       \* sign-ins
    Calls,          \* requests in progress
    Stripe,         \* the index of each credential's lock, one of 64 in the code
    None,           \* no value
    MaxPending,     \* 10,000 in the code
    MaxHandoffs,    \* 10,000 in the code
    MaxSessions,    \* 100,000 in the code
    MaxUpsets       \* bound: expiries, failed statements, failures of Twitch and crashes

Installations == {Installation[d] : d \in Devices}

ASSUME AuthAssumption ==
    /\ MaxPending \in Nat /\ MaxHandoffs \in Nat /\ MaxSessions \in Nat
    /\ MaxUpsets \in Nat
    /\ None \notin Devices \cup Users \cup Attempts \cup Calls \cup Installations
    /\ None \notin [user : Users, good : BOOLEAN] \cup [dev : Devices, user : Users]
    /\ Installation \in [Devices -> Installations]

VARIABLES
    pending,    \* auth_pending: the attempts with a row
    handoffs,   \* auth_handoffs
    sessions,   \* auth_sessions
    creds,      \* auth_credentials: the user, and whether the token is good, or None
    owner,      \* the device of each attempt, or None
    regs,       \* push_registrations: device and user of each installation, or None
    queued,     \* installations with rows in deliveries
    calls, upsets

rows == <<pending, handoffs, sessions>>
push == <<regs, queued>>
authVars == <<rows, creds, owner, push, calls, upsets>>

Upset == upsets < MaxUpsets /\ upsets' = upsets + 1

\* What a transaction deletes at its commit; old are the expired sessions in s.
NoTx == [p |-> {}, h |-> {}, s |-> {}, c |-> {}, old |-> {}]

\* A handler's local state: alone says that no other request ran since it began.
IdleCall ==
    [step |-> "idle", op |-> "none", dev |-> None, att |-> None, user |-> None, good |-> TRUE,
     todo |-> {}, insts |-> {}, tx |-> NoTx, alone |-> TRUE]

AuthInit ==
    /\ pending = {} /\ handoffs = {} /\ sessions = {}
    /\ creds = [n \in Attempts |-> None]
    /\ owner = [n \in Attempts |-> None]
    /\ regs = [i \in Installations |-> None]
    /\ queued = {}
    /\ calls = [c \in Calls |-> IdleCall]
    /\ upsets = 0

-----------------------------------------------------------------------------
(* Rows and statements.                                                    *)

Inst(n) == IF owner[n] = None THEN None ELSE Installation[owner[n]]
OfDevice(d) == {n \in Attempts : owner[n] = d}
OfInstallation(i) == {n \in Attempts : Inst(n) = i}
Stored == {n \in Attempts : creds[n] # None}
OfUser(u) == {n \in Stored : creds[n].user = u}

\* The rows that the statements before an insertion leave when those in old are
\* expired: DELETE of the expired ones, DELETE of the device's own.
Kept(table, d, old) == table \ (OfDevice(d) \cup old)
Expired(table, old) == old \subseteq table /\ IF old = {} THEN UNCHANGED upsets ELSE Upset

\* The credentials that no session and no handoff refers to.
Orphans(s, h) == Stored \ (s \cup h)
Dropped(gone) == [n \in Attempts |-> IF n \in gone THEN None ELSE creds[n]]

\* DELETE of the credential unless something refers to it.
DropUnused(n, s) == Dropped({n} \cap Orphans(s, handoffs))

-----------------------------------------------------------------------------
(* The beginning, the steps and the end of a request.                      *)

\* Another request runs beside the ones in progress.
Beside(c) ==
    [x \in Calls |-> IF x = c \/ calls[x].step = "idle" THEN calls[x]
                     ELSE [calls[x] EXCEPT !.alone = FALSE]]
Disturb == calls' = Beside(None)

Begin(c, op, step, d, n, u, insts) ==
    /\ calls[c].step = "idle"
    /\ calls' = [Beside(c) EXCEPT ![c] =
            [IdleCall EXCEPT !.op = op, !.step = step, !.dev = d, !.att = n, !.user = u,
                             !.insts = insts,
                             !.alone = \A x \in Calls : calls[x].step = "idle"]]

Goto(c, step) == calls' = [calls EXCEPT ![c].step = step]
Answer(c) == calls' = [calls EXCEPT ![c] = IdleCall]
Fault(c) == Answer(c) /\ Upset

-----------------------------------------------------------------------------
(* Sign-in: startMobileAuth, twitchOAuthCallback, completeMobileAuth.      *)

\* PutPending is one transaction; at its limit nothing is changed.
StartMobileAuth(d, n) ==
    \E old \in SUBSET pending :
        /\ owner[n] = None
        /\ Expired(pending, old)
        /\ Cardinality(Kept(pending, d, old)) < MaxPending
        /\ pending' = Kept(pending, d, old) \cup {n}
        /\ owner' = [owner EXCEPT ![n] = d]
        /\ Disturb
        /\ UNCHANGED <<handoffs, sessions, creds, push>>

\* ConsumePending of an expired row, or of one whose user declines at Twitch.
CallbackRefused(n) ==
    /\ n \in pending
    /\ pending' = pending \ {n}
    /\ Disturb
    /\ UNCHANGED <<handoffs, sessions, creds, owner, push, upsets>>

CallbackBegin(c, n) ==
    /\ n \in pending
    /\ pending' = pending \ {n}
    /\ Begin(c, "callback", "exchange", owner[n], n, None, {})
    /\ UNCHANGED <<handoffs, sessions, creds, owner, push, upsets>>

\* exchangeCode, then PutCredentialAndHandoff in one transaction.
CallbackStore(c, u) ==
    LET n == calls[c].att
        d == calls[c].dev
    IN  \E old \in SUBSET handoffs :
        /\ calls[c].step = "exchange"
        /\ Expired(handoffs, old)
        /\ Cardinality(Kept(handoffs, d, old)) < MaxHandoffs
        /\ handoffs' = Kept(handoffs, d, old) \cup {n}
        /\ creds' = [creds EXCEPT ![n] = [user |-> u, good |-> TRUE]]
        /\ Answer(c)
        /\ UNCHANGED <<pending, sessions, owner, push>>

\* The exchange or the transaction fails, or the table is at its limit.
CallbackFault(c) ==
    /\ calls[c].step = "exchange"
    /\ Answer(c)
    /\ IF Cardinality(Kept(handoffs, calls[c].dev, {})) >= MaxHandoffs
         THEN UNCHANGED upsets ELSE Upset
    /\ UNCHANGED <<rows, creds, owner, push>>

\* ConsumeHandoff of an expired code.
CompleteExpired(n) ==
    /\ n \in handoffs
    /\ handoffs' = handoffs \ {n}
    /\ Upset
    /\ Disturb
    /\ UNCHANGED <<pending, sessions, creds, owner, push>>

\* Wrong on purpose, for mutation testing: the old session ends at once.
CompleteBeginLogout(c, n) ==
    /\ n \in handoffs
    /\ handoffs' = handoffs \ {n}
    /\ sessions' = sessions \ OfDevice(owner[n])
    /\ Begin(c, "complete", "get", owner[n], n, None, {Inst(n)})
    /\ UNCHANGED <<pending, creds, owner, push, upsets>>

\* Wrong on purpose, for mutation testing: the consumed code takes the
\* credential with it.
CompleteBeginDrop(c, n) ==
    /\ n \in handoffs
    /\ handoffs' = handoffs \ {n}
    /\ creds' = Dropped({n})
    /\ Begin(c, "complete", "get", owner[n], n, None, {Inst(n)})
    /\ UNCHANGED <<pending, sessions, owner, push, upsets>>

CompleteBegin(c, n) ==
    /\ n \in handoffs
    /\ handoffs' = handoffs \ {n}
    /\ Begin(c, "complete", "get", owner[n], n, None, {Inst(n)})
    /\ UNCHANGED <<pending, sessions, creds, owner, push, upsets>>

-----------------------------------------------------------------------------
(* twitchOAuthClient.lease, from completeMobileAuth, leaseMobileToken and  *)
(* upsertRegistration.                                                     *)

\* Wrong on purpose, for mutation testing: no mutex.
LockIgnored(n) == TRUE

\* The mutex of the credential's stripe is held from the read to the write.
LockFree(n) ==
    \A x \in Calls : calls[x].step \in {"refresh", "put"} => Stripe[calls[x].att] # Stripe[n]

\* The lease returns to the handler that asked for it.
LeaseReturn(c, step) ==
    IF calls[c].op = "lease" THEN Answer(c)
    ELSE calls' = [calls EXCEPT ![c].step = IF calls[c].op = "register" THEN "upsert" ELSE step,
                                ![c].good = TRUE,
                                ![c].user = IF calls[c].op = "register" THEN @ ELSE None]

LeaseDone(c) == LeaseReturn(c, "create")

\* A failed sign-in drops its credential; a registration is saved without the
\* channels that could not be verified.
LeaseFailed(c) == LeaseReturn(c, "unused")

\* Wrong on purpose, for mutation testing: the user is not read.
LeaseGetAnonymous(c) ==
    LET n == calls[c].att
    IN  /\ calls[c].step = "get"
        /\ LockFree(n)
        /\ n \in Stored
        /\ calls' = [calls EXCEPT ![c].step = "put", ![c].good = creds[n].good]
        /\ UNCHANGED <<rows, creds, owner, push, upsets>>

\* GetCredential.  The token is fresh; or it is validated, and then found valid
\* or revoked; or it is due for a refresh.
LeaseGet(c) ==
    LET n == calls[c].att
        read(step) == calls' = [calls EXCEPT ![c].step = step, ![c].user = creds[n].user,
                                             ![c].good = creds[n].good]
    IN  /\ calls[c].step = "get"
        /\ LockFree(n)
        /\ \/ n \notin Stored /\ LeaseFailed(c) /\ UNCHANGED upsets
           \/ n \in Stored /\ LeaseDone(c) /\ UNCHANGED upsets
           \/ n \in Stored /\ read("put") /\ UNCHANGED upsets
           \/ n \in Stored /\ read("refresh") /\ UNCHANGED upsets
           \/ LeaseFailed(c) /\ Upset
        /\ UNCHANGED <<rows, creds, owner, push>>

Rotated(n) == [m \in Attempts |-> IF m = n /\ n \in Stored THEN [creds[n] EXCEPT !.good = FALSE]
                                  ELSE creds[m]]

\* Twitch takes a refresh token once and answers with its successor; the stored
\* one is void from here on.  The answer may be lost, and the new token may fail
\* its validation.
LeaseRefresh(c) ==
    LET n == calls[c].att
        honoured == calls[c].good /\ (n \in Stored => creds[n].good)
    IN  /\ calls[c].step = "refresh"
        /\ \/ honoured /\ creds' = Rotated(n) /\ Goto(c, "put") /\ UNCHANGED upsets
           \/ ~honoured /\ LeaseFailed(c) /\ UNCHANGED <<creds, upsets>>
           \/ honoured /\ creds' = Rotated(n) /\ LeaseFailed(c) /\ Upset
           \/ LeaseFailed(c) /\ Upset /\ UNCHANGED creds
        /\ UNCHANGED <<rows, owner, push>>

\* PutCredential inserts the credential again if it was deleted meanwhile.
LeasePut(c) ==
    LET n == calls[c].att
    IN  /\ calls[c].step = "put"
        /\ \/ /\ creds' = [creds EXCEPT ![n] = [user |-> calls[c].user, good |-> calls[c].good]]
              /\ LeaseDone(c)
              /\ UNCHANGED upsets
           \/ LeaseFailed(c) /\ Upset /\ UNCHANGED creds
        /\ UNCHANGED <<rows, owner, push>>

-----------------------------------------------------------------------------
(* Transactions that delete orphaned credentials.  The last statement sees *)
(* what was committed when it began; what it deletes then is deleted at    *)
(* the commit, with every row that refers to it by then (ON DELETE         *)
(* CASCADE).                                                               *)

TxOf(p, h, s, c) ==
    [p |-> p, h |-> h, s |-> s, c |-> c \cup Orphans(sessions \ s, handoffs \ h), old |-> {}]

CreateSession(c) ==
    LET n == calls[c].att
        d == calls[c].dev
        refused(old) == \/ creds[n] = None
                        \/ ((sessions \ old) \cap OfInstallation(Installation[d])) \ OfDevice(d) # {}
                        \/ Cardinality(Kept(sessions, d, old)) >= MaxSessions
    IN  /\ calls[c].step = "create"
        /\ \/ refused({}) /\ Goto(c, "unused") /\ UNCHANGED upsets
           \/ \E old \in SUBSET sessions :
                LET tx == TxOf({}, {}, sessions \ Kept(sessions, d, old), {})
                IN  /\ ~refused(old)
                    /\ Expired(sessions, old)
                    /\ calls' = [calls EXCEPT ![c].step = "commit",
                                    ![c].tx = [tx EXCEPT !.c = @ \ {n}, !.old = old]]
           \/ Goto(c, "unused") /\ Upset
        /\ UNCHANGED <<rows, creds, owner, push>>

\* Wrong on purpose, for mutation testing: no foreign key.
CommitSessionLoose(c) ==
    LET n == calls[c].att
        tx == calls[c].tx
    IN  /\ calls[c].step = "commit" /\ calls[c].op = "complete"
        /\ sessions' = (sessions \ (tx.s \cup tx.c)) \cup {n}
        /\ handoffs' = handoffs \ tx.c
        /\ creds' = Dropped(tx.c)
        /\ Answer(c)
        /\ UNCHANGED <<pending, owner, push, upsets>>

\* The new session must find its credential (foreign key) and its installation
\* free (unique index).
CommitSession(c) ==
    LET n == calls[c].att
        tx == calls[c].tx
        broken == creds[n] = None \/ (sessions \cap OfInstallation(Inst(n))) \ tx.s # {}
    IN  /\ calls[c].step = "commit" /\ calls[c].op = "complete"
        /\ \/ /\ ~broken
              /\ sessions' = (sessions \ (tx.s \cup tx.c)) \cup {n}
              /\ handoffs' = handoffs \ tx.c
              /\ creds' = Dropped(tx.c)
              /\ Answer(c)
              /\ UNCHANGED upsets
           \/ broken /\ Goto(c, "unused") /\ UNCHANGED <<handoffs, sessions, creds, upsets>>
           \/ Goto(c, "unused") /\ Upset /\ UNCHANGED <<handoffs, sessions, creds>>
        /\ UNCHANGED <<pending, owner, push>>

\* DeleteCredentialIfUnused; its error is ignored.
CompleteUndo(c) ==
    /\ calls[c].step = "unused"
    /\ Answer(c)
    /\ \/ creds' = DropUnused(calls[c].att, sessions) /\ UNCHANGED upsets
       \/ UNCHANGED creds /\ Upset
    /\ UNCHANGED <<rows, owner, push>>

-----------------------------------------------------------------------------
(* Requests of a signed-in device, and its registration for push.          *)

\* DeleteSession.
SignOut(d, n) ==
    /\ n \in sessions /\ owner[n] = d
    /\ sessions' = sessions \ {n}
    /\ creds' = DropUnused(n, sessions')
    /\ Disturb
    /\ UNCHANGED <<pending, handoffs, owner, push, upsets>>

\* ResolveSession of an expired session, by any request that it authorises.
SessionExpired(n) ==
    /\ n \in sessions
    /\ sessions' = sessions \ {n}
    /\ creds' = DropUnused(n, sessions')
    /\ Upset
    /\ Disturb
    /\ UNCHANGED <<pending, handoffs, owner, push>>

LeaseBegin(c, n) ==
    /\ n \in sessions
    /\ Begin(c, "lease", "get", owner[n], n, None, {})
    /\ UNCHANGED <<rows, creds, owner, push, upsets>>

\* CredentialForInstallation, then moderatedChannelIDs, which leases the token
\* unless it remembers the channels.
RegisterBegin(c, n) ==
    /\ n \in sessions
    /\ \E step \in {"get", "upsert"} :
          Begin(c, "register", step, owner[n], n, creds[n].user, {Inst(n)})
    /\ UNCHANGED <<rows, creds, owner, push, upsets>>

MayUse(d) == regs[Installation[d]] # None => regs[Installation[d]].dev = d
HasReg(d) == regs[Installation[d]] # None /\ MayUse(d)

\* Upsert; a registration of another device stays.  From now on notifications are
\* queued and the device may connect: the worst case for what must be removed.
RegisterUpsert(c) ==
    LET d == calls[c].dev
        i == Installation[d]
    IN  /\ calls[c].step = "upsert"
        /\ Answer(c)
        /\ \/ /\ MayUse(d)
              /\ regs' = [regs EXCEPT ![i] = [dev |-> d, user |-> calls[c].user]]
              /\ queued' = queued \cup {i}
              /\ UNCHANGED upsets
           \/ ~MayUse(d) /\ UNCHANGED <<push, upsets>>
           \/ Upset /\ UNCHANGED push
        /\ UNCHANGED <<rows, creds, owner>>

-----------------------------------------------------------------------------
(* revokeMobileDevice and revokeAllMobileSessions, with the token of        *)
(* attempt n: current, expired, or unknown by now.                         *)

\* Wrong on purpose, for mutation testing: an unknown token is a repetition.
RevokeBeginUnbound(c, n) ==
    LET d == owner[n]
    IN  /\ d # None
        /\ Begin(c, "revoke", IF n \in sessions THEN "unregister" ELSE "device", d, None, None,
                 {Installation[d]})
        /\ UNCHANGED <<rows, creds, owner, push, upsets>>

\* ResolveSession: the session is there, unknown, or expired; then it is deleted
\* and the device may go on.
RevokeBegin(c, n) ==
    LET d == owner[n]
        begin(step) == Begin(c, "revoke", step, d, None, None, {Installation[d]})
    IN  /\ d # None
        /\ \/ n \in sessions /\ begin("unregister") /\ UNCHANGED <<sessions, creds, upsets>>
           \/ n \notin sessions /\ begin("binding") /\ UNCHANGED <<sessions, creds, upsets>>
           \/ /\ n \in sessions /\ begin("device") /\ Upset
              /\ sessions' = sessions \ {n}
              /\ creds' = DropUnused(n, sessions')
        /\ UNCHANGED <<pending, handoffs, owner, push>>

\* SessionAccount takes an expired session as well.
RevokeAllBegin(c, n) ==
    LET d == owner[n]
        known == n \in sessions
    IN  /\ d # None
        /\ Begin(c, "revokeAll", IF known THEN "targets" ELSE "binding", d, None,
                 IF known THEN creds[n].user ELSE None, {Installation[d]})
        /\ UNCHANGED <<rows, creds, owner, push, upsets>>

Artifacts(i) == (sessions \cup pending \cup handoffs) \cap OfInstallation(i)

\* InstallationBinding: an unknown token does not revoke while there is a row.
RevokeBinding(c) ==
    /\ calls[c].step = "binding"
    /\ \/ Artifacts(Installation[calls[c].dev]) # {} /\ Answer(c) /\ UNCHANGED upsets
       \/ Artifacts(Installation[calls[c].dev]) = {} /\ Goto(c, "device") /\ UNCHANGED upsets
       \/ Fault(c)
    /\ UNCHANGED <<rows, creds, owner, push>>

\* Authenticate: without a registration everything counts as revoked already.
RevokeDevice(c) ==
    LET d == calls[c].dev
    IN  /\ calls[c].step = "device"
        /\ \/ ~HasReg(d) /\ Answer(c) /\ UNCHANGED upsets
           \/ /\ HasReg(d)
              /\ calls' = IF calls[c].op = "revoke"
                            THEN [calls EXCEPT ![c].step = "unregister"]
                            ELSE [calls EXCEPT ![c].step = "targets", ![c].user = regs[Installation[d]].user]
              /\ UNCHANGED upsets
           \/ Fault(c)
        /\ UNCHANGED <<rows, creds, owner, push>>

\* AccountRevocationTargets: the credentials, then their sessions' installations.
RevokeTargets(c) ==
    /\ calls[c].step = "targets"
    /\ \/ /\ calls' = [calls EXCEPT ![c].step = "installs",
                                    ![c].todo = OfUser(calls[c].user)]
          /\ UNCHANGED upsets
       \/ Fault(c)
    /\ UNCHANGED <<rows, creds, owner, push>>

RevokeInstalls(c) ==
    LET found == {Inst(n) : n \in calls[c].todo \cap sessions}
    IN  /\ calls[c].step = "installs"
        /\ \/ /\ calls' = [calls EXCEPT ![c].step = "list", ![c].insts = @ \cup found]
              /\ UNCHANGED upsets
           \/ Fault(c)
        /\ UNCHANGED <<rows, creds, owner, push>>

Registered(u) == {i \in Installations : regs[i] # None /\ regs[i].user = u}

\* List answers with nothing when its statement fails.  Then revokeAccessToken
\* for each credential, under its lock: that Twitch takes the access token back
\* leaves the refresh token valid, and a failure is passed over.
RevokeList(c) ==
    LET found(insts) == calls' = [calls EXCEPT ![c].step = "unregister", ![c].todo = {},
                                               ![c].insts = @ \cup insts]
    IN  /\ calls[c].step = "list"
        /\ \/ found(Registered(calls[c].user)) /\ UNCHANGED upsets
           \/ found({}) /\ Upset
        /\ UNCHANGED <<rows, creds, owner, push>>

\* Wrong on purpose, for mutation testing: only the installations that were found.
RevokeUnregisterFound(c) ==
    /\ calls[c].step = "unregister"
    /\ regs' = [i \in Installations |-> IF i \in calls[c].insts THEN None ELSE regs[i]]
    /\ calls' = [calls EXCEPT ![c].step = "undeliver"]
    /\ UNCHANGED <<rows, creds, owner, queued, upsets>>

\* Delete, or DeleteForAccount.
RevokeUnregister(c) ==
    LET d == calls[c].dev
        all == calls[c].op = "revokeAll"
        gone == IF all THEN calls[c].insts \cup Registered(calls[c].user) ELSE {Installation[d]}
    IN  /\ calls[c].step = "unregister"
        /\ \/ /\ all \/ MayUse(d)
              /\ regs' = [i \in Installations |-> IF i \in gone THEN None ELSE regs[i]]
              /\ calls' = [calls EXCEPT ![c].step = "undeliver", ![c].insts = gone]
              /\ UNCHANGED upsets
           \/ ~all /\ ~MayUse(d) /\ Answer(c) /\ UNCHANGED <<regs, upsets>>
           \/ Fault(c) /\ UNCHANGED regs
        /\ UNCHANGED <<rows, creds, owner, queued>>

\* DeleteForInstallation, one installation after the other.
RevokeDeliveries(c) ==
    /\ calls[c].step = "undeliver"
    /\ \/ /\ queued' = queued \ calls[c].insts
          /\ Goto(c, "revoke") /\ UNCHANGED upsets
       \/ /\ \E some \in SUBSET calls[c].insts : queued' = queued \ some
          /\ Fault(c)
    /\ UNCHANGED <<rows, creds, owner, regs>>

\* RevokeInstallation, up to its last statement.
RevokeInstallation(c) ==
    LET i == Installation[calls[c].dev]
        mine == OfInstallation(i)
    IN  /\ calls[c].step = "revoke" /\ calls[c].op = "revoke"
        /\ \/ Artifacts(i) \ OfDevice(calls[c].dev) # {} /\ Answer(c) /\ UNCHANGED upsets
           \/ Artifacts(i) = {} /\ Answer(c) /\ UNCHANGED upsets
           \/ /\ Artifacts(i) # {} /\ Artifacts(i) \subseteq OfDevice(calls[c].dev)
              /\ calls' = [calls EXCEPT ![c].step = "commit",
                    ![c].tx = TxOf(mine \cap pending, mine \cap handoffs,
                                   mine \cap sessions, {})]
              /\ UNCHANGED upsets
           \/ Fault(c)
        /\ UNCHANGED <<rows, creds, owner, push>>

\* RevokeAccount, up to its last statement.
RevokeAccount(c) ==
    LET mine == OfUser(calls[c].user)
        signed == mine \cap sessions
        insts == calls[c].insts \cup {Inst(n) : n \in signed}
        at == UNION {OfInstallation(i) : i \in insts}
    IN  /\ calls[c].step = "revoke" /\ calls[c].op = "revokeAll"
        /\ \/ /\ calls' = [calls EXCEPT ![c].step = "commit",
                    ![c].tx = TxOf(at \cap pending, (mine \cup at) \cap handoffs,
                                   signed, mine)]
              /\ UNCHANGED upsets
           \/ Fault(c)
        /\ UNCHANGED <<rows, creds, owner, push>>

CommitRevoke(c) ==
    LET tx == calls[c].tx
    IN  /\ calls[c].step = "commit" /\ calls[c].op \in {"revoke", "revokeAll"}
        /\ \/ /\ pending' = pending \ tx.p
              /\ handoffs' = handoffs \ (tx.h \cup tx.c)
              /\ sessions' = sessions \ (tx.s \cup tx.c)
              /\ creds' = Dropped(tx.c)
              /\ UNCHANGED upsets
           \/ Upset /\ UNCHANGED <<rows, creds>>
        /\ Answer(c)
        /\ UNCHANGED <<owner, push>>

-----------------------------------------------------------------------------
(* Crashes, and the whole.                                                 *)

Crash ==
    /\ Upset
    /\ calls' = [c \in Calls |-> IdleCall]
    /\ UNCHANGED <<rows, creds, owner, push>>

CallStep(c) ==
    \/ \E u \in Users : CallbackStore(c, u)
    \/ CallbackFault(c) \/ LeaseGet(c) \/ LeaseRefresh(c) \/ LeasePut(c)
    \/ CreateSession(c) \/ CommitSession(c) \/ CompleteUndo(c) \/ RegisterUpsert(c)
    \/ RevokeBinding(c) \/ RevokeDevice(c) \/ RevokeTargets(c) \/ RevokeInstalls(c)
    \/ RevokeList(c) \/ RevokeUnregister(c) \/ RevokeDeliveries(c) \/ RevokeInstallation(c)
    \/ RevokeAccount(c) \/ CommitRevoke(c)

CallBegin(c) ==
    \E n \in Attempts :
        \/ CallbackBegin(c, n) \/ CompleteBegin(c, n) \/ LeaseBegin(c, n)
        \/ RegisterBegin(c, n) \/ RevokeBegin(c, n) \/ RevokeAllBegin(c, n)

AuthNext ==
    \/ \E c \in Calls : CallBegin(c) \/ CallStep(c)
    \/ \E n \in Attempts :
          \/ CallbackRefused(n) \/ CompleteExpired(n) \/ SessionExpired(n)
          \/ \E d \in Devices : StartMobileAuth(d, n) \/ SignOut(d, n)
    \/ Crash

AuthSpec == AuthInit /\ [][AuthNext]_authVars

-----------------------------------------------------------------------------
(* Properties.                                                             *)

CallSteps ==
    {"idle", "exchange", "get", "refresh", "put", "create", "commit", "unused", "upsert",
     "binding", "device", "targets", "installs", "list", "unregister", "undeliver",
     "revoke"}
CallOps == {"none", "callback", "complete", "lease", "register", "revoke", "revokeAll"}

CallState ==
    [step : CallSteps, op : CallOps, dev : Devices \cup {None}, att : Attempts \cup {None},
     user : Users \cup {None}, good : BOOLEAN, todo : SUBSET Attempts,
     insts : SUBSET Installations, alone : BOOLEAN,
     tx : [p : SUBSET Attempts, h : SUBSET Attempts, s : SUBSET Attempts, c : SUBSET Attempts,
           old : SUBSET Attempts]]

\* The type of the tables and of the handlers' local state.
AuthTypeOK ==
    /\ pending \subseteq Attempts /\ handoffs \subseteq Attempts /\ sessions \subseteq Attempts
    /\ creds \in [Attempts -> [user : Users, good : BOOLEAN] \cup {None}]
    /\ owner \in [Attempts -> Devices \cup {None}]
    /\ regs \in [Installations -> [dev : Devices, user : Users] \cup {None}]
    /\ queued \subseteq Installations
    /\ calls \in [Calls -> CallState]
    /\ upsets \in Nat

\* Whatever sessions, revocations and failed sign-ins delete at the same time,
\* no session and no handoff is left without its credential.
Referenced == handoffs \cup sessions \subseteq Stored

\* While a request runs that no other one overlaps, nothing takes the credential
\* it works with away: neither a sign-in between ConsumeHandoff and
\* CreateSession, when nothing refers to the credential, nor a lease between
\* its read and its write, which would bring a deleted credential back.
CredentialKept ==
    \A c \in Calls :
        /\ calls[c].alone
        /\ \/ calls[c].step \in {"get", "refresh", "put", "create"}
           \/ calls[c].step = "commit" /\ calls[c].op = "complete"
        => calls[c].att \in Stored

\* No two leases spend the same refresh token, and without a failure the stored
\* token is the one that Twitch honours, unless a lease is about to store its
\* successor (the lock of twitchOAuthClient.lease).
RefreshTokenSafe ==
    /\ \A c \in Calls :
          calls[c].step = "refresh" /\ calls[c].good /\ calls[c].att \in Stored =>
              creds[calls[c].att].good
    /\ \A n \in Stored :
          \/ creds[n].good \/ upsets > 0
          \/ \E c \in Calls : calls[c].step = "put" /\ calls[c].att = n

\* A session ends by its expiry, by the sign-out or the revocation of its own
\* device, by a new session of that device (never by a sign-in that fails), by
\* the revocation of its account, or because its credential was an orphan for
\* a transaction that began before the session was committed and ended after.
SessionLossStep ==
    \A n \in sessions \ sessions' :
        \/ upsets' # upsets
        \/ \A c \in Calls : calls'[c].step = calls[c].step
        \/ \E c \in Calls :
              /\ calls[c].step = "commit" /\ calls'[c].step # "commit"
              /\ \/ /\ Inst(n) = Installation[calls[c].dev]
                    /\ calls[c].op = "complete" => calls[c].att \in sessions'
                 \/ calls[c].op = "revokeAll" /\ n \in OfUser(calls[c].user)
                 \/ n \in calls[c].tx.old
                 \/ n \in calls[c].tx.c /\ ~calls[c].alone

SessionLossExplained == [][SessionLossStep]_authVars

\* The call answers without an error of the storage.
Answers(c, op, step) ==
    /\ calls[c].op = op /\ calls[c].step = step /\ calls'[c].step = "idle"
    /\ upsets' = upsets /\ calls[c].alone

\* revokeMobileDevice answers 204, with no other request beside it, only when
\* the installation has neither a session nor a registration, also when it
\* takes the call for a repetition; and when it went through all of its steps,
\* nothing of the device is left.
RevokedStep ==
    \A c \in Calls :
        LET i == Installation[calls[c].dev]
            mine == OfInstallation(i)
        IN  /\ \/ Answers(c, "revoke", "commit")
               \/ Answers(c, "revoke", "revoke") /\ Artifacts(i) = {}
               => /\ (sessions' \cup pending' \cup handoffs') \cap mine = {}
                  /\ regs'[i] = None /\ i \notin queued'
            /\ Answers(c, "revoke", "device") /\ MayUse(calls[c].dev) =>
                  sessions' \cap mine = {} /\ regs'[i] = None

RevokedOut == [][RevokedStep]_authVars

\* revokeAllMobileSessions answers 204 after its last step, with no other
\* request beside it, only when the account has no credential and no
\* registration left and no installation it found keeps deliveries.
RevokedAllStep ==
    \A c \in Calls : Answers(c, "revokeAll", "commit") =>
        /\ \A n \in Attempts : creds'[n] # None => creds'[n].user # calls[c].user
        /\ \A i \in Installations : regs'[i] # None => regs'[i].user # calls[c].user
        /\ calls[c].insts \cap queued' = {}

RevokedAllOut == [][RevokedAllStep]_authVars
=============================================================================
