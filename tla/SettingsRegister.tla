--------------------------- MODULE SettingsRegister ---------------------------
(***************************************************************************)
(* What settings sync promises to the devices of one account: a register   *)
(* with compare-and-set that keeps its last revisions.  A request takes    *)
(* effect at one moment between the question and the answer.               *)
(***************************************************************************)
EXTENDS Naturals

CONSTANTS
    Clients,        \* devices with a session of the account
    Hashes,         \* contents, known by their hash
    None,           \* no value
    MaxHistory,     \* MaxSettingsSyncHistory, 20 in the code
    MaxRevision     \* bound: the highest revision

Revisions == 1..MaxRevision
Snapshots == [hash : Hashes, by : Clients]
Listing == [Revisions -> Snapshots \cup {None}]

\* rev is the base of a put and the source of a restore.
Requests ==
    [op : {"put"}, rev : 0..MaxRevision, force : BOOLEAN, hash : Hashes]
        \cup [op : {"restore"}, rev : Revisions, force : {FALSE}, hash : {None}]
        \cup [op : {"current", "history"}, rev : {0}, force : {FALSE}, hash : {None}]
Replies == [status : {"ok", "conflict", "notFound", "error"}, shown : Listing]

Nothing == [r \in Revisions |-> None]
ErrorReply == [status |-> "error", shown |-> Nothing]

VARIABLES
    revision,   \* the current revision, 0 at first
    kept,       \* the snapshots that can be read
    asks,       \* each client's request, or None
    answers     \* the reply to it, or None while there is none

regVars == <<revision, kept, asks, answers>>

RegInit ==
    /\ revision = 0 /\ kept = Nothing
    /\ asks = [c \in Clients |-> None] /\ answers = [c \in Clients |-> None]

Only(listing, r) == [q \in Revisions |-> IF q = r THEN listing[q] ELSE None]

\* The next revision is s; the revision MaxHistory + 1 before it goes.
Extended(s) ==
    [r \in Revisions |-> IF r = revision + 1 THEN s
                         ELSE IF r + MaxHistory < revision + 1 THEN None ELSE kept[r]]

\* The snapshots that client c's request q may make current.
Fresh(c, q) ==
    IF q.op = "put" /\ (q.force \/ q.rev = revision) THEN {[hash |-> q.hash, by |-> c]}
    ELSE IF q.op = "restore" /\ kept[q.rev] # None
           THEN {[hash |-> kept[q.rev].hash, by |-> c]} ELSE {}

Same(q) == revision # 0 /\ kept[revision].hash = q.hash

RegAsk(c, q) ==
    /\ asks[c] = None
    /\ asks' = [asks EXCEPT ![c] = q]
    /\ UNCHANGED <<revision, kept, answers>>

RegReply(c, reply) == answers' = [answers EXCEPT ![c] = reply] /\ UNCHANGED asks

\* The request takes effect; its client may fail to learn of it.
RegWrite(c) ==
    \E s \in Fresh(c, asks[c]) :
        /\ asks[c].op = "put" => ~Same(asks[c])
        /\ revision < MaxRevision
        /\ revision' = revision + 1
        /\ kept' = Extended(s)
        /\ \/ RegReply(c, [status |-> "ok", shown |-> Only(kept', revision')])
           \/ RegReply(c, ErrorReply)

\* The request changes nothing.
RegRefuse(c) ==
    /\ \/ /\ asks[c].op = "put" /\ (asks[c].force \/ asks[c].rev = revision) /\ Same(asks[c])
          /\ RegReply(c, [status |-> "ok", shown |-> Only(kept, revision)])
       \/ /\ asks[c].op = "put" /\ ~asks[c].force /\ asks[c].rev # revision
          /\ RegReply(c, [status |-> "conflict", shown |-> Only(kept, revision)])
       \/ /\ asks[c].op = "restore" /\ Fresh(c, asks[c]) = {}
          /\ RegReply(c, [status |-> "notFound", shown |-> Nothing])
       \/ asks[c].op \in {"put", "restore"} /\ RegReply(c, ErrorReply)
    /\ UNCHANGED <<revision, kept>>

\* A read shows the register, or nothing when it fails: also the error looks
\* like an account without settings.
RegRead(c) ==
    /\ \/ asks[c].op = "current" /\ RegReply(c, [status |-> "ok", shown |-> Only(kept, revision)])
       \/ asks[c].op = "history" /\ RegReply(c, [status |-> "ok", shown |-> kept])
       \/ /\ asks[c].op \in {"current", "history"}
          /\ RegReply(c, [status |-> "ok", shown |-> Nothing])
    /\ UNCHANGED <<revision, kept>>

RegServe(c) == asks[c] # None /\ answers[c] = None /\ (RegWrite(c) \/ RegRefuse(c) \/ RegRead(c))

\* The reply reaches the client, or is lost; or the connections break.
RegForget(who) ==
    /\ asks' = [c \in Clients |-> IF c \in who THEN None ELSE asks[c]]
    /\ answers' = [c \in Clients |-> IF c \in who THEN None ELSE answers[c]]
    /\ UNCHANGED <<revision, kept>>

RegNext ==
    \/ \E c \in Clients : RegServe(c) \/ \E q \in Requests : RegAsk(c, q)
    \/ \E who \in SUBSET Clients : RegForget(who)

RegSpec == RegInit /\ [][RegNext]_regVars
=============================================================================
