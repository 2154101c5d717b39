--------------------- MODULE EventSubSubscriptionsProofs ----------------------
(***************************************************************************)
(* The reconciler overlooks no change of a registration, leaves exactly    *)
(* the wanted subscriptions when nothing overlaps it, and loses a wanted   *)
(* one only otherwise, for any registrations, subscriptions and number of  *)
(* failures.                                                               *)
(***************************************************************************)
EXTENDS EventSubSubscriptions, TLAPS

Run == [step : {"idle", "wait", "read", "list", "delete"}, wipe : BOOLEAN, want : SUBSET Keys,
        doomed : SUBSET Subscriptions, todo : SUBSET Keys, failed : BOOLEAN, alone : BOOLEAN,
        blind : BOOLEAN]

\* What a run is about to delete is this server's.
RunsOK ==
    /\ runs \in [Runners -> Run]
    /\ \A c \in Runners : runs[c].todo \subseteq runs[c].want
    /\ \A c \in Runners : \A d \in runs[c].doomed, s \in subs : SameId(s, d) => s.own

\* The types, and no id twice.
StateInv ==
    /\ regs \in [Installations -> RegValues \cup {None}]
    /\ subs \subseteq Subscriptions
    /\ \A s, t \in subs : SameId(s, t) => s = t
    /\ RunsOK
    /\ asked \in BOOLEAN /\ owed \subseteq Installations \cup {Twitch}
    /\ unread \subseteq Installations /\ lost \subseteq unread
    /\ changes \in 0..MaxChanges /\ upsets \in 0..MaxUpsets

Doomed(c, s) == \E d \in runs[c].doomed : SameId(s, d)

\* A reconciliation that read the registrations and that nothing has overlapped so
\* far: what it wants is what the registrations call for; it leaves one of the
\* subscriptions with a wanted key; and unless something failed, those that stay are
\* one for each key that is done.
Current(c) == runs[c].want = Desired
Spared(c) == \A s \in Live : s.key \in runs[c].want =>
                 \E t \in Live : t.key = s.key /\ ~Doomed(c, t)
Exact(c) ==
    /\ \A k \in runs[c].want \ runs[c].todo : \E s \in Live : s.key = k /\ ~Doomed(c, s)
    /\ \A s \in subs : s.own /\ ~Doomed(c, s) =>
          Usable(s) /\ s.key \in runs[c].want \ runs[c].todo
    /\ \A s, t \in subs : s.own /\ t.own /\ s.key = t.key /\ ~Doomed(c, s) /\ ~Doomed(c, t) =>
          s = t

Apart(c) == runs[c].alone /\ ~runs[c].blind /\ ~runs[c].wipe
RunOK(c) ==
    /\ Apart(c) /\ runs[c].step \in {"list", "delete"} => Current(c)
    /\ Apart(c) /\ runs[c].step = "delete" => Spared(c)
    /\ Apart(c) /\ runs[c].step = "delete" /\ ~runs[c].failed => Exact(c)

SubsInv == StateInv /\ \A c \in Runners : RunOK(c)

\* A run has a step, whatever else it has.
Runs == DOMAIN runs = Runners /\ \A c \in Runners : "step" \in DOMAIN runs[c]

RequestInv == Runs /\ RequestNotLost

\* Somebody else's change leaves the steps of the runs alone.
LEMMA BesideKeeps ==
    ASSUME Runs, NEW c
    PROVE  /\ DOMAIN Beside(c) = Runners
           /\ \A x \in Runners :
                 "step" \in DOMAIN Beside(c)[x] /\ Beside(c)[x].step = runs[x].step
<1>1. DOMAIN Beside(c) = Runners
  BY DEF Beside
<1>2. ASSUME NEW x \in Runners, x # c
      PROVE  "step" \in DOMAIN Beside(c)[x] /\ Beside(c)[x].step = runs[x].step
  <2>1. Beside(c)[x] = [runs[x] EXCEPT !.alone = FALSE]
    BY <1>2 DEF Beside
  <2>2. PICK r : r = runs[x]
    OBVIOUS
  <2>3. "step" \in DOMAIN r
    BY <2>2 DEF Runs
  <2>4. "step" \in DOMAIN [r EXCEPT !.alone = FALSE] /\ [r EXCEPT !.alone = FALSE].step = r.step
    BY <2>3
  <2> QED
    BY <2>1, <2>2, <2>4
<1>3. ASSUME NEW x \in Runners, x = c
      PROVE  "step" \in DOMAIN Beside(c)[x] /\ Beside(c)[x].step = runs[x].step
  BY <1>3 DEF Beside, Runs
<1> QED
  BY <1>1, <1>2, <1>3

\* A step of a run other than the reading keeps the loop's promise: the loop does
\* not stop waiting for its reading, and no request disappears.
LEMMA PromiseKept ==
    ASSUME RequestInv, Runs', UNCHANGED <<asked, unread, lost>>, owed \subseteq owed',
           runs["loop"].step \in {"wait", "read"} => runs'["loop"].step = runs["loop"].step
    PROVE  RequestInv'
  BY DEF RequestInv, RequestNotLost

\* The start: the loop is about to read.
LEMMA InitRequests == SubsInit => RequestInv
  BY DEF SubsInit, RequestInv, RequestNotLost, Runs, Runners, IdleRun

\* Reading the registrations is the only step that settles a promise.
LEMMA ReadKeeps ==
    ASSUME RequestInv, NEW c \in Runners, ReadRegistrations(c)
    PROVE  RequestInv'
<1>1. Runs' /\ \A x \in Runners \ {c} : runs'[x] = runs[x]
  BY DEF ReadRegistrations, RequestInv, Runs, IdleRun
<1>2. CASE c = "loop"
  BY <1>1, <1>2 DEF ReadRegistrations, RequestInv, RequestNotLost
<1>3. CASE c # "loop"
  <2>1. runs'["loop"] = runs["loop"]
    BY <1>1, <1>3 DEF Runners
  <2>2. unread' = unread /\ lost' = lost
    BY <1>3 DEF ReadRegistrations
  <2> QED
    BY <1>1, <2>1, <2>2 DEF ReadRegistrations, RequestInv, RequestNotLost
<1> QED
  BY <1>2, <1>3

\* The calls of Twitch keep it.
LEMMA RoundKeeps ==
    ASSUME RequestInv, NEW c \in Runners,
           \/ ListSubscriptions(c) \/ ReconcileEnd(c)
           \/ \E s \in runs[c].doomed : DeleteSubscription(c, s)
           \/ \E k \in runs[c].todo : CreateSubscription(c, k)
    PROVE  RequestInv'
<1>1. runs[c].step \notin {"wait", "read"} /\ UNCHANGED <<asked, unread, lost, owed>>
  BY DEF ListSubscriptions, ReconcileEnd, DeleteSubscription, CreateSubscription, bounds
<1>2. Runs
  BY DEF RequestInv
<1> DEFINE Steady == Runs' /\ \A x \in Runners \ {c} : runs'[x].step = runs[x].step
<1>3. ASSUME ListSubscriptions(c)
      PROVE  Steady
  <2>1. CASE runs' = [runs EXCEPT ![c] = IdleRun]
    BY <1>2, <2>1 DEF Runs, IdleRun
  <2>2. CASE \E kept \in SUBSET subs :
                runs' = [runs EXCEPT ![c].step = "delete",
                            ![c].doomed = {s \in subs : s.own} \ kept,
                            ![c].todo = runs[c].want \ {s.key : s \in kept}]
    BY <1>2, <2>2 DEF Runs
  <2> QED
    BY <1>3, <2>1, <2>2 DEF ListSubscriptions, Ends
<1>4. ASSUME ReconcileEnd(c)
      PROVE  Steady
  BY <1>2, <1>4 DEF ReconcileEnd, Ends, Runs, IdleRun
<1>5. ASSUME NEW s \in runs[c].doomed, DeleteSubscription(c, s)
      PROVE  Steady
  <2>1. CASE runs' = [Beside(c) EXCEPT ![c].doomed = @ \ {s}]
    BY <1>2, <2>1, BesideKeeps DEF Runs
  <2>2. CASE runs' = [runs EXCEPT ![c].doomed = @ \ {s}]
    BY <1>2, <2>2 DEF Runs
  <2>3. CASE runs' = [runs EXCEPT ![c] = IdleRun]
    BY <1>2, <2>3 DEF Runs, IdleRun
  <2>4. CASE runs' = [runs EXCEPT ![c].doomed = @ \ {s}, ![c].todo = @ \ {s.key},
                                  ![c].failed = TRUE]
    BY <1>2, <2>4 DEF Runs
  <2> QED
    BY <1>5, <2>1, <2>2, <2>3, <2>4 DEF DeleteSubscription, Ends
<1>6. ASSUME NEW k \in runs[c].todo, CreateSubscription(c, k)
      PROVE  Steady
  <2>1. CASE \E failed \in BOOLEAN :
                runs' = [Beside(c) EXCEPT ![c].todo = @ \ {k}, ![c].failed = @ \/ failed]
    BY <1>2, <2>1, BesideKeeps DEF Runs
  <2>2. CASE runs' = [runs EXCEPT ![c].todo = @ \ {k}, ![c].failed = TRUE]
    BY <1>2, <2>2 DEF Runs
  <2> QED
    BY <1>6, <2>1, <2>2 DEF CreateSubscription
<1>7. Steady
  BY <1>3, <1>4, <1>5, <1>6
<1>8. runs["loop"].step \in {"wait", "read"} => runs'["loop"].step = runs["loop"].step
  BY <1>1, <1>7 DEF Runners
<1> QED
  BY <1>1, <1>7, <1>8, PromiseKept

\* Every step of the reconciler keeps the promise.
LEMMA StepKeeps ==
    ASSUME RequestInv, [SubsNext]_subsVars
    PROVE  RequestInv'
<1>1. Runs
  BY DEF RequestInv
<1>2. ASSUME NEW i \in Installations, NEW r \in RegValues \cup {None}, SaveRegistration(i, r)
      PROVE  RequestInv'
  <2>1. Runs' /\ runs'["loop"].step = runs["loop"].step
    BY <1>1, <1>2, BesideKeeps DEF SaveRegistration, Runs, Runners
  <2>2. /\ asked' = asked /\ owed \subseteq owed'
        /\ unread' = unread \cup {i}
        /\ \/ i \in owed' /\ lost' = lost \ {i}
           \/ lost' = lost \cup {i}
    BY <1>2 DEF SaveRegistration
  <2>3. ASSUME NEW j \in unread' \ lost'
        PROVE  j \in owed' \/ j \in unread \ lost
    BY <2>2
  <2> QED
    BY <2>1, <2>2, <2>3 DEF RequestInv, RequestNotLost
<1>3. ASSUME NEW h \in owed, RequestReconcile(h)
      PROVE  RequestInv'
  BY <1>1, <1>3 DEF RequestReconcile, RequestInv, RequestNotLost, Runs
<1>4. CASE LoopTick
  BY <1>1, <1>4 DEF LoopTick, Goto, RequestInv, RequestNotLost, Runs, Runners
<1>5. CASE LoopWake
  BY <1>1, <1>5 DEF LoopWake, Goto, RequestInv, RequestNotLost, Runs, Runners
<1>6. CASE LoopDrain
  BY <1>1, <1>6 DEF LoopDrain, Goto, RequestInv, RequestNotLost, Runs, Runners
<1>7. ASSUME NEW wipe \in BOOLEAN, AdminBegin(wipe)
      PROVE  RequestInv'
  <2>1. Runs' /\ runs'["loop"] = runs["loop"]
    BY <1>1, <1>7 DEF AdminBegin, Runs, Runners, IdleRun
  <2> QED
    BY <1>7, <2>1, PromiseKept DEF AdminBegin
<1>8. ASSUME NEW c \in Runners, RunStep(c)
      PROVE  RequestInv'
  BY <1>8, ReadKeeps, RoundKeeps DEF RunStep
<1>9. ASSUME NEW s \in subs, Verified(s)
      PROVE  RequestInv'
  BY <1>1, <1>9, PromiseKept DEF Verified, Runs
<1>10. ASSUME NEW s \in subs, GivenUp(s)
       PROVE  RequestInv'
  <2>1. Runs' /\ runs'["loop"].step = runs["loop"].step
    BY <1>1, <1>10, BesideKeeps DEF GivenUp, Runs, Runners
  <2> QED
    BY <1>10, <2>1, PromiseKept DEF GivenUp
<1>11. CASE SubsCrash
  BY <1>11 DEF SubsCrash, RequestInv, RequestNotLost, Runs, Runners, IdleRun
<1>12. CASE UNCHANGED subsVars
  BY <1>1, <1>12, PromiseKept DEF subsVars, Runs
<1> QED
  BY <1>2, <1>3, <1>4, <1>5, <1>6, <1>7, <1>8, <1>9, <1>10, <1>11, <1>12 DEF SubsNext

\* No change of a registration that a request follows is overlooked:
\* requestEventSubReconcile drops a request only when one is waiting, and
\* runEventSubReconciler takes requests together only before it reads the
\* registrations.  What is left to the ticker is what a handler saved and then
\* reported as an error, and what a failed List did not find.
THEOREM RequestsNotLost == SubsSpec => []RequestNotLost
<1>1. RequestInv => RequestNotLost
  BY DEF RequestInv
<1> QED
  BY <1>1, InitRequests, StepKeeps, PTL DEF SubsSpec

-----------------------------------------------------------------------------
(* Types, ids and owners.                                                  *)

\* The keys that registrations call for are keys.
LEMMA DesiredTyped ==
    ASSUME StateInv
    PROVE  Desired \subseteq Keys
<1> SUFFICES ASSUME NEW r \in Saved, NEW k \in DesiredOf(r)
             PROVE  k \in Keys
  BY DEF Desired
<1>1. r \in RegValues
  BY DEF Saved, StateInv
<1>2. PICK type \in EventTypes, ch \in r.channels : k = SpecKey(r, type, ch)
  BY DEF DesiredOf
<1>3. ch \in Channels
  BY <1>1, <1>2, SubsAssumption
<1> QED
  BY <1>1, <1>2, <1>3 DEF SpecKey, Keys

\* The other runs learn that somebody changed something, and nothing else.
LEMMA BesideTyped ==
    ASSUME runs \in [Runners -> Run], NEW c
    PROVE  /\ Beside(c) \in [Runners -> Run]
           /\ c \in Runners => Beside(c)[c] = runs[c]
           /\ \A x \in Runners : /\ Beside(c)[x].step = runs[x].step
                                 /\ Beside(c)[x].want = runs[x].want
                                 /\ Beside(c)[x].todo = runs[x].todo
                                 /\ Beside(c)[x].doomed = runs[x].doomed
                                 /\ x # c => ~Beside(c)[x].alone
<1>1. ASSUME NEW x \in Runners
      PROVE  /\ Beside(c)[x] \in Run
             /\ x = c => Beside(c)[x] = runs[x]
             /\ Beside(c)[x].step = runs[x].step
             /\ Beside(c)[x].want = runs[x].want
             /\ Beside(c)[x].todo = runs[x].todo
             /\ Beside(c)[x].doomed = runs[x].doomed
             /\ x # c => ~Beside(c)[x].alone
  <2>1. PICK r : r = runs[x] /\ r \in Run
    OBVIOUS
  <2>2. Beside(c)[x] = IF x = c THEN r ELSE [r EXCEPT !.alone = FALSE]
    BY <2>1 DEF Beside
  <2> QED
    BY <2>1, <2>2 DEF Run
<1>2. Beside(c) \in [Runners -> Run]
  BY <1>1 DEF Beside
<1> QED
  BY <1>1, <1>2

\* The types are part of the invariant.
LEMMA StateTypes == StateInv => SubsTypeOK
<1> SUFFICES ASSUME StateInv, NEW c \in Runners
             PROVE  /\ runs[c].step \in {"idle", "wait", "read", "list", "delete"}
                    /\ runs[c].want \subseteq Keys /\ runs[c].todo \subseteq runs[c].want
                    /\ runs[c].doomed \subseteq Subscriptions
  BY DEF StateInv, SubsTypeOK
<1>1. runs[c] \in Run /\ runs[c].todo \subseteq runs[c].want
  BY DEF StateInv, RunsOK
<1> QED
  BY <1>1 DEF Run

\* One run goes on, and tells the other when the subscriptions change.
Moves(c, k) ==
    \/ runs' = [runs EXCEPT ![c] = k] /\ UNCHANGED subs
    \/ runs' = [Beside(c) EXCEPT ![c] = k]

\* The other runs keep all but the mark that they are alone.
LEMMA MovesTyped ==
    ASSUME runs \in [Runners -> Run], NEW c \in Runners, NEW k \in Run, Moves(c, k)
    PROVE  /\ runs' \in [Runners -> Run] /\ runs'[c] = k
           /\ \A x \in Runners \ {c} : /\ runs'[x].step = runs[x].step
                                       /\ runs'[x].todo = runs[x].todo
                                       /\ runs'[x].want = runs[x].want
                                       /\ runs'[x].doomed = runs[x].doomed
                                       /\ (runs'[x] = runs[x] /\ UNCHANGED subs) \/ ~runs'[x].alone
<1>1. PICK b : b = Beside(c) /\ b \in [Runners -> Run]
  BY BesideTyped
<1>2. \A x \in Runners \ {c} : /\ b[x].step = runs[x].step
                               /\ b[x].todo = runs[x].todo
                               /\ b[x].want = runs[x].want
                               /\ b[x].doomed = runs[x].doomed
                               /\ ~b[x].alone
  BY <1>1, BesideTyped
<1>3. CASE runs' = [runs EXCEPT ![c] = k] /\ UNCHANGED subs
  BY <1>3
<1>4. CASE runs' = [b EXCEPT ![c] = k]
  BY <1>1, <1>2, <1>4
<1> QED
  BY <1>1, <1>3, <1>4 DEF Moves

\* Its next state is one of a run, and no subscription is new to it.
LEMMA MovesOK ==
    ASSUME RunsOK, NEW c \in Runners, NEW k \in Run, Moves(c, k), k.todo \subseteq k.want,
           \A x \in Runners \ {c} : \A d \in runs[x].doomed, s \in subs' : SameId(s, d) => s.own,
           \A d \in k.doomed, s \in subs' : SameId(s, d) => s.own
    PROVE  RunsOK'
<1>1. runs \in [Runners -> Run] /\ \A x \in Runners : runs[x].todo \subseteq runs[x].want
  BY DEF RunsOK
<1>2. /\ runs' \in [Runners -> Run] /\ runs'[c] = k
      /\ \A x \in Runners \ {c} : /\ runs'[x].todo = runs[x].todo
                                  /\ runs'[x].want = runs[x].want
                                  /\ runs'[x].doomed = runs[x].doomed
  BY <1>1, MovesTyped
<1> QED
  BY <1>1, <1>2 DEF RunsOK

\* A run that ends has nothing to do.
LEMMA IdleTyped == IdleRun \in Run /\ IdleRun.todo = {} /\ IdleRun.doomed = {}
  BY DEF IdleRun, Run

-----------------------------------------------------------------------------
(* The steps of a reconciliation, each as a move of its run.               *)

\* The run knows what is wanted, unless the store failed.
LEMMA ReadMove ==
    ASSUME StateInv, NEW c \in Runners, ReadRegistrations(c)
    PROVE  \E k \in Run :
              /\ Moves(c, k) /\ k.step = "list" /\ ~k.wipe /\ k.todo = {} /\ k.doomed = {}
              /\ k.want = Desired \/ k.blind
<1>1. CASE runs' = [runs EXCEPT ![c] = [IdleRun EXCEPT !.step = "list", !.want = Desired]]
  <2>1. PICK want \in SUBSET Keys : want = Desired
    BY DesiredTyped
  <2>2. PICK k : k = [IdleRun EXCEPT !.step = "list", !.want = want]
    OBVIOUS
  <2>3. k \in Run /\ k.step = "list" /\ ~k.wipe /\ k.todo = {} /\ k.doomed = {} /\ k.want = want
    BY <2>1, <2>2 DEF IdleRun, Run
  <2>4. Moves(c, k)
    BY <1>1, <2>1, <2>2 DEF Moves, ReadRegistrations
  <2> QED
    BY <2>1, <2>3, <2>4
<1>2. CASE runs' = [runs EXCEPT ![c] = [IdleRun EXCEPT !.step = "list", !.blind = TRUE]]
  <2>1. PICK k : k = [IdleRun EXCEPT !.step = "list", !.blind = TRUE]
    OBVIOUS
  <2>2. k \in Run /\ k.step = "list" /\ ~k.wipe /\ k.todo = {} /\ k.doomed = {}
    BY <2>1 DEF IdleRun, Run
  <2>3. k.blind
    BY <2>1 DEF IdleRun
  <2>4. Moves(c, k)
    BY <1>2, <2>1 DEF Moves, ReadRegistrations
  <2> QED
    BY <2>2, <2>3, <2>4
<1> QED
  BY <1>1, <1>2 DEF ReadRegistrations

\* What a listing makes of a run r that keeps some of the usable subscriptions.
Listed(r, k, kept) ==
    /\ k \in Run /\ kept \subseteq subs
    /\ \A s \in kept : s.own /\ s.key \in r.want /\ Usable(s)
    /\ \A s \in subs : s.own /\ s.key \in r.want /\ Usable(s) => \E t \in kept : t.key = s.key
    /\ \A s, t \in kept : s.key = t.key => s = t
    /\ k.step = "delete" /\ k.want = r.want /\ k.wipe = r.wipe /\ k.alone = r.alone /\ k.blind = r.blind
    /\ \A s : s \in k.doomed <=> s \in subs /\ s.own /\ s \notin kept
    /\ \A q : q \in k.todo <=> q \in r.want /\ ~\E s \in kept : s.key = q

\* The listing ends the run when it fails.
LEMMA ListMove ==
    ASSUME StateInv, NEW c \in Runners, NEW r \in Run, r = runs[c], ListSubscriptions(c)
    PROVE  \/ Moves(c, IdleRun)
           \/ \E k, kept : Moves(c, k) /\ Listed(r, k, kept)
<1>1. CASE Ends(c)
  BY <1>1 DEF Ends, Moves, ListSubscriptions
<1>2. CASE ~Ends(c)
  <2>1. PICK kept \in SUBSET {s \in subs : s.own /\ s.key \in r.want /\ Usable(s)} :
              /\ \A s \in subs : s.own /\ s.key \in r.want /\ Usable(s) => \E t \in kept : t.key = s.key
              /\ \A s, t \in kept : s.key = t.key => s = t
              /\ runs' = [runs EXCEPT ![c].step = "delete", ![c].doomed = {s \in subs : s.own} \ kept,
                                      ![c].todo = r.want \ {s.key : s \in kept}]
    BY <1>2 DEF ListSubscriptions
  <2>2. PICK doomed, todo : doomed = {s \in subs : s.own} \ kept
                            /\ todo = r.want \ {s.key : s \in kept}
    OBVIOUS
  <2>3. doomed \subseteq Subscriptions /\ todo \subseteq Keys
    BY <2>2 DEF StateInv, Run
  <2>4. PICK k : k = [r EXCEPT !.step = "delete", !.doomed = doomed, !.todo = todo]
    OBVIOUS
  <2>5. k \in Run /\ k.step = "delete" /\ k.want = r.want /\ k.doomed = doomed /\ k.todo = todo
    BY <2>3, <2>4 DEF Run
  <2>6. k.wipe = r.wipe /\ k.alone = r.alone /\ k.blind = r.blind
    BY <2>4 DEF Run
  <2>7. runs' = [runs EXCEPT ![c] = k]
    BY <2>1, <2>2, <2>4 DEF StateInv, RunsOK
  <2>8. Moves(c, k)
    BY <2>7 DEF Moves, ListSubscriptions
  <2>9. kept \in SUBSET subs /\ \A s \in kept : s.own /\ s.key \in r.want /\ Usable(s)
    BY <2>1
  <2>10. /\ \A s : s \in k.doomed <=> s \in subs /\ s.own /\ s \notin kept
         /\ \A q : q \in k.todo <=> q \in r.want /\ ~\E s \in kept : s.key = q
    BY <2>2, <2>5
  <2> QED
    <3>1. Listed(r, k, kept)
      BY <2>1, <2>5, <2>6, <2>9, <2>10 DEF Listed
    <3> QED
      BY <2>8, <3>1
<1> QED
  BY <1>1, <1>2

\* What the deletion of d makes of a run r, and what the creation for a key.
Deleted(r, k, d) ==
    /\ k \in Run /\ k.step = "delete" /\ k.want = r.want /\ k.doomed = r.doomed \ {d}
    /\ k.wipe = r.wipe /\ k.alone = r.alone /\ k.blind = r.blind
    /\ \/ /\ subs' = {x \in subs : ~SameId(x, d)}
          /\ k.todo = r.todo /\ k.failed = r.failed
       \/ UNCHANGED subs /\ k.todo = r.todo \ {d.key} /\ k.failed
Created(r, k, key) ==
    /\ k \in Run /\ k.step = "delete" /\ k.want = r.want
    /\ r.doomed = {} /\ k.doomed = {} /\ k.todo = r.todo \ {key}
    /\ k.wipe = r.wipe /\ k.alone = r.alone /\ k.blind = r.blind
    /\ \/ UNCHANGED subs /\ k.failed
       \/ /\ k.failed \/ ~r.failed
          /\ \E id \in UnusedIds(key) : subs' = subs \cup {NewSub(key, id)}

\* A deletion, its failure, or the end of a deletion of all.
LEMMA DeleteMove ==
    ASSUME StateInv, NEW c \in Runners, NEW r \in Run, r = runs[c],
           NEW d \in r.doomed, DeleteSubscription(c, d)
    PROVE  \/ Moves(c, IdleRun) /\ UNCHANGED subs /\ (r.wipe \/ ~UNCHANGED upsets)
           \/ \E k : Moves(c, k) /\ Deleted(r, k, d)
<1>0. r.step = "delete" /\ runs \in [Runners -> Run]
  BY DEF DeleteSubscription, StateInv, RunsOK
<1>1. CASE Ends(c) /\ runs[c].wipe /\ UNCHANGED subs
  BY <1>1 DEF Ends, Moves
<1>2. CASE /\ subs' = {x \in subs : ~SameId(x, d)}
           /\ runs' = [(IF subs' = subs THEN runs ELSE Beside(c)) EXCEPT ![c].doomed = @ \ {d}]
  <2>1. PICK k : k = [r EXCEPT !.doomed = @ \ {d}]
    OBVIOUS
  <2>2. /\ k \in Run /\ k.step = "delete" /\ k.want = r.want /\ k.doomed = r.doomed \ {d}
        /\ k.todo = r.todo
    BY <1>0, <2>1 DEF Run
  <2>3. k.wipe = r.wipe /\ k.alone = r.alone /\ k.blind = r.blind /\ k.failed = r.failed
    BY <2>1 DEF Run
  <2>4. PICK b : b = Beside(c) /\ b \in [Runners -> Run] /\ b[c] = r
    BY <1>0, BesideTyped
  <2>5. CASE subs' = subs
    <3>1. runs' = [runs EXCEPT ![c].doomed = @ \ {d}]
      BY <1>2, <2>5
    <3>2. runs' = [runs EXCEPT ![c] = k]
      BY <1>0, <2>1, <3>1
    <3> QED
      BY <1>2, <2>2, <2>3, <2>5, <3>2 DEF Moves, Deleted
  <2>6. CASE subs' # subs
    <3>1. runs' = [b EXCEPT ![c].doomed = @ \ {d}]
      BY <1>2, <2>4, <2>6
    <3>2. runs' = [b EXCEPT ![c] = k]
      BY <2>1, <2>4, <3>1
    <3>3. Moves(c, k)
      BY <2>4, <3>2 DEF Moves
    <3> QED
      BY <1>2, <2>2, <2>3, <3>3 DEF Deleted
  <2> QED
    BY <2>5, <2>6
<1>3. CASE /\ runs' = [runs EXCEPT ![c].doomed = @ \ {d}, ![c].todo = @ \ {d.key}, ![c].failed = TRUE]
           /\ UNCHANGED subs
  <2>1. PICK k : k = [r EXCEPT !.doomed = @ \ {d}, !.todo = @ \ {d.key}, !.failed = TRUE]
    OBVIOUS
  <2>2. /\ k \in Run /\ k.step = "delete" /\ k.want = r.want /\ k.doomed = r.doomed \ {d}
        /\ k.todo = r.todo \ {d.key}
    BY <1>0, <2>1 DEF Run
  <2>3. k.wipe = r.wipe /\ k.alone = r.alone /\ k.blind = r.blind /\ k.failed
    BY <2>1 DEF Run
  <2>4. runs' = [runs EXCEPT ![c] = k]
    BY <1>0, <1>3, <2>1
  <2> QED
    BY <1>3, <2>2, <2>3, <2>4 DEF Moves, Deleted
<1> QED
  BY <1>1, <1>2, <1>3 DEF DeleteSubscription

\* A creation, a refusal or a failure.
LEMMA CreateMove ==
    ASSUME StateInv, NEW c \in Runners, NEW r \in Run, r = runs[c],
           NEW key \in r.todo, CreateSubscription(c, key)
    PROVE  \E k : Moves(c, k) /\ Created(r, k, key)
<1>0. r.step = "delete" /\ r.doomed = {} /\ runs \in [Runners -> Run]
  BY DEF CreateSubscription, StateInv, RunsOK
<1>1. CASE runs' = [runs EXCEPT ![c].todo = @ \ {key}, ![c].failed = TRUE] /\ UNCHANGED subs
  <2>1. PICK k : k = [r EXCEPT !.todo = @ \ {key}, !.failed = TRUE]
    OBVIOUS
  <2>2. /\ k \in Run /\ k.step = "delete" /\ k.want = r.want /\ k.doomed = {}
        /\ k.todo = r.todo \ {key}
    BY <1>0, <2>1 DEF Run
  <2>3. k.wipe = r.wipe /\ k.alone = r.alone /\ k.blind = r.blind /\ k.failed
    BY <2>1 DEF Run
  <2>4. runs' = [runs EXCEPT ![c] = k]
    BY <1>0, <1>1, <2>1
  <2> QED
    BY <1>0, <1>1, <2>2, <2>3, <2>4 DEF Moves, Created
<1>2. ASSUME NEW failed \in BOOLEAN, NEW id \in UnusedIds(key),
             subs' = subs \cup {NewSub(key, id)},
             runs' = [Beside(c) EXCEPT ![c].todo = @ \ {key}, ![c].failed = @ \/ failed]
      PROVE  \E k : Moves(c, k) /\ Created(r, k, key)
  <2>1. PICK f : f = (r.failed \/ failed)
    OBVIOUS
  <2>2. PICK k : k = [r EXCEPT !.todo = @ \ {key}, !.failed = f]
    OBVIOUS
  <2>3. r.failed \in BOOLEAN
    BY DEF Run
  <2>4. f \in BOOLEAN /\ (r.failed => f)
    BY <2>1, <2>3
  <2>5. /\ k \in Run /\ k.step = "delete" /\ k.want = r.want /\ k.doomed = {}
        /\ k.todo = r.todo \ {key}
    BY <1>0, <2>2, <2>4 DEF Run
  <2>6. k.wipe = r.wipe /\ k.alone = r.alone /\ k.blind = r.blind /\ k.failed = f
    BY <2>2 DEF Run
  <2>7. PICK b : b = Beside(c) /\ b \in [Runners -> Run] /\ b[c] = r
    BY <1>0, BesideTyped
  <2>8. runs' = [b EXCEPT ![c].todo = @ \ {key}, ![c].failed = f]
    BY <1>2, <2>1, <2>7
  <2>9. runs' = [b EXCEPT ![c] = k]
    BY <2>2, <2>7, <2>8
  <2>10. Moves(c, k)
    BY <2>7, <2>9 DEF Moves
  <2> QED
    <3>1. Created(r, k, key)
      BY <1>0, <1>2, <2>4, <2>5, <2>6 DEF Created
    <3> QED
      BY <2>10, <3>1
<1> QED
  BY <1>1, <1>2 DEF CreateSubscription

\* A new subscription has an id of its own.
LEMMA NewSubTyped ==
    ASSUME StateInv, NEW key \in Keys, NEW id \in UnusedIds(key)
    PROVE  /\ NewSub(key, id) \in Subscriptions /\ NewSub(key, id).own
           /\ NewSub(key, id).key = key /\ Usable(NewSub(key, id))
           /\ \A s \in subs : ~SameId(s, NewSub(key, id)) /\ ~SameId(NewSub(key, id), s)
           /\ \A c \in Runners : \A d \in runs[c].doomed : ~SameId(NewSub(key, id), d)
<1>1. id \in 1..MaxIds
  BY DEF UnusedIds
<1>2. PICK n : n = NewSub(key, id)
  OBVIOUS
<1>3. n.key = key /\ n.id = id /\ n.own /\ Usable(n) /\ n \in Subscriptions
  BY <1>1, <1>2 DEF NewSub, Subscriptions, Usable
<1>4. ASSUME NEW s \in subs \cup UNION {runs[c].doomed : c \in Runners}
      PROVE  ~(s.key = key /\ s.id = id)
  BY <1>4 DEF UnusedIds
<1> QED
  BY <1>2, <1>3, <1>4 DEF SameId

\* What stays the same in every step of a reconciliation.
LEMMA RunStepKeeps ==
    ASSUME NEW c \in Runners, RunStep(c), StateInv
    PROVE  /\ UNCHANGED <<regs, asked, owed, changes>>
           /\ unread' \subseteq Installations /\ lost' \subseteq unread'
           /\ upsets' \in 0..MaxUpsets
<1>1. upsets \in 0..MaxUpsets /\ unread \subseteq Installations /\ lost \subseteq unread
  BY DEF StateInv
<1>2. UNCHANGED upsets \/ Upset
  BY DEF RunStep, ReadRegistrations, ListSubscriptions, DeleteSubscription, CreateSubscription,
         ReconcileEnd, TwitchFails, bounds
<1>3. upsets' \in 0..MaxUpsets
  BY <1>1, <1>2, SubsAssumption DEF Upset
<1>4. \/ UNCHANGED <<unread, lost>>
      \/ unread' = {} /\ lost' = {}
      \/ unread' = unread /\ lost' = unread
  BY DEF RunStep, ReadRegistrations, ListSubscriptions, DeleteSubscription, CreateSubscription,
         ReconcileEnd
<1>5. UNCHANGED <<regs, asked, owed, changes>>
  BY DEF RunStep, ReadRegistrations, ListSubscriptions, DeleteSubscription, CreateSubscription,
         ReconcileEnd, bounds
<1> QED
  BY <1>1, <1>3, <1>4, <1>5

\* A step of a reconciliation keeps the types, the ids and the owners.
LEMMA RunStepState ==
    ASSUME StateInv, NEW c \in Runners, RunStep(c)
    PROVE  StateInv'
<1>0. PICK r \in Run : r = runs[c]
  BY DEF StateInv, RunsOK
<1>1. /\ RunsOK /\ subs \subseteq Subscriptions /\ \A s, t \in subs : SameId(s, t) => s = t
      /\ \A x \in Runners : \A d \in runs[x].doomed, s \in subs : SameId(s, d) => s.own
      /\ r.todo \subseteq r.want
  BY <1>0 DEF StateInv, RunsOK
<1> DEFINE Fine == RunsOK' /\ subs' \subseteq Subscriptions /\ \A s, t \in subs' : SameId(s, t) => s = t
<1> SUFFICES Fine
  BY RunStepKeeps DEF StateInv
<1>2. ASSUME Moves(c, IdleRun), UNCHANGED subs
      PROVE  Fine
  BY <1>1, <1>2, IdleTyped, MovesOK
<1>3. CASE ReadRegistrations(c)
  <2>1. PICK k \in Run : Moves(c, k) /\ k.todo = {} /\ k.doomed = {}
    BY <1>3, ReadMove
  <2>2. UNCHANGED subs
    BY <1>3 DEF ReadRegistrations
  <2>3. RunsOK'
    BY <1>1, <2>1, <2>2, MovesOK
  <2> QED
    BY <1>1, <2>2, <2>3
<1>4. CASE ListSubscriptions(c)
  <2>1. UNCHANGED subs
    BY <1>4 DEF ListSubscriptions
  <2>2. CASE Moves(c, IdleRun)
    BY <1>2, <2>1, <2>2
  <2>3. CASE ~Moves(c, IdleRun)
    <3>0. PICK k, kept : Moves(c, k) /\ Listed(r, k, kept)
      BY <1>0, <1>4, <2>3, ListMove
    <3>1. \A d \in k.doomed : d \in subs /\ d.own
      BY <3>0 DEF Listed
    <3>2. \A d \in k.doomed, s \in subs' : SameId(s, d) => s.own
      BY <1>1, <2>1, <3>1
    <3>3. k.todo \subseteq k.want
      BY <3>0 DEF Listed
    <3>4. RunsOK'
      BY <1>1, <2>1, <3>0, <3>2, <3>3, MovesOK DEF Listed
    <3> QED
      BY <1>1, <2>1, <3>4
  <2> QED
    BY <2>2, <2>3
<1>5. CASE ReconcileEnd(c)
  BY <1>2, <1>5 DEF ReconcileEnd, Ends, Moves
<1>6. ASSUME NEW d \in runs[c].doomed, DeleteSubscription(c, d)
      PROVE  Fine
  <2>1. ASSUME NEW k \in Run, Moves(c, k), k.want = r.want, k.doomed = r.doomed \ {d},
               subs' \subseteq subs, k.todo \subseteq r.todo
        PROVE  Fine
    <3>1. k.todo \subseteq k.want
      BY <1>1, <2>1
    <3>2. \A e \in k.doomed, s \in subs' : SameId(s, e) => s.own
      BY <1>0, <1>1, <2>1
    <3>3. \A x \in Runners \ {c} : \A e \in runs[x].doomed, s \in subs' : SameId(s, e) => s.own
      BY <1>1, <2>1
    <3>4. RunsOK'
      BY <1>1, <2>1, <3>1, <3>2, <3>3, MovesOK
    <3> QED
      BY <1>1, <2>1, <3>4
  <2>2. CASE ~Moves(c, IdleRun)
    <3>1. PICK k : Moves(c, k) /\ Deleted(r, k, d)
      BY <1>0, <1>6, <2>2, DeleteMove
    <3>2. /\ k \in Run /\ k.want = r.want /\ k.doomed = r.doomed \ {d}
          /\ subs' \subseteq subs /\ k.todo \subseteq r.todo
      BY <3>1 DEF Deleted
    <3> QED
      BY <2>1, <3>1, <3>2
  <2>3. CASE Moves(c, IdleRun)
    <3>1. \A x \in Runners \ {c} : \A e \in runs[x].doomed, s \in subs' : SameId(s, e) => s.own
      BY <1>1, <1>6 DEF DeleteSubscription
    <3>2. RunsOK'
      BY <1>1, <2>3, <3>1, IdleTyped, MovesOK
    <3> QED
      BY <1>1, <1>6, <3>2 DEF DeleteSubscription
  <2> QED
    BY <2>2, <2>3
<1>7. ASSUME NEW key \in runs[c].todo, CreateSubscription(c, key)
      PROVE  Fine
  <2>1. key \in Keys
    BY <1>0, <1>7 DEF Run
  <2>0. PICK k : Moves(c, k) /\ Created(r, k, key)
    BY <1>0, <1>7, CreateMove
  <2>2. /\ Moves(c, k) /\ k \in Run
        /\ k.want = r.want /\ k.doomed = {} /\ k.todo = r.todo \ {key}
        /\ \/ UNCHANGED subs
           \/ \E id \in UnusedIds(key) : subs' = subs \cup {NewSub(key, id)}
    BY <2>0 DEF Created
  <2>3. k.todo \subseteq k.want
    BY <1>1, <2>2
  <2>4. CASE UNCHANGED subs
    BY <1>1, <2>2, <2>3, <2>4, MovesOK
  <2>5. ASSUME NEW id \in UnusedIds(key), subs' = subs \cup {NewSub(key, id)}
        PROVE  Fine
    <3>1. PICK n \in Subscriptions : /\ n.own /\ subs' = subs \cup {n}
                                     /\ \A s \in subs : ~SameId(s, n) /\ ~SameId(n, s)
      BY <2>1, <2>5, NewSubTyped
    <3>2. \A s \in subs' : s \in subs \/ s.own
      BY <3>1
    <3>3. \A x \in Runners \ {c} : \A d \in runs[x].doomed, s \in subs' : SameId(s, d) => s.own
      BY <1>1, <3>2
    <3>4. RunsOK'
      BY <1>1, <2>2, <2>3, <3>3, MovesOK
    <3> QED
      BY <1>1, <3>1, <3>4
  <2> QED
    BY <2>2, <2>4, <2>5
<1> QED
  BY <1>3, <1>4, <1>5, <1>6, <1>7 DEF RunStep

\* A change at Twitch of the status of one subscription.
LEMMA BecomesTyped ==
    ASSUME StateInv, NEW s \in subs, NEW status \in {"enabled", "failed"}, Becomes(s, status)
    PROVE  /\ subs' \subseteq Subscriptions /\ \A t, u \in subs' : SameId(t, u) => t = u
           /\ \A t \in subs' : \E u \in subs : SameId(t, u) /\ t.own = u.own
<1>1. PICK n : n = [s EXCEPT !.status = status]
  OBVIOUS
<1>2. subs \subseteq Subscriptions /\ \A t, u \in subs : SameId(t, u) => t = u
  BY DEF StateInv
<1>3. n \in Subscriptions /\ n.key = s.key /\ n.id = s.id
  BY <1>1, <1>2 DEF Subscriptions
<1>4. n.own = s.own
  BY <1>1, <1>2 DEF Subscriptions
<1>5. subs' = (subs \ {s}) \cup {n}
  BY <1>1 DEF Becomes
<1>6. ASSUME NEW t \in subs', NEW u \in subs', SameId(t, u)
      PROVE  t = u
  BY <1>2, <1>3, <1>5, <1>6 DEF SameId
<1>7. ASSUME NEW t \in subs'
      PROVE  \E u \in subs : SameId(t, u) /\ t.own = u.own
  <2>1. CASE t = n
    BY <1>3, <1>4, <2>1 DEF SameId
  <2>2. CASE t \in subs
    BY <2>2 DEF SameId
  <2> QED
    BY <1>5, <2>1, <2>2
<1> QED
  BY <1>2, <1>3, <1>5, <1>6, <1>7

\* The runs are told, and the subscriptions keep their ids and their owners.
LEMMA BesideOK ==
    ASSUME RunsOK, runs' \in {runs, Beside(None)},
           \A t \in subs' : \E u \in subs : SameId(t, u) /\ t.own = u.own
    PROVE  RunsOK'
<1>1. runs \in [Runners -> Run]
  BY DEF RunsOK
<1>2. /\ runs' \in [Runners -> Run]
      /\ \A x \in Runners : /\ runs'[x].todo = runs[x].todo
                            /\ runs'[x].want = runs[x].want
                            /\ runs'[x].doomed = runs[x].doomed
  BY <1>1, BesideTyped
<1>3. \A x \in Runners : runs'[x].todo \subseteq runs'[x].want
  BY <1>2 DEF RunsOK
<1>4. ASSUME NEW x \in Runners, NEW d \in runs'[x].doomed, NEW s \in subs', SameId(s, d)
      PROVE  s.own
  <2>1. PICK u \in subs : SameId(s, u) /\ s.own = u.own
    OBVIOUS
  <2>2. SameId(u, d) /\ d \in runs[x].doomed
    BY <1>2, <1>4, <2>1 DEF SameId
  <2> QED
    BY <2>1, <2>2 DEF RunsOK
<1> QED
  BY <1>2, <1>3, <1>4 DEF RunsOK

\* The loop goes to another step of its round.
LEMMA GotoMove ==
    ASSUME StateInv, NEW step \in {"wait", "read"}, Goto("loop", step), UNCHANGED subs
    PROVE  \E k \in Run : /\ Moves("loop", k) /\ k.step = step
                          /\ k.todo = runs["loop"].todo /\ k.want = runs["loop"].want
                          /\ k.doomed = runs["loop"].doomed
<1>1. runs \in [Runners -> Run] /\ "loop" \in Runners
  BY DEF StateInv, RunsOK, Runners
<1>2. PICK r \in Run : r = runs["loop"]
  BY <1>1
<1>3. PICK k : k = [r EXCEPT !.step = step]
  OBVIOUS
<1>4. /\ k \in Run /\ k.step = step /\ k.todo = r.todo /\ k.want = r.want
      /\ k.doomed = r.doomed
  BY <1>3 DEF Run
<1>5. runs' = [runs EXCEPT !["loop"] = k]
  BY <1>1, <1>2, <1>3 DEF Goto
<1>6. Moves("loop", k)
  BY <1>5 DEF Moves
<1> QED
  BY <1>2, <1>4, <1>6

\* A call of the admin.
LEMMA AdminMove ==
    ASSUME NEW wipe \in BOOLEAN, AdminBegin(wipe)
    PROVE  \E k \in Run : /\ Moves("admin", k) /\ k.todo = {} /\ k.doomed = {}
                          /\ k.wipe \/ k.step = "read"
<1>1. PICK step : step = IF wipe THEN "list" ELSE "read"
  OBVIOUS
<1>2. PICK k : k = [IdleRun EXCEPT !.step = step, !.wipe = wipe]
  OBVIOUS
<1>3. step \in {"list", "read"}
  BY <1>1
<1>4. k \in Run /\ k.todo = {} /\ k.doomed = {} /\ k.step = step /\ k.wipe = wipe
  BY <1>2, <1>3 DEF IdleRun, Run
<1>5. k.wipe \/ k.step = "read"
  BY <1>1, <1>4
<1>6. Moves("admin", k)
  BY <1>1, <1>2 DEF Moves, AdminBegin
<1> QED
  BY <1>4, <1>5, <1>6

\* The runs of a new process.
NewRuns == [c \in Runners |-> IF c = "loop" THEN [IdleRun EXCEPT !.step = "read"] ELSE IdleRun]

\* None of them is at work.
LEMMA NewRunsTyped ==
    /\ NewRuns \in [Runners -> Run]
    /\ \A c \in Runners : /\ NewRuns[c].todo = {} /\ NewRuns[c].doomed = {}
                          /\ NewRuns[c].step \in {"idle", "read"}
<1>1. IdleRun \in Run /\ IdleRun.todo = {} /\ IdleRun.doomed = {} /\ IdleRun.step = "idle"
  BY DEF IdleRun, Run
<1>2. PICK k : k = [IdleRun EXCEPT !.step = "read"]
  OBVIOUS
<1>3. k \in Run /\ k.todo = {} /\ k.doomed = {} /\ k.step = "read"
  BY <1>2 DEF IdleRun, Run
<1>4. \A c \in Runners : NewRuns[c] \in {k, IdleRun}
  BY <1>2 DEF NewRuns
<1> QED
  BY <1>1, <1>3, <1>4 DEF NewRuns

\* The start has the types, and no run is at work.
LEMMA InitState == SubsInit => StateInv
<1> SUFFICES ASSUME SubsInit
             PROVE  StateInv
  OBVIOUS
<1>1. runs = NewRuns
  BY DEF SubsInit, NewRuns
<1>2. RunsOK
  BY <1>1, NewRunsTyped DEF RunsOK
<1>3. regs \in [Installations -> RegValues \cup {None}]
  BY DEF SubsInit
<1>4. changes \in 0..MaxChanges /\ upsets \in 0..MaxUpsets
  BY SubsAssumption DEF SubsInit
<1> QED
  BY <1>2, <1>3, <1>4, SubsAssumption DEF SubsInit, StateInv

\* Every step keeps the types, the ids and the owners.
LEMMA StateStep ==
    ASSUME StateInv, [SubsNext]_subsVars
    PROVE  StateInv'
<1>0. /\ RunsOK /\ subs \subseteq Subscriptions /\ \A s, t \in subs : SameId(s, t) => s = t
      /\ \A x \in Runners : \A d \in runs[x].doomed, s \in subs : SameId(s, d) => s.own
      /\ \A x \in Runners : runs[x].todo \subseteq runs[x].want
  BY DEF StateInv, RunsOK
<1>1. \A t \in subs : \E u \in subs : SameId(t, u) /\ t.own = u.own
  BY DEF SameId
<1>2. (Upset \/ UNCHANGED upsets) => upsets' \in 0..MaxUpsets
  BY SubsAssumption DEF StateInv, Upset
<1>3. (Change \/ UNCHANGED changes) => changes' \in 0..MaxChanges
  BY SubsAssumption DEF StateInv, Change
<1>4. ASSUME NEW i \in Installations, NEW r \in RegValues \cup {None}, SaveRegistration(i, r)
      PROVE  StateInv'
  <2>1. RunsOK'
    BY <1>0, <1>1, <1>4, BesideOK DEF SaveRegistration
  <2>2. regs' \in [Installations -> RegValues \cup {None}]
    BY <1>4 DEF SaveRegistration, StateInv
  <2> QED
    BY <1>2, <1>3, <1>4, <2>1, <2>2 DEF SaveRegistration, StateInv
<1>5. ASSUME NEW h \in owed, RequestReconcile(h)
      PROVE  StateInv'
  BY <1>5 DEF RequestReconcile, StateInv, RunsOK, bounds
<1>6. ASSUME NEW step \in {"wait", "read"}, Goto("loop", step), asked' \in BOOLEAN,
             UNCHANGED <<regs, subs, owed, unread, lost, bounds>>
      PROVE  StateInv'
  <2>1. "loop" \in Runners
    BY DEF Runners
  <2>2. PICK k \in Run : /\ Moves("loop", k) /\ k.todo = runs["loop"].todo
                         /\ k.want = runs["loop"].want /\ k.doomed = runs["loop"].doomed
    BY <1>6, GotoMove
  <2>3. RunsOK'
    BY <1>0, <1>6, <2>1, <2>2, MovesOK
  <2> QED
    BY <1>6, <2>3 DEF StateInv, bounds
<1>7. CASE LoopTick \/ LoopWake \/ LoopDrain
  BY <1>6, <1>7 DEF LoopTick, LoopWake, LoopDrain, StateInv
<1>8. ASSUME NEW wipe \in BOOLEAN, AdminBegin(wipe)
      PROVE  StateInv'
  <2>1. "admin" \in Runners
    BY DEF Runners
  <2>2. PICK k \in Run : Moves("admin", k) /\ k.todo = {} /\ k.doomed = {}
    BY <1>8, AdminMove
  <2>3. UNCHANGED subs
    BY <1>8 DEF AdminBegin
  <2>4. RunsOK'
    BY <1>0, <2>1, <2>2, <2>3, MovesOK
  <2> QED
    BY <1>3, <1>8, <2>4 DEF AdminBegin, StateInv
<1>9. ASSUME NEW c \in Runners, RunStep(c)
      PROVE  StateInv'
  BY <1>9, RunStepState
<1>10. ASSUME NEW s \in subs, Verified(s)
       PROVE  StateInv'
  <2>1. /\ subs' \subseteq Subscriptions /\ \A t, u \in subs' : SameId(t, u) => t = u
        /\ \A t \in subs' : \E u \in subs : SameId(t, u) /\ t.own = u.own
    BY <1>10, BecomesTyped DEF Verified
  <2>2. RunsOK'
    BY <1>0, <1>10, <2>1, BesideOK DEF Verified
  <2> QED
    BY <1>10, <2>1, <2>2 DEF Verified, StateInv, bounds
<1>11. ASSUME NEW s \in subs, GivenUp(s)
       PROVE  StateInv'
  <2>1. /\ subs' \subseteq Subscriptions /\ \A t, u \in subs' : SameId(t, u) => t = u
        /\ \A t \in subs' : \E u \in subs : SameId(t, u) /\ t.own = u.own
    BY <1>11, BecomesTyped DEF GivenUp
  <2>2. RunsOK'
    BY <1>0, <1>11, <2>1, BesideOK DEF GivenUp
  <2>3. owed' \subseteq Installations \cup {Twitch}
    BY <1>11 DEF GivenUp, StateInv
  <2> QED
    BY <1>2, <1>11, <2>1, <2>2, <2>3 DEF GivenUp, StateInv
<1>12. CASE SubsCrash
  <2>1. runs' = NewRuns
    BY <1>12 DEF SubsCrash, NewRuns
  <2>2. RunsOK'
    BY <2>1, NewRunsTyped DEF RunsOK
  <2> QED
    BY <1>2, <1>12, <2>2 DEF SubsCrash, StateInv
<1>13. CASE UNCHANGED subsVars
  BY <1>13 DEF subsVars, bounds, StateInv, RunsOK
<1> QED
  BY <1>4, <1>5, <1>7, <1>8, <1>9, <1>10, <1>11, <1>12, <1>13 DEF SubsNext

\* The state of the reconciler has its type: what a run wants and is about to create are
\* keys, and what it is about to delete are subscriptions.
THEOREM SubsTypes == SubsSpec => []SubsTypeOK
  BY InitState, StateStep, StateTypes, PTL DEF SubsSpec

-----------------------------------------------------------------------------
(* A reconciliation that nothing overlaps.                                 *)

\* A run that does not move, while nothing else does.
LEMMA RunKept ==
    ASSUME NEW x, RunOK(x), runs'[x] = runs[x], UNCHANGED <<subs, regs>>
    PROVE  RunOK(x)'
<1>1. Desired' = Desired
  BY DEF Desired, Saved
<1>2. Live' = Live
  BY DEF Live
<1> QED
  BY <1>1, <1>2 DEF RunOK, Apart, Current, Spared, Exact, Doomed

\* Nothing is promised of a run that was overlapped, deletes all, knows no
\* registrations or has not begun.
LEMMA RunFree ==
    ASSUME NEW x,
           \/ ~runs'[x].alone \/ runs'[x].blind \/ runs'[x].wipe
           \/ runs'[x].step \notin {"list", "delete"}
    PROVE  RunOK(x)'
  BY DEF RunOK, Apart

\* The other runs, when one moves.
LEMMA OthersOK ==
    ASSUME StateInv, \A x \in Runners : RunOK(x), UNCHANGED regs,
           NEW c \in Runners, NEW k \in Run, Moves(c, k), RunOK(c)'
    PROVE  \A x \in Runners : RunOK(x)'
<1> SUFFICES ASSUME NEW x \in Runners \ {c}
             PROVE  RunOK(x)'
  OBVIOUS
<1>1. (runs'[x] = runs[x] /\ UNCHANGED subs) \/ ~runs'[x].alone
  BY MovesTyped DEF StateInv, RunsOK
<1> QED
  BY <1>1, RunKept, RunFree

\* The run has read the registrations.
LEMMA ReadRun ==
    ASSUME StateInv, NEW c \in Runners, ReadRegistrations(c)
    PROVE  RunOK(c)'
<1>1. PICK k \in Run : /\ Moves(c, k) /\ k.step = "list" /\ ~k.wipe /\ k.todo = {} /\ k.doomed = {}
                       /\ k.want = Desired \/ k.blind
  BY ReadMove
<1>2. runs'[c] = k
  BY <1>1, MovesTyped DEF StateInv, RunsOK
<1>3. Desired' = Desired
  BY DEF ReadRegistrations, Desired, Saved
<1> QED
  BY <1>1, <1>2, <1>3 DEF RunOK, Apart, Current

\* The listing keeps one of the usable subscriptions of each wanted key.
LEMMA ListRun ==
    ASSUME StateInv, NEW c \in Runners, RunOK(c), ListSubscriptions(c)
    PROVE  RunOK(c)'
<1>0. PICK r \in Run : r = runs[c]
  BY DEF StateInv, RunsOK
<1>1. UNCHANGED <<subs, regs>> /\ r.step = "list"
  BY <1>0 DEF ListSubscriptions
<1>2. CASE Moves(c, IdleRun)
  <2>1. runs'[c] = IdleRun
    BY <1>2, IdleTyped, MovesTyped DEF StateInv, RunsOK
  <2> QED
    BY <2>1, RunFree DEF IdleRun
<1>3. CASE ~Moves(c, IdleRun)
  <2>1. PICK k, kept : Moves(c, k) /\ Listed(r, k, kept)
    BY <1>0, <1>3, ListMove
  <2>2. k \in Run /\ k.want = r.want /\ k.wipe = r.wipe /\ k.alone = r.alone /\ k.blind = r.blind
    BY <2>1 DEF Listed
  <2>3. runs'[c] = k
    BY <2>1, <2>2, MovesTyped DEF StateInv, RunsOK
  <2>4. Apart(c)' => k.want = Desired'
    <3>1. Desired' = Desired
      BY <1>1 DEF Desired, Saved
    <3> QED
      BY <1>0, <1>1, <2>2, <2>3, <3>1 DEF RunOK, Apart, Current
  <2>5. Live' = Live
    BY <1>1 DEF Live
  <2>6. ASSUME NEW s \in subs
        PROVE  s.own => (Doomed(c, s)' <=> s \notin kept)
    <3>1. \A t, u \in subs : SameId(t, u) => t = u
      BY DEF StateInv
    <3>2. Doomed(c, s)' <=> \E d \in k.doomed : SameId(s, d)
      BY <2>3 DEF Doomed
    <3>3. \A d : d \in k.doomed <=> d \in subs /\ d.own /\ d \notin kept
      BY <2>1 DEF Listed
    <3>4. SameId(s, s)
      BY DEF SameId
    <3> QED
      BY <3>1, <3>2, <3>3, <3>4
  <2>7. /\ kept \subseteq Live
        /\ \A s \in kept : s.own /\ s \in subs /\ s.key \in k.want /\ s.key \notin k.todo /\ Usable(s)
    BY <2>1 DEF Listed, Live
  <2>8. Spared(c)'
    <3>1. \A s \in Live : s.key \in k.want => \E t \in kept : t.key = s.key
      BY <2>1 DEF Listed, Live
    <3>2. \A s \in Live : s.key \in k.want => \E t \in Live : t.key = s.key /\ ~Doomed(c, t)'
      BY <2>6, <2>7, <3>1
    <3> QED
      BY <2>3, <2>5, <3>2 DEF Spared
  <2>9. Exact(c)'
    <3>1. \A q \in k.want \ k.todo : \E s \in kept : s.key = q
      BY <2>1 DEF Listed
    <3>2. \A q \in k.want \ k.todo : \E s \in Live : s.key = q /\ ~Doomed(c, s)'
      BY <2>6, <2>7, <3>1
    <3>3. \A s \in subs : s.own /\ ~Doomed(c, s)' => Usable(s) /\ s.key \in k.want \ k.todo
      BY <2>6, <2>7
    <3>4. \A s, t \in kept : s.key = t.key => s = t
      BY <2>1 DEF Listed
    <3>5. \A s, t \in subs : s.own /\ t.own /\ s.key = t.key /\ ~Doomed(c, s)' /\ ~Doomed(c, t)' => s = t
      BY <2>6, <3>4
    <3> QED
      BY <1>1, <2>3, <2>5, <3>2, <3>3, <3>5 DEF Exact, Usable
  <2> QED
    BY <2>3, <2>4, <2>8, <2>9 DEF RunOK, Current
<1> QED
  BY <1>2, <1>3

\* A deletion takes away what was doomed.
LEMMA DeleteRun ==
    ASSUME StateInv, NEW c \in Runners, RunOK(c), NEW d \in runs[c].doomed, DeleteSubscription(c, d)
    PROVE  RunOK(c)'
<1>0. PICK r \in Run : r = runs[c]
  BY DEF StateInv, RunsOK
<1>1. UNCHANGED regs /\ r.step = "delete" /\ d \in r.doomed
  BY <1>0 DEF DeleteSubscription
<1>2. CASE Moves(c, IdleRun)
  <2>1. runs'[c] = IdleRun
    BY <1>2, IdleTyped, MovesTyped DEF StateInv, RunsOK
  <2> QED
    BY <2>1, RunFree DEF IdleRun
<1>3. CASE ~Moves(c, IdleRun)
  <2>0. PICK k : Moves(c, k) /\ Deleted(r, k, d)
    BY <1>0, <1>1, <1>3, DeleteMove
  <2>1. /\ Moves(c, k) /\ k \in Run /\ k.step = "delete" /\ k.want = r.want
        /\ k.doomed = r.doomed \ {d} /\ k.wipe = r.wipe /\ k.alone = r.alone /\ k.blind = r.blind
        /\ \/ /\ subs' = {x \in subs : ~SameId(x, d)}
              /\ k.todo = r.todo /\ k.failed = r.failed
           \/ UNCHANGED subs /\ k.failed
    BY <2>0 DEF Deleted
  <2>2. runs'[c] = k
    BY <2>1, MovesTyped DEF StateInv, RunsOK
  <2>3. Apart(c)' => Apart(c) /\ Spared(c) /\ (r.failed \/ Exact(c)) /\ Current(c)'
    <3>1. Desired' = Desired
      BY <1>1 DEF Desired, Saved
    <3> QED
      BY <1>0, <1>1, <2>1, <2>2, <3>1 DEF RunOK, Apart, Current
  <2>4. \A s : Doomed(c, s)' <=> \E e \in r.doomed \ {d} : SameId(s, e)
    BY <2>1, <2>2 DEF Doomed
  <2>5. \A s : Doomed(c, s) <=> \E e \in r.doomed : SameId(s, e)
    BY <1>0 DEF Doomed
  <2>6. CASE UNCHANGED subs /\ k.failed
    <3>1. Live' = Live
      BY <2>6 DEF Live
    <3>2. Spared(c) => Spared(c)'
      BY <1>0, <2>1, <2>2, <2>4, <2>5, <3>1 DEF Spared
    <3> QED
      BY <2>2, <2>3, <2>6, <3>2 DEF RunOK
  <2>7. CASE subs' = {x \in subs : ~SameId(x, d)} /\ k.todo = r.todo /\ k.failed = r.failed
    <3>1. \A s \in subs' : s \in subs /\ ~SameId(s, d)
      BY <2>7
    <3>2. \A s \in subs : ~Doomed(c, s) => s \in subs' /\ ~Doomed(c, s)'
      BY <1>1, <2>4, <2>5, <2>7
    <3>3. \A s \in subs' : Doomed(c, s) => Doomed(c, s)'
      BY <2>4, <2>5, <3>1
    <3>4. /\ \A s \in Live' : s \in Live /\ s \in subs'
          /\ \A s \in Live : s \in subs /\ (s \in subs' => s \in Live')
      BY <3>1 DEF Live, Usable
    <3>5. Spared(c) => Spared(c)'
      BY <1>0, <2>1, <2>2, <3>2, <3>4 DEF Spared
    <3>6. Exact(c) => Exact(c)'
      <4> SUFFICES ASSUME Exact(c)
                   PROVE  Exact(c)'
        OBVIOUS
      <4>1. \A q \in k.want \ k.todo : \E s \in Live' : s.key = q /\ ~Doomed(c, s)'
        BY <1>0, <2>1, <2>7, <3>2, <3>4 DEF Exact
      <4>2. \A s \in subs' : s.own /\ ~Doomed(c, s)' => Usable(s) /\ s.key \in k.want \ k.todo
        BY <1>0, <2>1, <2>7, <3>1, <3>3 DEF Exact
      <4>3. \A s, t \in subs' : s.own /\ t.own /\ s.key = t.key /\ ~Doomed(c, s)' /\ ~Doomed(c, t)' =>
               s = t
        BY <3>1, <3>3 DEF Exact
      <4> QED
        BY <2>2, <4>1, <4>2, <4>3 DEF Exact, Usable
    <3> QED
      BY <2>2, <2>3, <2>7, <3>5, <3>6 DEF RunOK
  <2> QED
    BY <2>1, <2>6, <2>7
<1> QED
  BY <1>2, <1>3

\* A creation adds the subscription that was missing.
LEMMA CreateRun ==
    ASSUME StateInv, NEW c \in Runners, RunOK(c), NEW key \in runs[c].todo, CreateSubscription(c, key)
    PROVE  RunOK(c)'
<1>0. PICK r \in Run : r = runs[c]
  BY DEF StateInv, RunsOK
<1>1. UNCHANGED regs /\ r.step = "delete" /\ key \in r.todo /\ key \in r.want
  BY <1>0 DEF CreateSubscription, StateInv, RunsOK
<1> PICK k : Moves(c, k) /\ Created(r, k, key)
  BY <1>0, CreateMove
<1>2. /\ Moves(c, k) /\ k \in Run /\ k.step = "delete" /\ k.want = r.want
      /\ r.doomed = {} /\ k.doomed = {} /\ k.todo = r.todo \ {key}
      /\ k.wipe = r.wipe /\ k.alone = r.alone /\ k.blind = r.blind
      /\ k.failed \/ (~r.failed /\ \E id \in UnusedIds(key) : subs' = subs \cup {NewSub(key, id)})
  BY DEF Created
<1>3. runs'[c] = k
  BY <1>2, MovesTyped DEF StateInv, RunsOK
<1>4. Apart(c)' => Apart(c) /\ (r.failed \/ Exact(c)) /\ Current(c)'
  <2>1. Desired' = Desired
    BY <1>1 DEF Desired, Saved
  <2> QED
    BY <1>0, <1>1, <1>2, <1>3, <2>1 DEF RunOK, Apart, Current
<1>5. \A s : ~Doomed(c, s)' /\ ~Doomed(c, s)
  BY <1>0, <1>2, <1>3 DEF Doomed
<1>6. Spared(c)'
  BY <1>5 DEF Spared
<1>7. CASE k.failed
  BY <1>3, <1>4, <1>6, <1>7 DEF RunOK
<1>8. CASE ~k.failed
  <2>1. ~r.failed /\ key \in Keys
    BY <1>1, <1>2, <1>8 DEF Run
  <2>2. PICK n : /\ n.own /\ n.key = key /\ Usable(n) /\ subs' = subs \cup {n}
    BY <1>2, <1>8, <2>1, NewSubTyped
  <2>3. Live' = Live \cup {n}
    BY <2>2 DEF Live, Usable
  <2>4. Exact(c) => Exact(c)'
    <3> SUFFICES ASSUME Exact(c)
                 PROVE  Exact(c)'
      OBVIOUS
    <3>1. \A q \in r.want \ r.todo : \E s \in Live : s.key = q
      BY <1>0 DEF Exact
    <3>2. \A s \in subs : s.own => Usable(s) /\ s.key \in r.want \ r.todo
      BY <1>0, <1>5 DEF Exact
    <3>3. \A s, t \in subs : s.own /\ t.own /\ s.key = t.key => s = t
      BY <1>5 DEF Exact
    <3>4. \A q \in k.want \ k.todo : \E s \in Live' : s.key = q
      BY <1>2, <2>2, <2>3, <3>1
    <3>5. \A s \in subs' : s.own => Usable(s) /\ s.key \in k.want \ k.todo
      BY <1>1, <1>2, <2>2, <3>2
    <3>6. \A s, t \in subs' : s.own /\ t.own /\ s.key = t.key => s = t
      BY <1>1, <2>2, <3>2, <3>3
    <3> QED
      BY <1>3, <1>5, <3>4, <3>5, <3>6 DEF Exact, Usable
  <2> QED
    BY <1>3, <1>4, <1>6, <2>1, <2>4 DEF RunOK
<1> QED
  BY <1>7, <1>8

\* The answered challenge changes nothing that a run relies on.
LEMMA VerifiedRun ==
    ASSUME StateInv, StateInv', NEW x \in Runners, RunOK(x), NEW s \in subs, Verified(s)
    PROVE  RunOK(x)'
<1>1. PICK n : n = [s EXCEPT !.status = "enabled"]
  OBVIOUS
<1>2. s \in Subscriptions /\ subs' = (subs \ {s}) \cup {n} /\ UNCHANGED <<regs, runs>>
  BY <1>1 DEF Verified, Becomes, StateInv
<1>3. n.key = s.key /\ n.id = s.id /\ Usable(n) /\ Usable(s)
  BY <1>1, <1>2 DEF Verified, Usable, Subscriptions
<1>4. n.own = s.own
  BY <1>1, <1>2 DEF Subscriptions
<1>5. PICK r : r = runs[x] /\ r = runs'[x]
  BY <1>2
<1>6. Desired' = Desired
  BY <1>2 DEF Desired, Saved
<1>7. \A t, u : SameId(t, u) => (Doomed(x, t)' <=> Doomed(x, u)) /\ (Doomed(x, u)' <=> Doomed(x, t))
  BY <1>2 DEF Doomed, SameId
<1> DEFINE Alike(t, u) == SameId(t, u) /\ t.key = u.key /\ t.own = u.own /\ (Usable(t) <=> Usable(u))
<1>8. \A t \in subs' : \E u \in subs : Alike(t, u)
  BY <1>2, <1>3, <1>4 DEF SameId
<1>9. \A u \in subs : \E t \in subs' : Alike(t, u)
  BY <1>2, <1>3, <1>4 DEF SameId
<1> HIDE DEF Alike
<1>10. \A t, u : Alike(t, u) => /\ SameId(t, u) /\ t.key = u.key /\ t.own = u.own
                                /\ Usable(t) <=> Usable(u)
                                /\ Doomed(x, t)' <=> Doomed(x, u)
  BY <1>7 DEF Alike
<1>11. /\ \A t \in Live' : \E u \in Live : Alike(t, u)
       /\ \A u \in Live : \E t \in Live' : Alike(t, u)
  <2>1. /\ \A t : t \in Live' <=> t \in subs' /\ t.own /\ Usable(t)
        /\ \A t : t \in Live <=> t \in subs /\ t.own /\ Usable(t)
    BY DEF Live, Usable
  <2> QED
    BY <1>8, <1>9, <1>10, <2>1
<1>12. Spared(x) => Spared(x)'
  <2> SUFFICES ASSUME Spared(x), NEW t \in Live', t.key \in r.want
               PROVE  \E v \in Live' : v.key = t.key /\ ~Doomed(x, v)'
    BY <1>5 DEF Spared
  <2>1. PICK u \in Live : u.key = t.key
    BY <1>10, <1>11
  <2>2. PICK w \in Live : w.key = t.key /\ ~Doomed(x, w)
    BY <1>5, <2>1 DEF Spared
  <2>3. PICK v \in Live' : Alike(v, w)
    BY <1>11
  <2> QED
    BY <1>10, <2>2, <2>3
<1>13. Exact(x) => Exact(x)'
  <2> SUFFICES ASSUME Exact(x)
               PROVE  Exact(x)'
    OBVIOUS
  <2>1. \A q \in r.want \ r.todo : \E t \in Live' : t.key = q /\ ~Doomed(x, t)'
    <3>1. \A q \in r.want \ r.todo : \E u \in Live : u.key = q /\ ~Doomed(x, u)
      BY <1>5 DEF Exact
    <3> SUFFICES ASSUME NEW q \in r.want \ r.todo
                 PROVE  \E t \in Live' : t.key = q /\ ~Doomed(x, t)'
      OBVIOUS
    <3>2. PICK u \in Live : u.key = q /\ ~Doomed(x, u)
      BY <3>1
    <3>3. PICK t \in Live' : Alike(t, u)
      BY <1>11
    <3> QED
      BY <1>10, <3>2, <3>3
  <2>2. \A t \in subs' : t.own /\ ~Doomed(x, t)' => Usable(t) /\ t.key \in r.want \ r.todo
    BY <1>5, <1>8, <1>10 DEF Exact
  <2>3. ASSUME NEW t \in subs', NEW v \in subs', t.own, v.own, t.key = v.key,
               ~Doomed(x, t)', ~Doomed(x, v)'
        PROVE  t = v
    <3>1. PICK u \in subs : SameId(t, u) /\ u.own /\ u.key = t.key /\ ~Doomed(x, u)
      BY <1>8, <1>10, <2>3
    <3>2. PICK w \in subs : SameId(v, w) /\ w.own /\ w.key = v.key /\ ~Doomed(x, w)
      BY <1>8, <1>10, <2>3
    <3>3. u = w
      BY <2>3, <3>1, <3>2 DEF Exact
    <3>4. SameId(t, v)
      BY <2>3, <3>1, <3>2, <3>3 DEF SameId
    <3> QED
      BY <3>4 DEF StateInv
  <2> QED
    BY <1>5, <2>1, <2>2, <2>3 DEF Exact, Usable
<1> QED
  BY <1>2, <1>5, <1>6, <1>12, <1>13 DEF RunOK, Apart, Current

\* The inductive invariant holds at the start.
LEMMA InitSubs == SubsInit => SubsInv
<1> SUFFICES ASSUME SubsInit
             PROVE  \A c \in Runners : RunOK(c)
  BY InitState DEF SubsInv
<1>1. runs = NewRuns
  BY DEF SubsInit, NewRuns
<1> QED
  BY <1>1, NewRunsTyped DEF RunOK

\* A step of one reconciliation.
LEMMA RunStepRun ==
    ASSUME SubsInv, NEW c \in Runners, RunStep(c)
    PROVE  \A x \in Runners : RunOK(x)'
<1>0. StateInv /\ \A x \in Runners : RunOK(x)
  BY DEF SubsInv
<1>1. UNCHANGED regs
  BY <1>0, RunStepKeeps
<1>2. PICK r \in Run : r = runs[c]
  BY <1>0 DEF StateInv, RunsOK
<1>3. CASE Moves(c, IdleRun)
  <2>1. runs'[c] = IdleRun
    BY <1>0, <1>3, IdleTyped, MovesTyped DEF StateInv, RunsOK
  <2>2. RunOK(c)'
    BY <2>1, RunFree DEF IdleRun
  <2> QED
    BY <1>0, <1>1, <1>3, <2>2, IdleTyped, OthersOK
<1>4. CASE ~Moves(c, IdleRun)
  <2>1. ~ReconcileEnd(c)
    BY <1>4 DEF ReconcileEnd, Ends, Moves
  <2>2. RunOK(c)'
    BY <1>0, <2>1, ReadRun, ListRun, DeleteRun, CreateRun DEF RunStep
  <2>3. \E k \in Run : Moves(c, k)
    <3>1. CASE ReadRegistrations(c)
      BY <1>0, <3>1, ReadMove
    <3>2. CASE ListSubscriptions(c)
      BY <1>0, <1>2, <1>4, <3>2, ListMove DEF Listed
    <3>3. ASSUME NEW d \in runs[c].doomed, DeleteSubscription(c, d)
          PROVE  \E k \in Run : Moves(c, k)
      BY <1>0, <1>2, <1>4, <3>3, DeleteMove DEF Deleted
    <3>4. ASSUME NEW key \in runs[c].todo, CreateSubscription(c, key)
          PROVE  \E k \in Run : Moves(c, k)
      BY <1>0, <1>2, <3>4, CreateMove DEF Created
    <3> QED
      BY <2>1, <3>1, <3>2, <3>3, <3>4 DEF RunStep
  <2> QED
    BY <1>0, <1>1, <2>2, <2>3, OthersOK
<1> QED
  BY <1>3, <1>4

\* Every step.
LEMMA SubsStep ==
    ASSUME SubsInv, [SubsNext]_subsVars
    PROVE  SubsInv'
<1>0. StateInv /\ StateInv' /\ \A x \in Runners : RunOK(x)
  BY StateStep DEF SubsInv
<1> SUFFICES \A x \in Runners : RunOK(x)'
  BY <1>0 DEF SubsInv
<1>1. runs \in [Runners -> Run]
  BY <1>0 DEF StateInv, RunsOK
<1>2. ASSUME runs' = Beside(None)
      PROVE  \A x \in Runners : RunOK(x)'
  <2>1. \A x \in Runners : ~runs'[x].alone
    BY <1>1, <1>2, BesideTyped, SubsAssumption
  <2> QED
    BY <2>1, RunFree
<1>3. ASSUME NEW i \in Installations, NEW r \in RegValues \cup {None}, SaveRegistration(i, r)
      PROVE  \A x \in Runners : RunOK(x)'
  BY <1>2, <1>3 DEF SaveRegistration
<1>4. ASSUME NEW h \in owed, RequestReconcile(h)
      PROVE  \A x \in Runners : RunOK(x)'
  BY <1>0, <1>4, RunKept DEF RequestReconcile
<1>5. ASSUME NEW step \in {"wait", "read"}, Goto("loop", step), UNCHANGED <<regs, subs>>
      PROVE  \A x \in Runners : RunOK(x)'
  <2>1. "loop" \in Runners
    BY DEF Runners
  <2>2. PICK k \in Run : Moves("loop", k) /\ k.step = step
    BY <1>0, <1>5, GotoMove
  <2>3. runs'["loop"] = k
    BY <1>1, <2>1, <2>2, MovesTyped
  <2>4. RunOK("loop")'
    BY <1>5, <2>2, <2>3, RunFree
  <2> QED
    BY <1>0, <1>5, <2>1, <2>2, <2>4, OthersOK
<1>6. CASE LoopTick \/ LoopWake \/ LoopDrain
  BY <1>5, <1>6 DEF LoopTick, LoopWake, LoopDrain
<1>7. ASSUME NEW wipe \in BOOLEAN, AdminBegin(wipe)
      PROVE  \A x \in Runners : RunOK(x)'
  <2>1. "admin" \in Runners
    BY DEF Runners
  <2>2. PICK k \in Run : Moves("admin", k) /\ (k.wipe \/ k.step = "read")
    BY <1>7, AdminMove
  <2>3. runs'["admin"] = k
    BY <1>1, <2>1, <2>2, MovesTyped
  <2>4. RunOK("admin")'
    BY <2>2, <2>3, RunFree
  <2>5. UNCHANGED regs
    BY <1>7 DEF AdminBegin
  <2> QED
    BY <1>0, <2>1, <2>2, <2>4, <2>5, OthersOK
<1>8. ASSUME NEW c \in Runners, RunStep(c)
      PROVE  \A x \in Runners : RunOK(x)'
  BY <1>8, RunStepRun
<1>9. ASSUME NEW s \in subs, Verified(s)
      PROVE  \A x \in Runners : RunOK(x)'
  BY <1>0, <1>9, VerifiedRun
<1>10. ASSUME NEW s \in subs, GivenUp(s)
       PROVE  \A x \in Runners : RunOK(x)'
  BY <1>2, <1>10 DEF GivenUp
<1>11. CASE SubsCrash
  <2>1. runs' = NewRuns
    BY <1>11 DEF SubsCrash, NewRuns
  <2> QED
    BY <2>1, NewRunsTyped, RunFree
<1>12. CASE UNCHANGED subsVars
  BY <1>0, <1>12, RunKept DEF subsVars
<1> QED
  BY <1>3, <1>4, <1>6, <1>7, <1>8, <1>9, <1>10, <1>11, <1>12 DEF SubsNext

-----------------------------------------------------------------------------
(* What the subscriptions are for: the rules that events are routed by.    *)

\* An event matches rules of its type, and any one of them may be all it matches.
LEMMA EventRules ==
    /\ \A e \in Events : /\ e.type \in EventTypes /\ e.channel \in Channels
                         /\ e.rules \subseteq RulesOf[e.type]
    /\ \A type \in EventTypes, ch \in Channels : \A rule \in RulesOf[type] :
          [type |-> type, channel |-> ch, rules |-> {rule}] \in Events
<1> DEFINE Matching(type) == IF type = "update" THEN (SUBSET RulesOf[type]) \ {{}}
                             ELSE {{rule} : rule \in RulesOf[type]}
<1>1. Events = UNION {[type : {type}, channel : Channels, rules : Matching(type)] : type \in EventTypes}
  BY DEF Events
<1>2. \A type : \A rules \in Matching(type) : rules \subseteq RulesOf[type]
  OBVIOUS
<1>3. \A type : \A rule \in RulesOf[type] : {rule} \in Matching(type)
  OBVIOUS
<1> HIDE DEF Matching
<1>4. ASSUME NEW e \in Events
      PROVE  /\ e.type \in EventTypes /\ e.channel \in Channels
             /\ e.rules \subseteq RulesOf[e.type]
  <2>1. PICK type \in EventTypes : e \in [type : {type}, channel : Channels, rules : Matching(type)]
    BY <1>1
  <2> QED
    BY <1>2, <2>1
<1>5. ASSUME NEW type \in EventTypes, NEW ch \in Channels, NEW rule \in RulesOf[type]
      PROVE  [type |-> type, channel |-> ch, rules |-> {rule}] \in Events
  <2>1. [type |-> type, channel |-> ch, rules |-> {rule}]
            \in [type : {type}, channel : Channels, rules : Matching(type)]
    BY <1>3
  <2> QED
    BY <1>1, <2>1
<1> QED
  BY <1>4, <1>5

\* The subscription of an event that notifies a registration is wanted.
LEMMA NotifiedWanted ==
    ASSUME NEW r, NEW e \in Events, Notifies(e, r), Entitled(r, e.type, e.channel)
    PROVE  SpecKey(r, e.type, e.channel) \in DesiredOf(r)
<1>1. PICK type, ch : type = e.type /\ ch = e.channel
  OBVIOUS
<1>2. PICK rule \in e.rules : RuleConfiguredForChannel(r, rule, ch)
  BY <1>1 DEF Notifies, RuleEnabledForChannel
<1>3. type \in EventTypes /\ ch \in r.channels /\ rule \in RulesOf[type]
  BY <1>1, <1>2, EventRules DEF Notifies
<1>4. AnyRuleForChannel(r, ch, RulesOf[type]) /\ Entitled(r, type, ch)
  BY <1>1, <1>2, <1>3 DEF AnyRuleForChannel
<1>5. <<type, ch>> \in {x \in EventTypes \X r.channels :
                          Entitled(r, x[1], x[2]) /\ AnyRuleForChannel(r, x[2], RulesOf[x[1]])}
  BY <1>3, <1>4
<1> QED
  BY <1>1, <1>5 DEF DesiredOf

\* A wanted subscription has an event that would notify, were the channel not muted.
LEMMA WantedNotifies ==
    ASSUME NEW r \in RegValues, NEW key \in DesiredOf(r)
    PROVE  \E e \in Events :
              /\ key = SpecKey(r, e.type, e.channel)
              /\ Notifies(e, [r EXCEPT !.muted = {}]) /\ Entitled(r, e.type, e.channel)
<1>1. PICK type \in EventTypes, ch \in r.channels :
         /\ key = SpecKey(r, type, ch) /\ Entitled(r, type, ch)
         /\ AnyRuleForChannel(r, ch, RulesOf[type])
  BY DEF DesiredOf
<1>2. PICK rule \in RulesOf[type] : RuleConfiguredForChannel(r, rule, ch)
  BY <1>1 DEF AnyRuleForChannel
<1>3. PICK e : e = [type |-> type, channel |-> ch, rules |-> {rule}]
  OBVIOUS
<1>4. e \in Events /\ e.type = type /\ e.channel = ch /\ e.rules = {rule}
  BY <1>1, <1>2, <1>3, EventRules, SubsAssumption
<1>5. PICK q : q = [r EXCEPT !.muted = {}]
  OBVIOUS
<1>6. q.channels = r.channels /\ q.rules = r.rules /\ q.byChannel = r.byChannel /\ q.muted = {}
  BY <1>5, SubsAssumption
<1>7. RuleEnabledForChannel(q, rule, ch)
  BY <1>2, <1>6 DEF RuleEnabledForChannel, RuleConfiguredForChannel, RuleEnabled
<1>8. Notifies(e, q)
  BY <1>1, <1>4, <1>6, <1>7 DEF Notifies
<1> QED
  BY <1>1, <1>4, <1>5, <1>8

\* What a run without failures has when nothing is left to do.
LEMMA ExactCovers ==
    ASSUME StateInv, NEW c \in Runners, Current(c), Exact(c), runs[c].doomed = {}, runs[c].todo = {}
    PROVE  Covered /\ NoneIdle
<1>1. \A s : ~Doomed(c, s)
  BY DEF Doomed
<1>2. \A key \in Desired : \E s \in Live : s.key = key
  BY <1>1 DEF Exact, Current
<1>3. /\ \A s \in Live : s.key \in Desired
      /\ \A s, t \in Live : s.key = t.key => s = t
  BY <1>1 DEF Exact, Current, Live
<1>4. \A r \in Saved : r \in RegValues
  BY DEF Saved, StateInv
<1>5. ASSUME NEW r \in Saved, NEW e \in Events, Notifies(e, r), Entitled(r, e.type, e.channel)
      PROVE  \E s \in Live : s.key.type = e.type /\ s.key.channel = e.channel
  <2>1. SpecKey(r, e.type, e.channel) \in Desired
    BY <1>5, NotifiedWanted DEF Desired
  <2>2. /\ SpecKey(r, e.type, e.channel).type = e.type
        /\ SpecKey(r, e.type, e.channel).channel = e.channel
    BY DEF SpecKey
  <2> QED
    BY <1>2, <2>1, <2>2
<1>6. ASSUME NEW s \in Live
      PROVE  \E r \in Saved, e \in Events :
                /\ s.key = SpecKey(r, e.type, e.channel)
                /\ Notifies(e, [r EXCEPT !.muted = {}]) /\ Entitled(r, e.type, e.channel)
  <2>1. PICK r \in Saved : s.key \in DesiredOf(r)
    BY <1>3 DEF Desired
  <2> QED
    BY <1>4, <2>1, WantedNotifies
<1> QED
  BY <1>3, <1>5, <1>6 DEF Covered, NoneIdle

\* A run ends by itself, by a failure or a crash, or it was to delete all.
LEMMA EndsBy ==
    ASSUME StateInv, NEW c \in Runners, SubsNext, runs[c].step = "delete", runs'[c].step = "idle",
           UNCHANGED upsets, ~runs[c].wipe
    PROVE  ReconcileEnd(c)
<1>1. runs \in [Runners -> Run] /\ upsets \in Nat
  BY SubsAssumption DEF StateInv, RunsOK
<1>2. ~Upset
  BY <1>1 DEF Upset
<1>3. ASSUME NEW x \in Runners, NEW k \in Run, Moves(x, k)
      PROVE  x = c /\ runs'[c] = k
  BY <1>1, <1>3, MovesTyped
<1>4. runs' # Beside(None) /\ runs' # runs
  BY <1>1, BesideTyped
<1>5. ASSUME NEW step \in {"wait", "read"}, Goto("loop", step), UNCHANGED subs
      PROVE  FALSE
  <2>1. PICK k \in Run : Moves("loop", k) /\ k.step = step
    BY <1>5, GotoMove
  <2> QED
    BY <1>3, <1>5, <2>1 DEF Runners
<1>6. ~LoopTick /\ ~LoopWake /\ ~LoopDrain
  BY <1>5 DEF LoopTick, LoopWake, LoopDrain
<1>7. ASSUME NEW wipe \in BOOLEAN, AdminBegin(wipe)
      PROVE  FALSE
  <2>1. PICK k \in Run : Moves("admin", k)
    BY <1>7, AdminMove
  <2>2. c = "admin"
    BY <1>3, <2>1 DEF Runners
  <2> QED
    BY <1>7, <2>2 DEF AdminBegin
<1>8. ASSUME NEW x \in Runners, RunStep(x)
      PROVE  ReconcileEnd(c)
  <2>0. PICK r \in Run : r = runs[x]
    BY <1>1
  <2>1. ~ReadRegistrations(x)
    <3> SUFFICES ASSUME ReadRegistrations(x)
                 PROVE  FALSE
      OBVIOUS
    <3>1. PICK k \in Run : Moves(x, k) /\ k.step = "list"
      BY ReadMove
    <3> QED
      BY <1>3, <3>1
  <2>2. ~ListSubscriptions(x)
    <3> SUFFICES ASSUME ListSubscriptions(x)
                 PROVE  FALSE
      OBVIOUS
    <3>1. PICK k \in Run : Moves(x, k)
      BY <2>0, ListMove, IdleTyped DEF Listed
    <3>2. x = c
      BY <1>3, <3>1
    <3> QED
      BY <3>2 DEF ListSubscriptions
  <2>3. ASSUME NEW d \in runs[x].doomed, DeleteSubscription(x, d)
        PROVE  FALSE
    <3>1. CASE Moves(x, IdleRun) /\ (r.wipe \/ ~UNCHANGED upsets)
      BY <1>3, <2>0, <3>1, IdleTyped
    <3>2. ASSUME NEW k, Moves(x, k), Deleted(r, k, d)
          PROVE  FALSE
      BY <1>3, <3>2 DEF Deleted
    <3> QED
      BY <2>0, <2>3, <3>1, <3>2, DeleteMove
  <2>4. ASSUME NEW key \in runs[x].todo, CreateSubscription(x, key)
        PROVE  FALSE
    <3>1. PICK k : Moves(x, k) /\ Created(r, k, key)
      BY <2>0, <2>4, CreateMove
    <3>2. k \in Run /\ k.step = "delete"
      BY <3>1 DEF Created
    <3> QED
      BY <1>3, <3>1, <3>2
  <2>5. ReconcileEnd(x)
    BY <1>8, <2>1, <2>2, <2>3, <2>4 DEF RunStep
  <2>6. Moves(x, IdleRun)
    BY <2>5 DEF ReconcileEnd, Ends, Moves
  <2> QED
    BY <1>3, <2>5, <2>6, IdleTyped
<1>9. /\ \A s \in subs : ~Verified(s) /\ ~GivenUp(s)
      /\ \A h \in owed : ~RequestReconcile(h)
      /\ \A i \in Installations, r \in RegValues \cup {None} : ~SaveRegistration(i, r)
  BY <1>4 DEF Verified, GivenUp, RequestReconcile, SaveRegistration
<1>10. ~SubsCrash
  BY <1>2 DEF SubsCrash
<1> QED
  BY <1>6, <1>7, <1>8, <1>9, <1>10 DEF SubsNext

\* A reconciliation that read the registrations, reports no failure and was overlapped by
\* nothing leaves Twitch with exactly the subscriptions whose events the registrations are
\* notified of: reconcile compares by the same rules that eventNotificationForRegistration
\* routes by.
THEOREM ReconciliationExact == SubsSpec => Reconciled
<1>1. ASSUME SubsInv, [SubsNext]_subsVars
      PROVE  [ReconciledStep]_subsVars
  <2>0. StateInv /\ \A c \in Runners : RunOK(c)
    BY <1>1 DEF SubsInv
  <2> SUFFICES ASSUME SubsNext, NEW c \in Runners,
                      runs[c].step = "delete", runs'[c].step = "idle", ~runs[c].failed,
                      runs[c].alone, ~runs[c].blind, ~runs[c].wipe, UNCHANGED upsets
               PROVE  Covered' /\ NoneIdle'
    BY <1>1 DEF ReconciledStep
  <2>1. ReconcileEnd(c)
    BY <2>0, EndsBy
  <2>2. Current(c) /\ Exact(c)
    BY <2>0 DEF RunOK, Apart
  <2>3. Covered /\ NoneIdle
    BY <2>0, <2>1, <2>2, ExactCovers DEF ReconcileEnd
  <2>4. Saved' = Saved /\ Live' = Live
    BY <2>1 DEF ReconcileEnd, Saved, Live
  <2> QED
    BY <2>3, <2>4 DEF Covered, NoneIdle
<1> QED
  BY <1>1, InitSubs, SubsStep, PTL DEF SubsSpec, Reconciled

\* Only a failure at Twitch, the admin's deletion of all, a run that something overlapped or
\* one that could not read the registrations takes away the last subscription of events that
\* a registration is notified of, and none of another callback is deleted.
THEOREM LossesExplained == SubsSpec => CoverageLossExplained
<1>1. ASSUME SubsInv, [SubsNext]_subsVars
      PROVE  [CoverageLossStep]_subsVars
  <2>0. StateInv /\ RunsOK /\ \A c \in Runners : RunOK(c)
    BY <1>1 DEF SubsInv, StateInv
  <2> SUFFICES ASSUME SubsNext, NEW s \in subs, UNCHANGED upsets, s \notin subs'
               PROVE  \/ \E t \in subs' : t.key = s.key /\ t.own = s.own /\ (Usable(t) \/ ~Usable(s))
                      \/ /\ s.own
                         /\ \/ ~Usable(s) \/ s.key \notin Desired
                            \/ \E c \in Runners :
                                  /\ runs[c].step = "delete"
                                  /\ (runs[c].wipe \/ ~runs[c].alone \/ runs[c].blind)
    BY <1>1 DEF CoverageLossStep
  <2>1. ~Upset
    BY <2>0, SubsAssumption DEF StateInv, Upset
  <2>2. ASSUME NEW u \in subs, Verified(u)
        PROVE  \E t \in subs' : t.key = s.key /\ t.own = s.own /\ Usable(t)
    <3>1. PICK n : n = [u EXCEPT !.status = "enabled"]
      OBVIOUS
    <3>2. u \in Subscriptions /\ subs' = (subs \ {u}) \cup {n}
      BY <2>0, <2>2, <3>1 DEF Verified, Becomes, StateInv
    <3>3. n.key = u.key /\ Usable(n)
      BY <3>1, <3>2 DEF Usable, Subscriptions
    <3>4. n.own = u.own
      BY <3>1, <3>2 DEF Subscriptions
    <3>5. s = u
      BY <3>2
    <3> QED
      BY <3>2, <3>3, <3>4, <3>5
  <2>3. ASSUME NEW c \in Runners, NEW d \in runs[c].doomed, DeleteSubscription(c, d)
        PROVE  \/ \E t \in subs' : t.key = s.key /\ t.own = s.own /\ (Usable(t) \/ ~Usable(s))
               \/ /\ s.own
                  /\ \/ ~Usable(s) \/ s.key \notin Desired
                     \/ /\ runs[c].step = "delete"
                        /\ (runs[c].wipe \/ ~runs[c].alone \/ runs[c].blind)
    <3>1. subs' = {x \in subs : ~SameId(x, d)} /\ runs[c].step = "delete"
      BY <2>3 DEF DeleteSubscription
    <3>2. SameId(s, d) /\ s.own
      BY <2>0, <2>3, <3>1 DEF RunsOK
    <3>3. CASE Apart(c) /\ Usable(s) /\ s.key \in Desired
      <4>1. Current(c) /\ Spared(c)
        BY <2>0, <3>1, <3>3 DEF RunOK
      <4>2. s \in Live /\ s.key \in runs[c].want
        BY <3>2, <3>3, <4>1 DEF Live, Current
      <4>3. PICK t \in Live : t.key = s.key /\ ~Doomed(c, t)
        BY <4>1, <4>2 DEF Spared
      <4>4. t \in subs' /\ t.own /\ Usable(t)
        BY <2>3, <3>1, <4>3 DEF Live, Doomed
      <4> QED
        BY <3>2, <4>3, <4>4
    <3> QED
      BY <3>1, <3>2, <3>3 DEF Apart
  <2>4. ASSUME NEW c \in Runners, NEW key \in runs[c].todo, CreateSubscription(c, key)
        PROVE  FALSE
    BY <2>4 DEF CreateSubscription
  <2>5. \A c \in Runners : ~ReadRegistrations(c) /\ ~ListSubscriptions(c) /\ ~ReconcileEnd(c)
    BY DEF ReadRegistrations, ListSubscriptions, ReconcileEnd
  <2>6. /\ ~LoopTick /\ ~LoopWake /\ ~LoopDrain /\ \A wipe \in BOOLEAN : ~AdminBegin(wipe)
        /\ \A h \in owed : ~RequestReconcile(h)
        /\ \A i \in Installations, r \in RegValues \cup {None} : ~SaveRegistration(i, r)
    BY DEF LoopTick, LoopWake, LoopDrain, AdminBegin, RequestReconcile, SaveRegistration
  <2>7. ~SubsCrash /\ \A u \in subs : ~GivenUp(u)
    BY <2>1 DEF SubsCrash, GivenUp
  <2> QED
    BY <2>2, <2>3, <2>4, <2>5, <2>6, <2>7 DEF SubsNext, RunStep
<1> QED
  BY <1>1, InitSubs, SubsStep, PTL DEF SubsSpec, CoverageLossExplained
=============================================================================
