----------------------- MODULE ScheduledDeliveryProofs -----------------------
(***************************************************************************)
(* What the scheduler and its deliveries promise, for any schedules, any   *)
(* clock, any events and any number of crashes of daemon and worker.       *)
(*                                                                         *)
(* The argument.  The worker writes the claim of an occurrence before the  *)
(* schedule that has moved past it, so whatever is cut off between the two *)
(* is behind a claim.  A claim is created once and handed out once: the    *)
(* answer to a request, or the list a starting daemon reads, has it, and   *)
(* then one task.  Before the task commits scheduler.fired or a trigger    *)
(* nothing in the journal names the occurrence, and from then on no scan   *)
(* calls it not started.  What a scan says about an occurrence changes     *)
(* until it is settled: triggered, or reconciled within its window, or its *)
(* window is closed by the next scheduler.fired.                           *)
(***************************************************************************)
EXTENDS ScheduledDelivery, SchedulerProofs, FiniteSetTheorems, WellFoundedInduction, TLAPS

-----------------------------------------------------------------------------
(***************************************************************************)
(* The journal                                                             *)
(***************************************************************************)
Verdicts == {"succeeded", "failed", "awaiting"}
Kinds == {"fired", "triggered", "reconciled", "responded", "asked", "failed"}
Events == [kind : Kinds, x : Occurrences \cup {<<>>}, outcome : Verdicts \cup {"none"}]

Named(x) == \E i \in 1..Len(hist) : hist[i].kind \in {"fired", "triggered", "reconciled"} /\ hist[i].x = x
ReconciledAt(x) == {i \in 1..Len(hist) : hist[i].kind = "reconciled" /\ hist[i].x = x}

\* Another scheduler.fired follows that of x.
Closed(x) == \E j \in 1..Len(hist) : j > MinOf(FiredAt(x)) /\ hist[j].kind = "fired" /\ hist[j].x # x

\* What a scan says of x can change no more.
Settled(x) == TriggeredAt(x) # {} \/ (FiredAt(x) # {} /\ (ReconciledIn(x) # {} \/ Closed(x)))

\* What a reconciliation records.
Recorded(state) == IF state = "indeterminate" THEN "failed" ELSE state

HistoryTyped ==
    /\ hist \in Seq(Events) /\ Len(hist) <= MaxHistory
    /\ \A i \in 1..Len(hist) : /\ hist[i].kind \in {"fired", "triggered", "reconciled"} => hist[i].x \in Occurrences
                               /\ hist[i].kind = "reconciled" => hist[i].outcome \in Verdicts

\* An occurrence in the journal is claimed, and dispatched once.
Dispatched(x) ==
    /\ Named(x) => claim[x] = "claimed"
    /\ x[1] \in Triggers => FiredAt(x) = {}
    /\ x[1] \notin Triggers => TriggeredAt(x) = {}
    /\ \A i, j \in FiredAt(x) : i = j
    /\ \A i, j \in TriggeredAt(x) : i = j

\* The reconciliations of an occurrence say what every scan says.
Reconciled(x) ==
    ReconciledAt(x) # {} =>
        /\ Settled(x)
        /\ \A i \in ReconciledAt(x) : hist[i].outcome = Recorded(Classify(x))

\* Why a delivery may count as a success.
Superseded(x) ==
    /\ x[1] \in Deferred /\ gate[x[1]] = "resumed"
    /\ \E y \in Occurrences \ {x} : y[1] = x[1] /\ claim[y] = "claimed"
Evidence(x) ==
    \/ TriggeredAt(x) # {} \/ FiredAt(x) # {}
    \/ Superseded(x)
\* Why the recovery that is recorded at i may count it as one.
Response(x, i) ==
    \/ TriggeredAt(x) # {}
    \/ FiredAt(x) # {} /\ \E j \in Window(x) : j < i /\ hist[j].kind = "responded"

MarkerTrue(x) ==
    /\ "succeeded" \in marker[x] => Evidence(x)
    /\ \A i \in ReconciledAt(x) : hist[i].outcome = "succeeded" => Response(x, i)
    /\ \A i \in ReconciledAt(x) : marker[x] \subseteq {hist[i].outcome}

JournalOK == HistoryTyped /\ \A x \in Occurrences : Dispatched(x) /\ Reconciled(x) /\ MarkerTrue(x)

-----------------------------------------------------------------------------
(***************************************************************************)
(* The tasks                                                               *)
(***************************************************************************)
Executing == {"wake", "fire", "trigger", "turn", "complete"}
Recovering == {"reconcile", "close"}
Slots ==
    [pc : {"idle", "waiting", "collected", "next", "list", "sort"} \cup Executing \cup Recovering,
     todo : SUBSET Occurrences, batch : SUBSET Occurrences, cur : Occurrences \cup {<<>>},
     ok : BOOLEAN, replay : BOOLEAN, pos : 0..MaxHistory]

\* What a task has in hand, to deliver or to recover.
Cur(v) == {x \in Occurrences : v.pc \in Executing \cup Recovering /\ v.cur = x}
Held(v) == v.todo \cup v.batch \cup Cur(v)
\* What it has not dispatched yet.
Fresh(v) == v.batch \cup {x \in Occurrences : v.pc \in {"wake", "fire", "trigger"} /\ v.cur = x}

\* What it may still try to wake.
Way(v) == v.batch \cup {x \in Occurrences : v.pc = "wake" /\ v.cur = x}

\* The claim that resumed the continuation of s is not on its way again, but
\* for a recovery that may replay it.
Won(s) ==
    \E y \in Occurrences :
        /\ y[1] = s /\ claim[y] = "claimed" /\ y \notin w.got
        /\ \A t \in Tasks : ~task[t].replay => y \notin Way(task[t])

TasksTyped ==
    /\ daemon \in {"down", "recovering", "serving"}
    /\ seen \in 0..MaxEvents
    /\ gate \in [Deferred -> {"pending", "resumed"}]
    /\ turn \in Tasks \cup {Nobody}
    /\ task \in [Tasks -> Slots]

\* The execution at hand.
ExecutionOK(t, v) ==
    /\ v.pc \in Executing \cup Recovering => v.cur \in Occurrences
    /\ v.pc = "wake" => v.cur[1] \in Deferred
    /\ v.pc = "trigger" => v.cur[1] \in Triggers
    /\ v.pc \in {"wake", "fire", "turn"} => v.cur[1] \notin Triggers
    /\ v.pc = "turn" <=> turn = t
    /\ v.pc = "turn" =>
          \E f \in FiredAt(v.cur) : /\ v.pos \in 1..Len(hist) /\ f <= v.pos
                                    /\ \A j \in 1..Len(hist) : hist[j].kind = "fired" => j <= f
    /\ v.pc \in {"complete", "reconcile", "close"} /\ v.ok => Evidence(v.cur)
    /\ v.pc \in Executing => ReconciledAt(v.cur) = {}
    /\ v.pc = "reconcile" =>
          /\ Classify(v.cur) # "not_started" /\ ~AlreadyReconciled(v.cur)
          /\ v.ok = (Classify(v.cur) = "succeeded")
    /\ v.pc = "close" =>
          \A i \in ReconciledAt(v.cur) : hist[i].outcome = IF v.ok THEN "succeeded" ELSE "failed"

\* What the task holds is claimed, not closed, and what is fresh is not dispatched.
HoldingOK(v) ==
    /\ v.todo \cap v.batch = {} /\ Cur(v) \cap (v.todo \cup v.batch) = {}
    /\ \A x \in Held(v) : claim[x] = "claimed" /\ marker[x] = {} /\ x \notin w.got
    /\ \A x \in Fresh(v) : ~Named(x)

\* Which tasks run when.
PhaseOK(t, v) ==
    /\ v.pc \in {"idle", "list"} => v.todo = {} /\ v.batch = {}
    /\ v.pc # "idle" => (t = "startup" <=> daemon = "recovering") /\ daemon # "down"
    /\ v.pc \in {"list", "sort"} \cup Recovering => t = "startup"
    /\ v.pc \in {"waiting", "collected"} => t # "startup"
    /\ v.replay => t = "startup"
    /\ v.pc # "idle" /\ t = "startup" => v.replay
    /\ v.pc \notin {"list", "sort"} \cup Recovering => v.todo = {}
    /\ v.pc = "waiting" => t = "observer" \/ v.batch = {}

TaskOK(t) == \E v \in Slots : v = task[t] /\ ExecutionOK(t, v) /\ HoldingOK(v) /\ PhaseOK(t, v)

System ==
    /\ \A t1, t2 \in Tasks : t1 # t2 => Held(task[t1]) \cap Held(task[t2]) = {}
    /\ \A x \in w.got : ~Named(x) /\ marker[x] = {}
    /\ \A x \in Occurrences : claim[x] # "claimed" => marker[x] = {}
    /\ \A s \in Deferred : gate[s] = "resumed" => Won(s)
    /\ daemon # "serving" => w.pc \in {"dead", "ready"}
    /\ daemon = "down" => w.pc = "dead"
    /\ w.for # Nobody => task[w.for].pc = "waiting"
    /\ daemon = "recovering" => task["startup"].pc # "idle"

Delivers == JournalOK /\ TasksTyped /\ (\A t \in Tasks : TaskOK(t)) /\ System

IInv == WorkerOK /\ Delivers

-----------------------------------------------------------------------------
(***************************************************************************)
(* The worker as it is driven                                              *)
(***************************************************************************)
SeenOK == seen \in 0..MaxEvents

\* Whatever the runtime and its tasks do, the worker's files and its request are
\* consistent; the events submitted to it are within the bound.
LEMMA WorkerNext ==
    ASSUME WorkerOK, SeenOK, [Next]_vars
    PROVE  WorkerOK' /\ SeenOK'
<1> USE DEF SeenOK
<1>1. CASE Tick /\ UNCHANGED <<store, w, deliveryVars>>
  BY <1>1, TickKeeps DEF deliveryVars
<1>2. CASE WorkerStep /\ UNCHANGED deliveryVars
  BY <1>2, WorkerStepKeeps DEF deliveryVars
<1>3. CASE StartDaemon
  BY <1>3, RestKeeps DEF StartDaemon, StartWorker
<1>4. CASE CrashDaemon \/ CrashWorker \/ ListFails \/ ReconcileFails
  <2>1. w' = Dead /\ UNCHANGED <<now, sched, upserts, claim, marker, seen>>
    BY <1>4 DEF CrashDaemon, CrashWorker, ListFails, ReconcileFails, Stop, store
  <2> QED
    BY <2>1, RestKeeps
<1>5. ASSUME NEW s \in Schedules, StoreSchedule(s) \/ RemoveSchedule(s) PROVE WorkerOK' /\ SeenOK'
  BY <1>5, UpsertKeeps, RemoveKeeps DEF StoreSchedule, RemoveSchedule, deliveryVars
<1>6. CASE Poll
  BY <1>6, ClaimDueKeeps DEF Poll, Requesters
<1>7. CASE Observe
  <2>1. seen + 1 \in 1..MaxEvents /\ SeenOK'
    BY <1>7, SchedulerAssumption DEF Observe
  <2> QED
    BY <1>7, <2>1, FireKeeps DEF Observe, Requesters
<1>8. CASE ReceiveClaims \/ ReceiveError
  <2>1. /\ w' = Ready /\ UNCHANGED <<now, upserts, claim, marker, seen>>
        /\ sched' = sched \/ sched' = [s \in Schedules |-> Restored(sched[s])]
    BY <1>8 DEF ReceiveClaims, ReceiveError, WorkerError, store
  <2> QED
    BY <2>1, RestKeeps
<1>9. CASE CloseReconciled
  BY <1>9, MarkerKeeps DEF CloseReconciled
<1>10. ASSUME NEW t \in Tasks, CompleteDelivery(t) PROVE WorkerOK' /\ SeenOK'
  BY <1>10, MarkerKeeps DEF CompleteDelivery
<1>11. CASE UNCHANGED <<workerVars, seen>>
  BY <1>11, WorkerIdles
<1>12. ASSUME NEW kind \in UserOutcomes, UserTurn(kind) PROVE UNCHANGED <<workerVars, seen>>
  BY <1>12 DEF UserTurn
<1>13. CASE RecoveryStep
  <2>1. ASSUME NEW x \in Occurrences, SortClaim(x) PROVE UNCHANGED <<workerVars, seen>>
    BY <2>1 DEF SortClaim
  <2>2. ListPending \/ Reconcile \/ SortDone => UNCHANGED <<workerVars, seen>>
    BY DEF ListPending, Reconcile, SortDone
  <2> QED
    BY <1>4, <1>9, <1>11, <1>13, <2>1, <2>2 DEF RecoveryStep
<1>14. ASSUME NEW t \in Tasks, TaskStep(t) PROVE WorkerOK' /\ SeenOK'
  <2>1. ASSUME NEW x \in Occurrences, NextExecution(t, x) PROVE UNCHANGED <<workerVars, seen>>
    BY <2>1 DEF NextExecution
  <2>2. \/ BatchDone(t) \/ WakeDeferred(t) \/ FireTurn(t) \/ RefuseTurn(t) \/ ModelResponds(t)
        \/ TurnSucceeds(t) \/ TurnAwaitsApproval(t) \/ TurnFails(t) \/ DeliverTrigger(t)
        => UNCHANGED <<workerVars, seen>>
    BY DEF BatchDone, WakeDeferred, FireTurn, RefuseTurn, ModelResponds, TurnSucceeds, TurnAwaitsApproval,
           TurnFails, DeliverTrigger
  <2> QED
    BY <1>10, <1>11, <1>14, <2>1, <2>2 DEF TaskStep
<1>15. CASE UNCHANGED vars
  BY <1>11, <1>15 DEF vars, deliveryVars
<1> QED
  BY <1>1, <1>2, <1>3, <1>4, <1>5, <1>6, <1>7, <1>8, <1>11, <1>12, <1>13, <1>14, <1>15 DEF Next

\* The worker's part of the invariant holds whatever its clients do.
THEOREM WorkerConsistent == Spec => [](WorkerOK /\ SeenOK)
<1>1. Init => WorkerOK /\ SeenOK
  BY WorkerStarts, SchedulerAssumption DEF Init, SeenOK
<1>2. WorkerOK /\ SeenOK /\ [Next]_vars => (WorkerOK /\ SeenOK)'
  BY WorkerNext
<1> QED
  BY <1>1, <1>2, PTL DEF Spec

\* No occurrence is lost: whatever died between the claim and the schedule file,
\* every occurrence before the stored next one has an execution record.
THEOREM NothingSkipped == Spec => []NoOccurrenceSkipped
<1>1. WorkerOK => NoOccurrenceSkipped
  BY WorkerPromises
<1> QED
  BY <1>1, WorkerConsistent, PTL

-----------------------------------------------------------------------------
(***************************************************************************)
(* Scans of the journal                                                    *)
(***************************************************************************)
LEMMA Least ==
    ASSUME NEW S \in SUBSET Nat, S # {}
    PROVE  MinOf(S) \in S /\ \A i \in S : MinOf(S) <= i
<1> DEFINE R == {ss \in Nat \X Nat : ss[1] < ss[2]}
<1>1. IsWellFoundedOn(R, Nat)
  BY NatLessThanWellFounded, Zenon DEF OpToRel
<1>2. \A i, j \in Nat : <<i, j>> \in R <=> i < j
  OBVIOUS
<1> HIDE DEF R
<1>3. PICK i \in S : \A j \in S : ~(<<j, i>> \in R)
  BY <1>1, WFMin
<1>4. \A j \in S : i <= j
  <2> TAKE j \in S
  <2>1. i \in Nat /\ j \in Nat /\ ~(j < i)
    BY <1>2, <1>3
  <2> QED
    BY <2>1
<1> QED
  BY <1>4 DEF MinOf

LEMMA LeastUnique ==
    ASSUME NEW S \in SUBSET Nat, NEW m \in S, \A i \in S : m <= i
    PROVE  MinOf(S) = m
<1>1. MinOf(S) \in S /\ MinOf(S) <= m
  BY Least
<1>2. m <= MinOf(S) /\ m \in Nat /\ MinOf(S) \in Nat
  BY <1>1
<1> QED
  BY <1>1, <1>2

LEMMA Greatest ==
    ASSUME NEW n \in Nat, NEW S \in SUBSET (1..n), S # {}
    PROVE  MaxOf(S) \in S
<1> DEFINE D == {k \in Nat : n - k \in S}
<1>1. \A i \in S : n - i \in D /\ n - (n - i) = i
  OBVIOUS
<1>2. D \in SUBSET Nat /\ D # {}
  BY <1>1
<1>3. MinOf(D) \in D /\ \A k \in D : MinOf(D) <= k
  BY <1>2, Least
<1> PICK m : m = n - MinOf(D)
  OBVIOUS
<1>4. m \in S
  BY <1>3
<1>5. ASSUME NEW i \in S PROVE m >= i
  <2>1. n - i \in D /\ MinOf(D) \in Nat /\ MinOf(D) <= n - i
    BY <1>1, <1>3
  <2> QED
    BY <2>1
<1>6. \E i \in S : \A j \in S : i >= j
  BY <1>4, <1>5
<1> QED
  BY <1>6 DEF MaxOf

LEMMA SameHistory ==
    ASSUME UNCHANGED hist
    PROVE  \A x : /\ FiredAt(x)' = FiredAt(x) /\ TriggeredAt(x)' = TriggeredAt(x)
                  /\ ReconciledAt(x)' = ReconciledAt(x) /\ Window(x)' = Window(x)
                  /\ ReconciledIn(x)' = ReconciledIn(x) /\ ObservedIn(x)' = ObservedIn(x)
                  /\ Closed(x)' = Closed(x) /\ Named(x)' = Named(x)
                  /\ Classify(x)' = Classify(x)
<1> TAKE x
<1>1. FiredAt(x)' = FiredAt(x)
  BY DEF FiredAt, Positions
<1>2. TriggeredAt(x)' = TriggeredAt(x)
  BY DEF TriggeredAt, Positions
<1>3. ReconciledAt(x)' = ReconciledAt(x)
  BY DEF ReconciledAt
<1>4. Window(x)' = Window(x)
  BY <1>1 DEF Window, Positions
<1>5. ReconciledIn(x)' = ReconciledIn(x) /\ ObservedIn(x)' = ObservedIn(x)
  BY <1>4 DEF ReconciledIn, ObservedIn
<1>6. Closed(x)' = Closed(x) /\ Named(x)' = Named(x)
  BY <1>1 DEF Closed, Named
<1>7. Classify(x)' = Classify(x)
  BY <1>1, <1>2, <1>4, <1>5 DEF Classify
<1> QED
  BY <1>1, <1>2, <1>3, <1>4, <1>5, <1>6, <1>7

-----------------------------------------------------------------------------
(***************************************************************************)
(* The journal only grows                                                  *)
(***************************************************************************)
Grown ==
    /\ hist \in Seq(Events) /\ hist' \in Seq(Events)
    /\ Len(hist) <= Len(hist')
    /\ \A i \in 1..Len(hist) : hist'[i] = hist[i]

\* What the sets of positions hold.
Scans(x) ==
    /\ Len(hist) \in Nat
    /\ \A i : i \in FiredAt(x) <=> i \in 1..Len(hist) /\ hist[i].kind = "fired" /\ hist[i].x = x
    /\ \A i : i \in TriggeredAt(x) <=> i \in 1..Len(hist) /\ hist[i].kind = "triggered" /\ hist[i].x = x
    /\ FiredAt(x) \in SUBSET Nat
    /\ ReconciledAt(x) \in SUBSET Nat
    /\ FiredAt(x) # {} =>
          /\ MinOf(FiredAt(x)) \in FiredAt(x)
          /\ MinOf(FiredAt(x)) \in 1..Len(hist)
          /\ \A i : i \in Window(x) <=>
                /\ i \in 1..Len(hist) /\ i > MinOf(FiredAt(x))
                /\ \A j \in 1..Len(hist) :
                      hist[j].kind = "fired" /\ hist[j].x # x /\ j > MinOf(FiredAt(x)) => i < j
          /\ ReconciledIn(x) \subseteq ReconciledAt(x)

LEMMA Scanned == hist \in Seq(Events) => \A x : Scans(x)
<1> SUFFICES ASSUME hist \in Seq(Events), NEW x PROVE Scans(x)
  OBVIOUS
<1>1. Len(hist) \in Nat
  OBVIOUS
<1>2. \A i : i \in FiredAt(x) <=> i \in 1..Len(hist) /\ hist[i].kind = "fired" /\ hist[i].x = x
  BY DEF FiredAt, Positions
<1>3. \A i : i \in TriggeredAt(x) <=> i \in 1..Len(hist) /\ hist[i].kind = "triggered" /\ hist[i].x = x
  BY DEF TriggeredAt, Positions
<1>4. FiredAt(x) \in SUBSET Nat /\ ReconciledAt(x) \in SUBSET Nat
  BY <1>1, <1>2 DEF ReconciledAt
<1>5. ASSUME FiredAt(x) # {}
      PROVE  /\ MinOf(FiredAt(x)) \in FiredAt(x)
             /\ MinOf(FiredAt(x)) \in 1..Len(hist)
             /\ \A i : i \in Window(x) <=>
                   /\ i \in 1..Len(hist) /\ i > MinOf(FiredAt(x))
                   /\ \A j \in 1..Len(hist) :
                         hist[j].kind = "fired" /\ hist[j].x # x /\ j > MinOf(FiredAt(x)) => i < j
             /\ ReconciledIn(x) \subseteq ReconciledAt(x)
  <2> PICK m : m = MinOf(FiredAt(x))
    OBVIOUS
  <2>1. m \in FiredAt(x) /\ m \in 1..Len(hist)
    BY <1>2, <1>4, <1>5, Least
  <2>2. Window(x) = {i \in (m+1)..Len(hist) : \A j \in {k \in {n \in 1..Len(hist) : hist[n].kind = "fired" /\ hist[n].x # x} : k > m} : i < j}
    BY DEF Window, Positions
  <2>3. \A i : i \in (m+1)..Len(hist) <=> i \in 1..Len(hist) /\ i > m
    BY <1>1, <2>1
  <2>4. \A i : i \in Window(x) <=>
           /\ i \in 1..Len(hist) /\ i > m
           /\ \A j \in 1..Len(hist) : hist[j].kind = "fired" /\ hist[j].x # x /\ j > m => i < j
    BY <2>2, <2>3
  <2>5. ReconciledIn(x) \subseteq ReconciledAt(x)
    BY <2>4 DEF ReconciledIn, ReconciledAt
  <2> QED
    BY <2>1, <2>4, <2>5
<1> QED
  BY <1>1, <1>2, <1>3, <1>4, <1>5 DEF Scans

Scanning == hist \in Seq(Events) => \A x : Scans(x)

LEMMA ScannedNext == Scanning'
<1>1. Scanning
  BY Scanned DEF Scanning
<1> QED
  BY <1>1, PTL

LEMMA GrownScans ==
    ASSUME Grown, NEW x
    PROVE  /\ Scans(x) /\ Scans(x)'
           /\ FiredAt(x) \subseteq FiredAt(x)' /\ TriggeredAt(x) \subseteq TriggeredAt(x)'
           /\ ReconciledAt(x) \subseteq ReconciledAt(x)'
           /\ \A i \in ReconciledAt(x) : hist'[i] = hist[i]
<1>1. Scans(x) /\ Scans(x)'
  BY Scanned, ScannedNext DEF Scanning, Grown
<1>2. Len(hist) \in Nat /\ Len(hist') \in Nat /\ \A i \in 1..Len(hist) : i \in 1..Len(hist') /\ hist'[i] = hist[i]
  BY DEF Grown
<1>3. FiredAt(x) \subseteq FiredAt(x)' /\ TriggeredAt(x) \subseteq TriggeredAt(x)'
  BY <1>1, <1>2 DEF Scans
<1>4. ReconciledAt(x) \subseteq ReconciledAt(x)' /\ \A i \in ReconciledAt(x) : hist'[i] = hist[i]
  BY <1>2 DEF ReconciledAt
<1> QED
  BY <1>1, <1>3, <1>4

LEMMA GrownWindow ==
    ASSUME Grown, NEW x, FiredAt(x) # {}
    PROVE  /\ FiredAt(x)' # {} /\ MinOf(FiredAt(x))' = MinOf(FiredAt(x))
           /\ Window(x) \subseteq Window(x)'
           /\ Closed(x) => Closed(x)' /\ Window(x)' = Window(x)
           /\ \A i \in Window(x) : i \in 1..Len(hist) /\ hist'[i] = hist[i]
           /\ \A i \in Window(x)' : i \in Window(x) \/ i > Len(hist)
<1>1. /\ Scans(x) /\ Scans(x)' /\ FiredAt(x) \subseteq FiredAt(x)'
  BY GrownScans
<1>2. FiredAt(x)' # {}
  BY <1>1
<1>3. Len(hist) \in Nat /\ Len(hist') \in Nat /\ Len(hist) <= Len(hist')
  BY DEF Grown
<1> PICK m : m = MinOf(FiredAt(x))
  OBVIOUS
<1>4. m \in FiredAt(x) /\ m \in 1..Len(hist) /\ \A i \in FiredAt(x) : m <= i
  BY <1>1, Least DEF Scans
<1>5. \A i \in FiredAt(x)' : m <= i
  <2> SUFFICES ASSUME NEW i \in FiredAt(x)' PROVE m <= i
    OBVIOUS
  <2>1. i \in 1..Len(hist') /\ hist'[i].kind = "fired" /\ hist'[i].x = x
    BY <1>1 DEF Scans
  <2>2. CASE i \in 1..Len(hist)
    BY <1>1, <1>4, <2>1, <2>2 DEF Scans, Grown
  <2>3. CASE i \notin 1..Len(hist)
    BY <1>3, <1>4, <2>1, <2>3
  <2> QED
    BY <2>2, <2>3
<1>6. MinOf(FiredAt(x)') = m
  <2>1. FiredAt(x)' \in SUBSET Nat /\ m \in FiredAt(x)'
    BY <1>1, <1>4 DEF Scans
  <2> QED
    BY <1>5, <2>1, LeastUnique
<1>7. \A i : i \in Window(x) <=>
          /\ i \in 1..Len(hist) /\ i > m
          /\ \A j \in 1..Len(hist) : hist[j].kind = "fired" /\ hist[j].x # x /\ j > m => i < j
  BY <1>1 DEF Scans
<1>8. \A i : i \in Window(x)' <=>
          /\ i \in 1..Len(hist') /\ i > m
          /\ \A j \in 1..Len(hist') : hist'[j].kind = "fired" /\ hist'[j].x # x /\ j > m => i < j
  BY <1>1, <1>2, <1>6 DEF Scans
<1>9. \A j \in 1..Len(hist') : j \in 1..Len(hist) \/ j > Len(hist)
  BY <1>3
<1>10. Window(x) \subseteq Window(x)'
  <2> SUFFICES ASSUME NEW i \in Window(x) PROVE i \in Window(x)'
    OBVIOUS
  <2>1. i \in 1..Len(hist) /\ i > m /\ i \in 1..Len(hist')
    BY <1>3, <1>7
  <2>2. ASSUME NEW j \in 1..Len(hist'), hist'[j].kind = "fired", hist'[j].x # x, j > m PROVE i < j
    <3>1. CASE j \in 1..Len(hist)
      BY <1>7, <2>2, <3>1 DEF Grown
    <3>2. CASE j > Len(hist)
      BY <1>3, <2>1, <3>2
    <3> QED
      BY <1>9, <3>1, <3>2
  <2> QED
    BY <1>8, <2>1, <2>2
<1>11. \A i \in Window(x)' : i \in Window(x) \/ i > Len(hist)
  <2> SUFFICES ASSUME NEW i \in Window(x)', i \in 1..Len(hist) PROVE i \in Window(x)
    BY <1>8, <1>9
  <2>1. i > m /\ \A j \in 1..Len(hist) : j \in 1..Len(hist')
    BY <1>3, <1>8
  <2> QED
    BY <1>7, <1>8, <2>1 DEF Grown
<1>12. ASSUME Closed(x) PROVE Closed(x)' /\ Window(x)' = Window(x)
  <2>1. PICK j \in 1..Len(hist) : j > m /\ hist[j].kind = "fired" /\ hist[j].x # x
    BY <1>12 DEF Closed
  <2>2. j \in 1..Len(hist') /\ hist'[j] = hist[j]
    BY <1>3, <2>1 DEF Grown
  <2>3. Closed(x)'
    BY <1>6, <2>1, <2>2 DEF Closed
  <2>4. \A i \in Window(x)' : i < j /\ i \in Nat
    BY <1>3, <1>8, <2>1, <2>2
  <2>5. \A i \in Window(x)' : ~(i > Len(hist))
    BY <1>3, <2>1, <2>4
  <2> QED
    BY <1>10, <1>11, <2>3, <2>5
<1>13. \A i \in Window(x) : i \in 1..Len(hist) /\ hist'[i] = hist[i]
  BY <1>7 DEF Grown
<1> QED
  BY <1>2, <1>6, <1>10, <1>11, <1>12, <1>13

\* What a scan says of a settled occurrence it says for ever.
LEMMA GrownSettled ==
    ASSUME Grown, NEW x, Settled(x), FiredAt(x) # {} => TriggeredAt(x)' = {}
    PROVE  Settled(x)' /\ Classify(x)' = Classify(x)
<1>1. TriggeredAt(x) \subseteq TriggeredAt(x)' /\ Scans(x) /\ Scans(x)'
  BY GrownScans
<1>2. CASE TriggeredAt(x) # {}
  BY <1>1, <1>2 DEF Settled, Classify
<1>3. CASE TriggeredAt(x) = {}
  <2>1. FiredAt(x) # {} /\ (ReconciledIn(x) # {} \/ Closed(x)) /\ TriggeredAt(x)' = {}
    BY <1>3 DEF Settled
  <2>2. /\ FiredAt(x)' # {}
        /\ Window(x) \subseteq Window(x)'
        /\ Closed(x) => Closed(x)' /\ Window(x)' = Window(x)
        /\ \A i \in Window(x) : i \in 1..Len(hist) /\ hist'[i] = hist[i]
        /\ \A i \in Window(x)' : i \in Window(x) \/ i > Len(hist)
    BY <2>1, GrownWindow
  <2>3. CASE ReconciledIn(x) # {}
    <3>1. ReconciledIn(x) \subseteq ReconciledIn(x)'
      BY <2>2 DEF ReconciledIn
    <3>2. ReconciledIn(x) \in SUBSET Nat /\ ReconciledIn(x)' \in SUBSET Nat
      <4>1. /\ ReconciledAt(x) \in SUBSET Nat /\ ReconciledIn(x) \subseteq ReconciledAt(x)
            /\ ReconciledAt(x)' \in SUBSET Nat /\ ReconciledIn(x)' \subseteq ReconciledAt(x)'
        BY <1>1, <2>1, <2>2 DEF Scans
      <4> QED
        BY <4>1
    <3> PICK m : m = MinOf(ReconciledIn(x))
      OBVIOUS
    <3>3. m \in ReconciledIn(x) /\ \A i \in ReconciledIn(x) : m <= i
      BY <2>3, <3>2, Least
    <3>4. m \in 1..Len(hist) /\ hist'[m] = hist[m]
      BY <2>2, <3>3 DEF ReconciledIn
    <3>5. \A i \in ReconciledIn(x)' : m <= i
      <4> SUFFICES ASSUME NEW i \in ReconciledIn(x)' PROVE m <= i
        OBVIOUS
      <4>1. CASE i \in Window(x)
        BY <2>2, <3>3, <4>1 DEF ReconciledIn
      <4>2. CASE i > Len(hist)
        <5>1. i \in Nat /\ Len(hist) \in Nat
          BY <3>2 DEF Grown
        <5> QED
          BY <3>4, <4>2, <5>1
      <4> QED
        BY <2>2, <4>1, <4>2 DEF ReconciledIn
    <3>6. MinOf(ReconciledIn(x)') = m
      BY <3>1, <3>2, <3>3, <3>5, LeastUnique
    <3>7. ReconciledIn(x)' # {}
      BY <3>1, <3>3
    <3> QED
      BY <1>3, <2>1, <2>2, <2>3, <3>4, <3>6, <3>7 DEF Settled, Classify
  <2>4. CASE ReconciledIn(x) = {}
    <3>1. Closed(x)' /\ Window(x)' = Window(x)
      BY <2>1, <2>2, <2>4
    <3>2. ReconciledIn(x)' = {} /\ ObservedIn(x)' = ObservedIn(x)
      BY <2>2, <2>4, <3>1 DEF ReconciledIn, ObservedIn
    <3>3. ASSUME ObservedIn(x) # {} PROVE hist'[MaxOf(ObservedIn(x))] = hist[MaxOf(ObservedIn(x))]
      <4>1. Len(hist) \in Nat /\ ObservedIn(x) \in SUBSET (1..Len(hist))
        BY <1>1, <2>2 DEF Scans, ObservedIn
      <4>2. MaxOf(ObservedIn(x)) \in ObservedIn(x)
        BY <3>3, <4>1, Greatest
      <4> QED
        BY <2>2, <4>2 DEF ObservedIn
    <3>4. Classify(x)' = Classify(x)
      BY <1>3, <2>1, <2>2, <2>4, <3>2, <3>3 DEF Classify
    <3> QED
      BY <2>2, <3>1, <3>4 DEF Settled
  <2> QED
    BY <2>3, <2>4
<1> QED
  BY <1>2, <1>3

ClaimsKept == \A y \in Occurrences : claim[y] = "claimed" => claim'[y] = "claimed"
GatesKept == \A s \in Deferred : gate[s] = "resumed" => gate'[s] = "resumed"

\* Why a delivery may count as a success stays true.
LEMMA GrownEvidence ==
    ASSUME Grown, ClaimsKept, GatesKept, NEW x \in Occurrences, Evidence(x)
    PROVE  Evidence(x)'
<1>1. CASE TriggeredAt(x) # {} \/ FiredAt(x) # {}
  BY <1>1, GrownScans DEF Evidence
<1>2. CASE Superseded(x)
  BY <1>2 DEF Evidence, Superseded, ClaimsKept, GatesKept
<1> QED
  BY <1>1, <1>2 DEF Evidence

LEMMA GrownResponse ==
    ASSUME Grown, NEW x, NEW i, Response(x, i)
    PROVE  Response(x, i)'
<1>1. CASE TriggeredAt(x) # {}
  BY <1>1, GrownScans DEF Response
<1>2. CASE FiredAt(x) # {} /\ \E j \in Window(x) : j < i /\ hist[j].kind = "responded"
  <2>1. PICK j \in Window(x) : j < i /\ hist[j].kind = "responded"
    BY <1>2
  <2>2. FiredAt(x)' # {} /\ j \in Window(x)' /\ hist'[j] = hist[j]
    BY <1>2, GrownWindow
  <2> QED
    BY <2>1, <2>2 DEF Response
<1> QED
  BY <1>1, <1>2 DEF Response

LEMMA ClassifyRange ==
    ASSUME HistoryTyped, NEW x
    PROVE  /\ Classify(x) \in Verdicts \cup {"not_started", "indeterminate"}
           /\ Classify(x) = "not_started" => TriggeredAt(x) = {} /\ FiredAt(x) = {}
<1>1. Scans(x)
  BY Scanned DEF HistoryTyped
<1>2. ASSUME FiredAt(x) # {}, ReconciledIn(x) # {} PROVE hist[MinOf(ReconciledIn(x))].outcome \in Verdicts
  <2>1. ReconciledIn(x) \in SUBSET Nat /\ ReconciledIn(x) \subseteq ReconciledAt(x)
    BY <1>1, <1>2 DEF Scans
  <2>2. MinOf(ReconciledIn(x)) \in ReconciledAt(x)
    BY <1>2, <2>1, Least
  <2> QED
    BY <2>2 DEF ReconciledAt, HistoryTyped
<1>3. \A k : OutcomeOf(k) \in Verdicts
  BY DEF OutcomeOf, Verdicts
<1>4. \A v \in Verdicts : v # "not_started"
  BY DEF Verdicts
<1>5. "succeeded" \in Verdicts
  BY DEF Verdicts
<1> QED
  BY <1>2, <1>3, <1>4, <1>5 DEF Classify

LEMMA ClassifyEvidence ==
    ASSUME HistoryTyped, NEW x \in Occurrences, MarkerTrue(x), Classify(x) = "succeeded"
    PROVE  Evidence(x) /\ Response(x, Len(hist) + 1)
<1>1. Scans(x) /\ Len(hist) \in Nat
  BY Scanned DEF HistoryTyped
<1>2. Evidence(x)
  BY DEF Evidence, Classify
<1>3. CASE TriggeredAt(x) # {}
  BY <1>2, <1>3 DEF Response
<1>4. CASE TriggeredAt(x) = {} /\ FiredAt(x) # {} /\ ReconciledIn(x) # {}
  <2>1. ReconciledIn(x) \in SUBSET Nat /\ ReconciledIn(x) \subseteq ReconciledAt(x)
    BY <1>1, <1>4 DEF Scans
  <2> PICK i : i = MinOf(ReconciledIn(x))
    OBVIOUS
  <2>2. i \in ReconciledAt(x) /\ i \in 1..Len(hist)
    BY <1>4, <2>1, Least DEF ReconciledAt
  <2>3. Response(x, i)
    BY <1>4, <2>2 DEF Classify, MarkerTrue
  <2>4. PICK j \in Window(x) : j < i /\ hist[j].kind = "responded"
    BY <1>4, <2>3 DEF Response
  <2>5. j \in 1..Len(hist)
    BY <1>1, <1>4 DEF Scans
  <2>6. j < Len(hist) + 1
    BY <1>1, <2>5
  <2> QED
    BY <1>2, <1>4, <2>4, <2>6 DEF Response
<1>5. CASE TriggeredAt(x) = {} /\ FiredAt(x) # {} /\ ReconciledIn(x) = {} /\ ObservedIn(x) # {}
  <2>1. Len(hist) \in Nat /\ ObservedIn(x) \in SUBSET (1..Len(hist))
    BY <1>1, <1>5 DEF Scans, ObservedIn
  <2>2. MaxOf(ObservedIn(x)) \in ObservedIn(x)
    BY <1>5, <2>1, Greatest
  <2>3. OutcomeOf(hist[MaxOf(ObservedIn(x))].kind) = "succeeded"
    BY <1>5 DEF Classify
  <2>4. hist[MaxOf(ObservedIn(x))].kind = "responded"
    BY <2>2, <2>3 DEF OutcomeOf
  <2>5. MaxOf(ObservedIn(x)) < Len(hist) + 1
    BY <2>1, <2>2
  <2> QED
    BY <1>2, <1>5, <2>2, <2>4, <2>5 DEF Response, ObservedIn
<1> QED
  BY <1>3, <1>4, <1>5 DEF Classify

-----------------------------------------------------------------------------
(***************************************************************************)
(* The journal's part of the invariant                                     *)
(***************************************************************************)
LEMMA JournalStands ==
    ASSUME JournalOK, UNCHANGED <<hist, marker>>, ClaimsKept, GatesKept
    PROVE  JournalOK' /\ Grown
<1>1. HistoryTyped'
  BY DEF JournalOK, HistoryTyped
<1>2. Grown
  BY DEF Grown, JournalOK, HistoryTyped
<1>3. ASSUME NEW x \in Occurrences PROVE Dispatched(x)' /\ Reconciled(x)' /\ MarkerTrue(x)'
  <2>1. Dispatched(x) /\ Reconciled(x) /\ MarkerTrue(x)
    BY DEF JournalOK
  <2>2. /\ FiredAt(x)' = FiredAt(x) /\ TriggeredAt(x)' = TriggeredAt(x)
        /\ ReconciledAt(x)' = ReconciledAt(x) /\ ReconciledIn(x)' = ReconciledIn(x)
        /\ Closed(x)' = Closed(x) /\ Named(x)' = Named(x) /\ Classify(x)' = Classify(x)
    BY SameHistory
  <2>3. Dispatched(x)'
    BY <2>1, <2>2 DEF Dispatched, ClaimsKept
  <2>4. Reconciled(x)'
    BY <2>1, <2>2 DEF Reconciled, Settled
  <2>5. (Evidence(x) => Evidence(x)') /\ \A i : Response(x, i) => Response(x, i)'
    BY <1>2, GrownEvidence, GrownResponse
  <2>6. MarkerTrue(x)'
    BY <2>1, <2>2, <2>5 DEF MarkerTrue
  <2> QED
    BY <2>3, <2>4, <2>6
<1> QED
  BY <1>1, <1>2, <1>3 DEF JournalOK

\* What one more event changes.
LEMMA Appended ==
    ASSUME HistoryTyped, NEW e \in Events, hist' = Append(hist, e), Len(hist) < MaxHistory,
           e.kind \in {"fired", "triggered", "reconciled"} => e.x \in Occurrences,
           e.kind = "reconciled" => e.outcome \in Verdicts
    PROVE  /\ Grown /\ HistoryTyped'
           /\ Len(hist) \in Nat /\ Len(hist') = Len(hist) + 1 /\ hist'[Len(hist) + 1] = e
           /\ \A x : /\ FiredAt(x)' = FiredAt(x) \cup (IF e.kind = "fired" /\ e.x = x THEN {Len(hist) + 1} ELSE {})
                     /\ TriggeredAt(x)' = TriggeredAt(x)
                           \cup (IF e.kind = "triggered" /\ e.x = x THEN {Len(hist) + 1} ELSE {})
                     /\ ReconciledAt(x)' = ReconciledAt(x)
                           \cup (IF e.kind = "reconciled" /\ e.x = x THEN {Len(hist) + 1} ELSE {})
                     /\ Named(x)' => Named(x) \/ (e.kind \in {"fired", "triggered", "reconciled"} /\ e.x = x)
<1>1. /\ Len(hist) \in Nat /\ hist' \in Seq(Events) /\ Len(hist') = Len(hist) + 1 /\ hist'[Len(hist) + 1] = e
      /\ \A i \in 1..Len(hist) : hist'[i] = hist[i]
  BY DEF HistoryTyped
<1>2. Grown
  BY <1>1 DEF Grown, HistoryTyped
<1>3. \A i : i \in 1..Len(hist') <=> i \in 1..Len(hist) \/ i = Len(hist) + 1
  BY <1>1
<1>4. HistoryTyped'
  <2>1. MaxHistory \in Nat /\ Len(hist') <= MaxHistory
    BY <1>1, DeliveryAssumption
  <2>2. \A i \in 1..Len(hist') : hist'[i] = e \/ (i \in 1..Len(hist) /\ hist'[i] = hist[i])
    BY <1>1, <1>3
  <2> QED
    BY ONLY HistoryTyped, <1>1, <2>1, <2>2, e.kind \in {"fired", "triggered", "reconciled"} => e.x \in Occurrences,
            e.kind = "reconciled" => e.outcome \in Verdicts
       DEF HistoryTyped
<1>5. ASSUME NEW x
      PROVE  /\ FiredAt(x)' = FiredAt(x) \cup (IF e.kind = "fired" /\ e.x = x THEN {Len(hist) + 1} ELSE {})
             /\ TriggeredAt(x)' = TriggeredAt(x)
                   \cup (IF e.kind = "triggered" /\ e.x = x THEN {Len(hist) + 1} ELSE {})
             /\ ReconciledAt(x)' = ReconciledAt(x)
                   \cup (IF e.kind = "reconciled" /\ e.x = x THEN {Len(hist) + 1} ELSE {})
             /\ Named(x)' => Named(x) \/ (e.kind \in {"fired", "triggered", "reconciled"} /\ e.x = x)
  <2>1. Scans(x) /\ Scans(x)'
    BY <1>2, GrownScans
  <2>2. FiredAt(x)' = FiredAt(x) \cup (IF e.kind = "fired" /\ e.x = x THEN {Len(hist) + 1} ELSE {})
    BY <1>1, <1>3, <2>1 DEF Scans
  <2>3. TriggeredAt(x)' = TriggeredAt(x) \cup (IF e.kind = "triggered" /\ e.x = x THEN {Len(hist) + 1} ELSE {})
    BY <1>1, <1>3, <2>1 DEF Scans
  <2>4. ReconciledAt(x)' = ReconciledAt(x) \cup (IF e.kind = "reconciled" /\ e.x = x THEN {Len(hist) + 1} ELSE {})
    BY <1>1, <1>3 DEF ReconciledAt
  <2>5. Named(x)' => Named(x) \/ (e.kind \in {"fired", "triggered", "reconciled"} /\ e.x = x)
    BY <1>1, <1>3 DEF Named
  <2> QED
    BY <2>2, <2>3, <2>4, <2>5
<1> QED
  BY <1>1, <1>2, <1>4, <1>5

\* An event of a turn, a first scheduler.fired or a first trigger.
LEMMA EventKeeps ==
    ASSUME JournalOK, UNCHANGED <<claim, marker, gate>>, NEW e \in Events, hist' = Append(hist, e),
           Len(hist) < MaxHistory, e.kind # "reconciled",
           e.kind \in {"fired", "triggered"} =>
              /\ e.x \in Occurrences /\ ~Named(e.x) /\ claim[e.x] = "claimed"
              /\ e.kind = "triggered" <=> e.x[1] \in Triggers
    PROVE  JournalOK'
<1>1. HistoryTyped
  BY DEF JournalOK
<1>2. /\ Grown /\ HistoryTyped'
      /\ Len(hist) \in Nat
      /\ \A x : /\ FiredAt(x)' = FiredAt(x) \cup (IF e.kind = "fired" /\ e.x = x THEN {Len(hist) + 1} ELSE {})
                /\ TriggeredAt(x)' = TriggeredAt(x)
                      \cup (IF e.kind = "triggered" /\ e.x = x THEN {Len(hist) + 1} ELSE {})
                /\ ReconciledAt(x)' = ReconciledAt(x)
                /\ Named(x)' => Named(x) \/ (e.kind \in {"fired", "triggered"} /\ e.x = x)
  <2>1. /\ e.kind \in {"fired", "triggered", "reconciled"} => e.x \in Occurrences
        /\ e.kind = "reconciled" => e.outcome \in Verdicts
    OBVIOUS
  <2>2. /\ Grown /\ HistoryTyped' /\ Len(hist) \in Nat
        /\ \A x : /\ FiredAt(x)' = FiredAt(x) \cup (IF e.kind = "fired" /\ e.x = x THEN {Len(hist) + 1} ELSE {})
                  /\ TriggeredAt(x)' = TriggeredAt(x)
                        \cup (IF e.kind = "triggered" /\ e.x = x THEN {Len(hist) + 1} ELSE {})
                  /\ ReconciledAt(x)' = ReconciledAt(x)
                        \cup (IF e.kind = "reconciled" /\ e.x = x THEN {Len(hist) + 1} ELSE {})
                  /\ Named(x)' => Named(x) \/ (e.kind \in {"fired", "triggered", "reconciled"} /\ e.x = x)
    BY ONLY <1>1, <2>1, hist' = Append(hist, e), Len(hist) < MaxHistory, e \in Events, Appended
  <2> QED
    BY <2>2
<1>3. ASSUME NEW x \in Occurrences PROVE Dispatched(x)' /\ Reconciled(x)' /\ MarkerTrue(x)'
  <2>1. Dispatched(x) /\ Reconciled(x) /\ MarkerTrue(x)
    BY DEF JournalOK
  <2>2. Scans(x)
    BY <1>2, GrownScans
  <2>3. ~Named(x) => FiredAt(x) = {} /\ TriggeredAt(x) = {} /\ ReconciledAt(x) = {}
    BY <2>2 DEF Scans, Named, ReconciledAt
  <2>4. Dispatched(x)'
    <3>1. CASE e.kind \in {"fired", "triggered"} /\ e.x = x
      <4>1. claim'[x] = "claimed" /\ FiredAt(x) = {} /\ TriggeredAt(x) = {}
        BY <2>3, <3>1
      <4>2. CASE e.kind = "fired"
        <5>1. FiredAt(x)' = {Len(hist) + 1} /\ TriggeredAt(x)' = {} /\ x[1] \notin Triggers
          BY <1>2, <3>1, <4>1, <4>2
        <5> QED
          BY <4>1, <5>1 DEF Dispatched
      <4>3. CASE e.kind = "triggered"
        <5>1. TriggeredAt(x)' = {Len(hist) + 1} /\ FiredAt(x)' = {} /\ x[1] \in Triggers
          BY <1>2, <3>1, <4>1, <4>3
        <5> QED
          BY <4>1, <5>1 DEF Dispatched
      <4> QED
        BY <3>1, <4>2, <4>3
    <3>2. CASE ~(e.kind \in {"fired", "triggered"} /\ e.x = x)
      <4>1. FiredAt(x)' = FiredAt(x) /\ TriggeredAt(x)' = TriggeredAt(x) /\ (Named(x)' => Named(x))
        BY <1>2, <3>2
      <4> QED
        BY <2>1, <4>1 DEF Dispatched
    <3> QED
      BY <3>1, <3>2
  <2>5. ReconciledAt(x)' = ReconciledAt(x) /\ \A i \in ReconciledAt(x) : hist'[i] = hist[i]
    BY <1>2, GrownScans
  <2>6. Reconciled(x)'
    <3> SUFFICES ASSUME ReconciledAt(x) # {}
                 PROVE  Settled(x)' /\ \A i \in ReconciledAt(x) : hist'[i].outcome = Recorded(Classify(x))'
      BY <2>5 DEF Reconciled
    <3>1. Settled(x) /\ \A i \in ReconciledAt(x) : hist[i].outcome = Recorded(Classify(x))
      BY <2>1 DEF Reconciled
    <3>2. FiredAt(x) # {} => TriggeredAt(x)' = {}
      BY <1>2, <2>4, GrownScans DEF Dispatched
    <3>3. Settled(x)' /\ Classify(x)' = Classify(x)
      BY <1>2, <3>1, <3>2, GrownSettled
    <3> QED
      BY <2>5, <3>1, <3>3 DEF Recorded
  <2>7. (Evidence(x) => Evidence(x)') /\ \A i : Response(x, i) => Response(x, i)'
    BY <1>2, GrownEvidence, GrownResponse DEF ClaimsKept, GatesKept
  <2>8. MarkerTrue(x)'
    BY <2>1, <2>5, <2>7 DEF MarkerTrue
  <2> QED
    BY <2>4, <2>6, <2>8
<1> QED
  BY <1>2, <1>3 DEF JournalOK

\* An occurrence that an event does not name.
LEMMA Unnamed ==
    ASSUME JournalOK, Grown, ClaimsKept, GatesKept, NEW x \in Occurrences, marker'[x] = marker[x],
           FiredAt(x)' = FiredAt(x), TriggeredAt(x)' = TriggeredAt(x), ReconciledAt(x)' = ReconciledAt(x),
           Named(x)' => Named(x)
    PROVE  Dispatched(x)' /\ Reconciled(x)' /\ MarkerTrue(x)'
<1>1. Dispatched(x) /\ Reconciled(x) /\ MarkerTrue(x)
  BY DEF JournalOK
<1>2. Dispatched(x)'
  BY <1>1 DEF Dispatched, ClaimsKept
<1>3. \A i \in ReconciledAt(x) : hist'[i] = hist[i]
  BY GrownScans
<1>4. Reconciled(x)'
  <2> SUFFICES ASSUME ReconciledAt(x) # {}
               PROVE  Settled(x)' /\ \A i \in ReconciledAt(x) : hist'[i].outcome = Recorded(Classify(x))'
    BY DEF Reconciled
  <2>1. Settled(x) /\ \A i \in ReconciledAt(x) : hist[i].outcome = Recorded(Classify(x))
    BY <1>1 DEF Reconciled
  <2>2. FiredAt(x) # {} => TriggeredAt(x)' = {}
    BY <1>1 DEF Dispatched
  <2>3. Settled(x)' /\ Classify(x)' = Classify(x)
    BY <2>1, <2>2, GrownSettled
  <2> QED
    BY <1>3, <2>1, <2>3 DEF Recorded
<1>5. (Evidence(x) => Evidence(x)') /\ \A i : Response(x, i) => Response(x, i)'
  BY GrownEvidence, GrownResponse
<1>6. MarkerTrue(x)'
  BY <1>1, <1>3, <1>5 DEF MarkerTrue
<1> QED
  BY <1>2, <1>4, <1>6

\* The first reconciliation within the window of x settles it.
LEMMA ReconciliationSettles ==
    ASSUME HistoryTyped, NEW x \in Occurrences, NEW e \in Events, Len(hist) < MaxHistory,
           hist' = Append(hist, e), e.kind = "reconciled", e.x = x, e.outcome \in Verdicts,
           FiredAt(x) # {}, TriggeredAt(x) = {}, ~Closed(x), ReconciledAt(x) = {}
    PROVE  Settled(x)' /\ Classify(x)' = e.outcome
<1>1. /\ Grown
      /\ Len(hist) \in Nat /\ Len(hist') = Len(hist) + 1 /\ hist'[Len(hist) + 1] = e
      /\ FiredAt(x)' = FiredAt(x) /\ TriggeredAt(x)' = {} /\ ReconciledAt(x)' = {Len(hist) + 1}
  <2>1. e.kind \in {"fired", "triggered", "reconciled"} => e.x \in Occurrences
    OBVIOUS
  <2> QED
    BY <2>1, Appended
<1> PICK m : m = MinOf(FiredAt(x))
  OBVIOUS
<1>2. m \in 1..Len(hist) /\ m = MinOf(FiredAt(x))'
  BY <1>1, GrownScans, GrownWindow DEF Scans
<1>3. Len(hist) + 1 \in Window(x)'
  <2>1. Len(hist) + 1 \in 1..Len(hist') /\ Len(hist) + 1 > m
    BY <1>1, <1>2
  <2>2. ASSUME NEW j \in 1..Len(hist'), hist'[j].kind = "fired", hist'[j].x # x, j > m PROVE FALSE
    <3>1. j \in 1..Len(hist)
      BY <1>1, <2>2
    <3>2. hist'[j] = hist[j]
      BY <1>1, <3>1 DEF Grown
    <3> QED
      BY <2>2, <3>1, <3>2 DEF Closed
  <2>3. Scans(x)'
    BY <1>1, GrownScans
  <2> QED
    BY <1>1, <1>2, <2>1, <2>2, <2>3 DEF Scans
<1>4. ReconciledIn(x)' = {Len(hist) + 1}
  <2>1. ReconciledIn(x)' \subseteq ReconciledAt(x)'
    BY <1>1, GrownScans DEF Scans
  <2>2. Len(hist) + 1 \in ReconciledIn(x)'
    BY <1>1, <1>3 DEF ReconciledIn
  <2> QED
    BY <1>1, <2>1, <2>2
<1>5. MinOf(ReconciledIn(x)') = Len(hist) + 1
  BY <1>1, <1>4, LeastUnique
<1> QED
  BY <1>1, <1>4, <1>5 DEF Settled, Classify

\* A reconciliation records what the scan has said and will say.
LEMMA ReconciliationKeeps ==
    ASSUME JournalOK, UNCHANGED <<claim, marker, gate>>, NEW x \in Occurrences, NEW e \in Events,
           hist' = Append(hist, e), Len(hist) < MaxHistory,
           e.kind = "reconciled", e.x = x, e.outcome = Recorded(Classify(x)),
           Classify(x) # "not_started", ~AlreadyReconciled(x), marker[x] = {}, claim[x] = "claimed"
    PROVE  JournalOK' /\ Recorded(Classify(x))' = Recorded(Classify(x))
<1>1. HistoryTyped /\ Dispatched(x) /\ Reconciled(x) /\ MarkerTrue(x)
  BY DEF JournalOK
<1>2. Classify(x) \in Verdicts \cup {"indeterminate"}
  BY <1>1, ClassifyRange
<1>3. e.outcome \in Verdicts /\ Recorded(e.outcome) = e.outcome /\ (e.outcome = "succeeded" => Classify(x) = "succeeded")
  BY <1>2 DEF Recorded, Verdicts
<1>4. /\ Grown /\ HistoryTyped' /\ Len(hist) \in Nat /\ hist'[Len(hist) + 1] = e
      /\ \A y : /\ FiredAt(y)' = FiredAt(y) /\ TriggeredAt(y)' = TriggeredAt(y)
                /\ ReconciledAt(y)' = ReconciledAt(y) \cup (IF x = y THEN {Len(hist) + 1} ELSE {})
                /\ Named(y)' => Named(y) \/ x = y
  <2>1. e.kind \in {"fired", "triggered", "reconciled"} => e.x \in Occurrences
    OBVIOUS
  <2>2. /\ Grown /\ HistoryTyped' /\ Len(hist) \in Nat /\ hist'[Len(hist) + 1] = e
        /\ \A y : /\ FiredAt(y)' = FiredAt(y) \cup (IF e.kind = "fired" /\ e.x = y THEN {Len(hist) + 1} ELSE {})
                  /\ TriggeredAt(y)' = TriggeredAt(y)
                        \cup (IF e.kind = "triggered" /\ e.x = y THEN {Len(hist) + 1} ELSE {})
                  /\ ReconciledAt(y)' = ReconciledAt(y)
                        \cup (IF e.kind = "reconciled" /\ e.x = y THEN {Len(hist) + 1} ELSE {})
                  /\ Named(y)' => Named(y) \/ (e.kind \in {"fired", "triggered", "reconciled"} /\ e.x = y)
    BY ONLY <1>1, <1>3, <2>1, hist' = Append(hist, e), Len(hist) < MaxHistory, e \in Events, Appended
  <2> QED
    BY ONLY <2>2, e.kind = "reconciled", e.x = x
<1>5. ClaimsKept /\ GatesKept
  BY DEF ClaimsKept, GatesKept
<1>6. ASSUME NEW y \in Occurrences, y # x PROVE Dispatched(y)' /\ Reconciled(y)' /\ MarkerTrue(y)'
  BY <1>4, <1>5, <1>6, Unnamed
<1>7. Dispatched(x)'
  BY <1>1, <1>4 DEF Dispatched
<1>8. Settled(x)' /\ Recorded(Classify(x))' = e.outcome
  <2>1. CASE Settled(x)
    <3>1. FiredAt(x) # {} => TriggeredAt(x)' = {}
      BY <1>1, <1>4 DEF Dispatched
    <3>2. Settled(x)' /\ Classify(x)' = Classify(x)
      BY <1>4, <2>1, <3>1, GrownSettled
    <3> QED
      BY <3>2 DEF Recorded
  <2>2. CASE ~Settled(x)
    <3>1. TriggeredAt(x) = {} /\ FiredAt(x) # {} /\ ~Closed(x) /\ ReconciledAt(x) = {}
      BY <1>1, <2>2 DEF Settled, Classify, Reconciled
    <3>2. Settled(x)' /\ Classify(x)' = e.outcome
      BY <1>1, <1>3, <3>1, ReconciliationSettles
    <3> QED
      BY <1>3, <3>2 DEF Recorded
  <2> QED
    BY <2>1, <2>2
<1>9. \A i \in ReconciledAt(x)' : hist'[i].outcome = e.outcome
  <2>1. \A i \in ReconciledAt(x) : hist'[i].outcome = e.outcome
    BY <1>1, <1>4, GrownScans DEF Reconciled
  <2> QED
    BY <1>4, <2>1
<1>10. Reconciled(x)'
  BY <1>8, <1>9 DEF Reconciled
<1>11. \A i \in ReconciledAt(x)' : hist'[i].outcome = "succeeded" => Response(x, i)'
  <2>1. \A i \in ReconciledAt(x) : hist[i] = hist'[i]
    BY <1>4, GrownScans
  <2>2. \A i \in ReconciledAt(x) : hist'[i].outcome = "succeeded" => Response(x, i)'
    BY <1>1, <1>4, <2>1, GrownResponse DEF MarkerTrue
  <2>3. e.outcome = "succeeded" => Response(x, Len(hist) + 1)
    BY <1>1, <1>3, ClassifyEvidence
  <2> PICK n : n = Len(hist) + 1
    OBVIOUS
  <2>4. e.outcome = "succeeded" => Response(x, n)'
    BY <1>4, <2>3, GrownResponse
  <2> QED
    BY <1>4, <2>2, <2>4
<1>12. MarkerTrue(x)'
  BY <1>9, <1>11 DEF MarkerTrue
<1> QED
  BY <1>4, <1>6, <1>7, <1>8, <1>10, <1>12 DEF JournalOK

\* A marker agrees with the evidence and with the reconciliations.
LEMMA MarkerAgrees ==
    ASSUME JournalOK, WorkerOK, UNCHANGED <<hist, claim, gate>>, NEW x \in Occurrences, NEW ok \in BOOLEAN,
           CompleteExecution(x, ok), marker[x] = {}, ok => Evidence(x),
           \A i \in ReconciledAt(x) : hist[i].outcome = IF ok THEN "succeeded" ELSE "failed"
    PROVE  JournalOK' /\ Grown /\ \A y \in Occurrences : y # x => marker'[y] = marker[y]
<1>1. Grown /\ HistoryTyped'
  BY DEF Grown, JournalOK, HistoryTyped
<1>2. ClaimsKept /\ GatesKept
  BY DEF ClaimsKept, GatesKept
<1>3. /\ marker'[x] = {IF ok THEN "succeeded" ELSE "failed"}
      /\ \A y \in Occurrences : y # x => marker'[y] = marker[y]
  BY DEF WorkerOK, WorkerTyped, CompleteExecution
<1>4. ASSUME NEW y \in Occurrences
      PROVE /\ FiredAt(y)' = FiredAt(y) /\ TriggeredAt(y)' = TriggeredAt(y)
            /\ ReconciledAt(y)' = ReconciledAt(y) /\ ReconciledIn(y)' = ReconciledIn(y)
            /\ Closed(y)' = Closed(y) /\ Named(y)' = Named(y) /\ Classify(y)' = Classify(y)
  BY SameHistory
<1>5. ASSUME NEW y \in Occurrences, y # x PROVE Dispatched(y)' /\ Reconciled(y)' /\ MarkerTrue(y)'
  BY <1>1, <1>2, <1>3, <1>4, <1>5, Unnamed
<1>6. Dispatched(x) /\ Reconciled(x) /\ MarkerTrue(x)
  BY DEF JournalOK
<1>7. Dispatched(x)'
  BY <1>4, <1>6 DEF Dispatched
<1>8. Reconciled(x)'
  BY <1>4, <1>6 DEF Reconciled, Settled
<1>9. (Evidence(x) => Evidence(x)') /\ \A i : Response(x, i) => Response(x, i)'
  BY <1>1, <1>2, GrownEvidence, GrownResponse
<1>10. MarkerTrue(x)'
  <2>1. CASE ok
    BY <1>3, <1>4, <1>6, <1>9, <2>1 DEF MarkerTrue
  <2>2. CASE ~ok
    BY <1>3, <1>4, <1>6, <1>9, <2>2 DEF MarkerTrue
  <2> QED
    BY <2>1, <2>2
<1> QED
  BY <1>1, <1>3, <1>5, <1>7, <1>8, <1>10 DEF JournalOK

-----------------------------------------------------------------------------
(***************************************************************************)
(* One task moves, the others stand still                                  *)
(***************************************************************************)
LEMMA TaskIs ==
    ASSUME NEW t, TaskOK(t)
    PROVE  \E v \in Slots : v = task[t] /\ ExecutionOK(t, v) /\ HoldingOK(v) /\ PhaseOK(t, v)
BY DEF TaskOK

\* An occurrence that a step does not take from its holder.
Untouched(x) ==
    /\ claim'[x] = "claimed" /\ marker'[x] = {} /\ x \notin w'.got
    /\ ReconciledAt(x)' = ReconciledAt(x)
    /\ Named(x)' => Named(x)

NoneFired == \A j \in 1..Len(hist') : hist'[j].kind = "fired" => j \in 1..Len(hist)

LEMMA OtherTask ==
    ASSUME NEW q \in Tasks, TaskOK(q), Grown, ClaimsKept, GatesKept, task'[q] = task[q],
           turn' = q <=> turn = q, daemon' = daemon,
           \A x \in Held(task[q]) : Untouched(x),
           turn = q => NoneFired,
           task[q].pc \in Recovering => UNCHANGED hist
    PROVE  TaskOK(q)'
<1> PICK v \in Slots : v = task[q] /\ ExecutionOK(q, v) /\ HoldingOK(v) /\ PhaseOK(q, v)
  BY TaskIs
<1>1. HoldingOK(v)'
  <2>1. Fresh(v) \subseteq Held(v)
    BY DEF Fresh, Held, Cur, Executing
  <2> QED
    BY <2>1 DEF HoldingOK, Untouched
<1>2. PhaseOK(q, v)'
  BY DEF PhaseOK
<1>3. v.pc \in Executing \cup Recovering => v.cur \in Occurrences /\ v.cur \in Held(v)
  BY DEF ExecutionOK, Held, Cur
<1>4. v.pc \in Executing \cup Recovering =>
         /\ ReconciledAt(v.cur)' = ReconciledAt(v.cur) /\ (Evidence(v.cur) => Evidence(v.cur)')
         /\ \A i \in ReconciledAt(v.cur) : hist'[i] = hist[i]
  BY <1>3, GrownEvidence, GrownScans DEF Untouched
<1>5. v.pc = "turn" =>
        \E f \in FiredAt(v.cur)' : /\ v.pos \in 1..Len(hist') /\ f <= v.pos
                                   /\ \A j \in 1..Len(hist') : hist'[j].kind = "fired" => j <= f
  <2> SUFFICES ASSUME v.pc = "turn"
               PROVE  \E f \in FiredAt(v.cur)' : /\ v.pos \in 1..Len(hist') /\ f <= v.pos
                                                 /\ \A j \in 1..Len(hist') : hist'[j].kind = "fired" => j <= f
    OBVIOUS
  <2>1. PICK f \in FiredAt(v.cur) : /\ v.pos \in 1..Len(hist) /\ f <= v.pos
                                    /\ \A j \in 1..Len(hist) : hist[j].kind = "fired" => j <= f
    BY DEF ExecutionOK
  <2>2. NoneFired
    BY DEF ExecutionOK
  <2>3. f \in FiredAt(v.cur)'
    BY GrownScans
  <2>4. v.pos \in 1..Len(hist')
    BY <2>1 DEF Grown
  <2>5. \A j \in 1..Len(hist') : hist'[j].kind = "fired" => j <= f
    BY <2>1, <2>2 DEF NoneFired, Grown
  <2> QED
    BY <2>1, <2>3, <2>4, <2>5
<1>6. v.pc \in Recovering =>
        /\ Classify(v.cur)' = Classify(v.cur) /\ AlreadyReconciled(v.cur)' = AlreadyReconciled(v.cur)
  BY SameHistory DEF AlreadyReconciled
<1>7. ExecutionOK(q, v)'
  <2>1. v.pc = "turn" <=> turn' = q
    BY DEF ExecutionOK
  <2>2. v.pc \in {"complete", "reconcile", "close"} /\ v.ok => Evidence(v.cur)'
    BY <1>4 DEF ExecutionOK, Executing, Recovering
  <2>3. v.pc \in Executing => ReconciledAt(v.cur)' = {}
    BY <1>4 DEF ExecutionOK
  <2>4. v.pc = "reconcile" =>
           /\ Classify(v.cur)' # "not_started" /\ ~AlreadyReconciled(v.cur)'
           /\ v.ok = (Classify(v.cur)' = "succeeded")
    BY <1>6 DEF ExecutionOK, Recovering
  <2>5. v.pc = "close" =>
           \A i \in ReconciledAt(v.cur)' : hist'[i].outcome = IF v.ok THEN "succeeded" ELSE "failed"
    BY <1>4 DEF ExecutionOK, Recovering
  <2> QED
    BY <1>5, <2>1, <2>2, <2>3, <2>4, <2>5 DEF ExecutionOK
<1> QED
  BY <1>1, <1>2, <1>7 DEF TaskOK

\* What a step of task t leaves to the others.
Spares(t) ==
    /\ Grown /\ ClaimsKept /\ GatesKept /\ UNCHANGED <<claim, w, daemon>>
    /\ \A x \in Occurrences \ Held(task[t]) :
          /\ marker'[x] = marker[x] /\ ReconciledAt(x)' = ReconciledAt(x)
          /\ Named(x)' => Named(x)
    /\ turn \in {t, Nobody} \/ NoneFired
    /\ \A q \in Tasks \ {t} : turn' = q <=> turn = q

LEMMA OthersStand ==
    ASSUME IInv, NEW t \in Tasks, Spares(t), task[t].pc # "idle", NEW q \in Tasks \ {t}, task'[q] = task[q]
    PROVE  TaskOK(q)'
<1> PICK v \in Slots : v = task[q] /\ ExecutionOK(q, v) /\ HoldingOK(v) /\ PhaseOK(q, v)
  BY TaskIs DEF IInv, Delivers
<1> PICK u \in Slots : u = task[t] /\ ExecutionOK(t, u) /\ HoldingOK(u) /\ PhaseOK(t, u)
  BY TaskIs DEF IInv, Delivers
<1>1. Held(v) \subseteq Occurrences
  BY DEF Held, Cur, Slots
<1>2. Held(task[q]) \cap Held(task[t]) = {}
  BY DEF IInv, Delivers, System
<1>3. \A x \in Held(task[q]) : Untouched(x)
  BY <1>1, <1>2 DEF Spares, Untouched, HoldingOK
<1>4. turn = q => NoneFired
  <2>1. turn = q => turn # Nobody
    BY DeliveryAssumption DEF Tasks
  <2> QED
    BY <2>1 DEF Spares
<1>5. task[q].pc \in Recovering => UNCHANGED hist
  BY DEF PhaseOK, Recovering
<1> QED
  BY <1>3, <1>4, <1>5, OtherTask DEF Spares, IInv, Delivers

LEMMA TaskMoves ==
    ASSUME IInv, NEW t \in Tasks, Spares(t), task[t].pc \notin {"idle", "waiting"}, JournalOK', seen' = seen,
           NEW v \in Slots, task' = [task EXCEPT ![t] = v], v.pc # "idle" \/ t # "startup",
           Held(v) \subseteq Held(task[t]), v.replay = task[t].replay, v.replay \/ Way(v) \subseteq Way(task[t]),
           turn' \in Tasks \cup {Nobody}, gate' \in [Deferred -> {"pending", "resumed"}],
           \A s \in Deferred : gate'[s] = "resumed" /\ gate[s] # "resumed" => Won(s)',
           v.todo \cap v.batch = {}, Cur(v) \cap (v.todo \cup v.batch) = {},
           \A x \in Held(v) : marker'[x] = {},
           \A x \in Fresh(v) : ~Named(x)',
           ExecutionOK(t, v)', PhaseOK(t, v)'
    PROVE  Delivers'
<1> PICK u \in Slots : u = task[t] /\ ExecutionOK(t, u) /\ HoldingOK(u) /\ PhaseOK(t, u)
  BY TaskIs DEF IInv, Delivers
<1>1. /\ task \in [Tasks -> Slots] /\ task'[t] = v
      /\ \A q \in Tasks : q # t => task'[q] = task[q]
  BY DEF IInv, Delivers, TasksTyped
<1>2. TasksTyped'
  BY <1>1 DEF IInv, Delivers, TasksTyped, Spares
<1>3. HoldingOK(v)'
  BY DEF HoldingOK, Spares
<1>4. TaskOK(t)'
  BY <1>1, <1>3 DEF TaskOK
<1>5. ASSUME NEW q \in Tasks PROVE TaskOK(q)'
  BY <1>1, <1>4, OthersStand
<1>6. System'
  <2>1. \A t1, t2 \in Tasks : t1 # t2 => Held(task'[t1]) \cap Held(task'[t2]) = {}
    BY <1>1 DEF IInv, Delivers, System
  <2>2. w' = w /\ claim' = claim /\ daemon' = daemon
    BY DEF Spares
  <2>3. \A x \in w.got : x \in Occurrences \ Held(task[t])
    BY DEF HoldingOK, IInv, Delivers, WorkerOK, WorkerTyped, Workers
  <2>4. \A x \in w'.got : ~Named(x)' /\ marker'[x] = {}
    BY <2>2, <2>3 DEF Spares, IInv, Delivers, System
  <2>5. \A x \in Occurrences : claim'[x] # "claimed" => marker'[x] = {}
    BY <2>2 DEF HoldingOK, Spares, IInv, Delivers, System
  <2>6. ASSUME NEW s \in Deferred, gate'[s] = "resumed" PROVE Won(s)'
    <3>1. CASE gate[s] = "resumed"
      <4>1. PICK y \in Occurrences :
               /\ y[1] = s /\ claim[y] = "claimed" /\ y \notin w.got
               /\ \A q \in Tasks : ~task[q].replay => y \notin Way(task[q])
        BY <3>1 DEF IInv, Delivers, System, Won
      <4>2. \A q \in Tasks : ~task'[q].replay => y \notin Way(task'[q])
        BY <1>1, <4>1
      <4> QED
        BY <2>2, <4>1, <4>2 DEF Won
    <3> QED
      BY <2>6, <3>1
  <2>7. w'.for # Nobody => task'[w'.for].pc = "waiting"
    <3>1. w.for \in Requesters \cup {Nobody}
      BY DEF IInv, Delivers, WorkerOK, WorkerTyped, Workers
    <3>2. w.for # Nobody => w.for \in Tasks /\ task[w.for].pc = "waiting"
      BY <3>1 DEF IInv, Delivers, System, Requesters, Tasks
    <3> QED
      BY <1>1, <2>2, <3>2
  <2>8. daemon' = "recovering" => task'["startup"].pc # "idle"
    BY <1>1, <2>2 DEF IInv, Delivers, System, Tasks
  <2>9. (daemon' # "serving" => w'.pc \in {"dead", "ready"}) /\ (daemon' = "down" => w'.pc = "dead")
    BY <2>2 DEF IInv, Delivers, System
  <2> QED
    BY <2>1, <2>4, <2>5, <2>6, <2>7, <2>8, <2>9 DEF System
<1> QED
  BY <1>2, <1>5, <1>6 DEF Delivers

-----------------------------------------------------------------------------
(***************************************************************************)
(* The worker moves, the deliveries stand still                            *)
(***************************************************************************)
LEMMA NotEmpty == \A x \in Occurrences : x # <<>>
<1> SUFFICES ASSUME NEW x \in Occurrences, x = <<>> PROVE FALSE
  OBVIOUS
<1>1. PICK a, b : x = <<a, b>>
  BY Numbering
<1>2. Len(<<a, b>>) = 2 /\ Len(<<>>) = 0
  OBVIOUS
<1> QED
  BY <1>1, <1>2

LEMMA WorkerMoves ==
    ASSUME IInv, UNCHANGED <<marker, deliveryVars>>, ClaimsKept,
           \A x \in w'.got : x \in w.got \/ (x \in Occurrences /\ claim[x] # "claimed"),
           w'.for = w.for,
           daemon # "serving" => w'.pc \in {"dead", "ready"}, daemon = "down" => w'.pc = "dead"
    PROVE  Delivers'
<1>1. UNCHANGED <<hist, gate, turn, daemon, seen, task>>
  BY DEF deliveryVars
<1>2. JournalOK' /\ Grown /\ GatesKept
  BY <1>1, JournalStands DEF IInv, Delivers, GatesKept
<1>3. TasksTyped'
  BY <1>1 DEF IInv, Delivers, TasksTyped
<1>4. ASSUME NEW q \in Tasks PROVE TaskOK(q)'
  <2> PICK v \in Slots : v = task[q] /\ ExecutionOK(q, v) /\ HoldingOK(v) /\ PhaseOK(q, v)
    BY TaskIs DEF IInv, Delivers
  <2>1. Held(v) \subseteq Occurrences
    BY DEF Held, Cur, Slots
  <2>2. ASSUME NEW x \in Held(v) PROVE Untouched(x)
    <3>1. ReconciledAt(x)' = ReconciledAt(x) /\ Named(x)' = Named(x)
      BY <1>1, SameHistory
    <3> QED
      BY <2>1, <3>1 DEF Untouched, HoldingOK, ClaimsKept
  <2>3. NoneFired
    BY <1>1 DEF NoneFired
  <2> QED
    BY <1>1, <1>2, <2>2, <2>3, OtherTask DEF IInv, Delivers
<1>5. System'
  <2>1. \A x \in w'.got : ~Named(x)' /\ marker'[x] = {}
    <3> SUFFICES ASSUME NEW x \in w'.got PROVE ~Named(x)' /\ marker'[x] = {}
      OBVIOUS
    <3>1. Named(x)' = Named(x)
      BY <1>1, SameHistory
    <3>2. CASE x \in w.got
      BY <3>1, <3>2 DEF IInv, Delivers, System
    <3>3. CASE x \in Occurrences /\ claim[x] # "claimed"
      BY <3>1, <3>3 DEF IInv, Delivers, System, JournalOK, Dispatched
    <3> QED
      BY <3>2, <3>3
  <2>2. \A x \in Occurrences : claim'[x] # "claimed" => marker'[x] = {}
    BY DEF IInv, Delivers, System, ClaimsKept
  <2>3. ASSUME NEW s \in Deferred, gate'[s] = "resumed" PROVE Won(s)'
    <3>1. PICK y \in Occurrences :
             /\ y[1] = s /\ claim[y] = "claimed" /\ y \notin w.got
             /\ \A q \in Tasks : ~task[q].replay => y \notin Way(task[q])
      BY <1>1, <2>3 DEF IInv, Delivers, System, Won
    <3>2. claim'[y] = "claimed" /\ y \notin w'.got
      BY <3>1 DEF ClaimsKept
    <3> QED
      BY <1>1, <3>1, <3>2 DEF Won
  <2> QED
    BY <1>1, <2>1, <2>2, <2>3 DEF IInv, Delivers, System
<1> QED
  BY <1>2, <1>3, <1>4, <1>5 DEF Delivers

LEMMA WorkerStepDelivers ==
    ASSUME IInv, WorkerStep, UNCHANGED deliveryVars
    PROVE  Delivers'
<1>1. WorkerOK /\ Onward
  BY WorkerStepKeeps DEF IInv
<1>2. UNCHANGED marker
  BY DEF WorkerStep, OpenSchedule, ClaimOccurrence, FillClaim, SaveSchedule, FinishSave
<1>3. ClaimsKept
  BY <1>1 DEF Onward, ClaimsKept
<1>4. \A x \in w'.got : x \in w.got \/ (x \in Occurrences /\ claim[x] # "claimed")
  BY <1>1 DEF Onward
<1>5. daemon = "serving"
  BY <1>1 DEF Onward, IInv, Delivers, System
<1> QED
  BY <1>1, <1>2, <1>3, <1>4, <1>5, WorkerMoves DEF Onward

LEMMA ScheduleDelivers ==
    ASSUME IInv, NEW s \in Schedules, StoreSchedule(s) \/ RemoveSchedule(s)
    PROVE  Delivers'
<1> PICK v \in Workers : v = w /\ Serves(v)
  BY Request DEF IInv
<1>1. v.pc = "ready" /\ UNCHANGED <<marker, claim, deliveryVars>> /\ daemon = "serving"
  BY DEF StoreSchedule, RemoveSchedule, Upsert, Remove
<1>2. v.for = Nobody /\ v.got = {}
  BY <1>1 DEF Serves
<1>3. w'.for = v.for /\ w'.got = v.got
  <2>1. CASE StoreSchedule(s)
    BY <1>1, <1>2, <2>1 DEF StoreSchedule, Upsert, BeginSave, Workers
  <2>2. CASE RemoveSchedule(s)
    BY <2>2 DEF RemoveSchedule, Remove
  <2> QED
    BY <2>1, <2>2
<1>4. ClaimsKept
  BY <1>1 DEF ClaimsKept
<1> QED
  BY <1>1, <1>3, <1>4, WorkerMoves

LEMMA TickDelivers ==
    ASSUME IInv, Tick, UNCHANGED <<store, w, deliveryVars>>
    PROVE  Delivers'
<1>1. UNCHANGED <<marker, claim, w, deliveryVars>>
  BY DEF store
<1>2. ClaimsKept
  BY <1>1 DEF ClaimsKept
<1>3. (daemon # "serving" => w.pc \in {"dead", "ready"}) /\ (daemon = "down" => w.pc = "dead")
  BY DEF IInv, Delivers, System
<1> QED
  BY <1>1, <1>2, <1>3, WorkerMoves

-----------------------------------------------------------------------------
(***************************************************************************)
(* Requests, answers and deaths                                            *)
(***************************************************************************)
\* A task that sends a request, or gets its answer or none.
Asks(q, v) ==
    /\ q # "startup" /\ task[q].pc \in {"idle", "waiting", "collected"}
    /\ v.pc \in {"idle", "waiting", "collected", "next"} /\ v.todo = {} /\ ~v.replay
    /\ v.batch \subseteq task[q].batch \cup (IF q = w.for THEN w.got ELSE {})
    /\ v.pc = "idle" => v.batch = {}
    /\ v.pc = "waiting" => q = "observer" \/ v.batch = {}
    /\ v.pc # "idle" => daemon = "serving"

LEMMA RequestMoves ==
    ASSUME IInv, UNCHANGED <<claim, marker, hist, gate, turn, daemon>>, SeenOK', task' \in [Tasks -> Slots],
           \A q \in Tasks : task'[q] = task[q] \/ \E v \in Slots : v = task'[q] /\ Asks(q, v),
           w'.got = {},
           w'.for # Nobody => w'.for \in Tasks /\ task'[w'.for].pc = "waiting",
           daemon # "serving" => w'.pc \in {"dead", "ready"}, daemon = "down" => w'.pc = "dead"
    PROVE  Delivers'
<1>1. ClaimsKept /\ GatesKept
  BY DEF ClaimsKept, GatesKept
<1>2. JournalOK' /\ Grown
  BY <1>1, JournalStands DEF IInv, Delivers
<1>3. TasksTyped'
  BY DEF IInv, Delivers, TasksTyped, SeenOK
<1>4. \A x : Named(x)' = Named(x) /\ ReconciledAt(x)' = ReconciledAt(x)
  BY SameHistory
<1>5. NoneFired
  BY DEF NoneFired
<1>6. w.got \subseteq Occurrences /\ \A x \in w.got : claim[x] = "claimed" /\ ~Named(x) /\ marker[x] = {}
  <2> PICK g \in Workers : g = w /\ Serves(g)
    BY Request DEF IInv
  <2> QED
    BY DEF Serves, Workers, IInv, Delivers, System
<1>7. ASSUME NEW q \in Tasks
      PROVE  /\ TaskOK(q)'
             /\ Held(task'[q]) \subseteq Held(task[q]) \cup (IF q = w.for THEN w.got ELSE {})
             /\ ~task'[q].replay => ~task[q].replay
             /\ Way(task'[q]) \subseteq Way(task[q]) \cup w.got
             /\ q = "startup" => task'[q] = task[q]
  <2> PICK u \in Slots : u = task[q] /\ ExecutionOK(q, u) /\ HoldingOK(u) /\ PhaseOK(q, u)
    BY TaskIs DEF IInv, Delivers
  <2>1. CASE task'[q] = task[q]
    <3>1. Held(u) \subseteq Occurrences
      BY DEF Held, Cur, Slots
    <3>2. \A x \in Held(u) : Untouched(x)
      BY <1>4, <3>1 DEF Untouched, HoldingOK
    <3>3. TaskOK(q)'
      BY <1>1, <1>2, <1>5, <2>1, <3>2, OtherTask DEF IInv, Delivers
    <3> QED
      BY <2>1, <3>3
  <2>2. ASSUME NEW v \in Slots, v = task'[q], Asks(q, v)
        PROVE  /\ TaskOK(q)'
               /\ Held(task'[q]) \subseteq Held(task[q]) \cup (IF q = w.for THEN w.got ELSE {})
               /\ ~task'[q].replay => ~task[q].replay
               /\ Way(task'[q]) \subseteq Way(task[q]) \cup w.got
               /\ q = "startup" => task'[q] = task[q]
    <3>1. Held(v) = v.batch /\ Fresh(v) = v.batch /\ Way(v) = v.batch /\ Cur(v) = {}
      BY <2>2 DEF Asks, Held, Fresh, Way, Cur, Executing, Recovering
    <3>2. v.batch \subseteq u.batch \cup (IF q = w.for THEN w.got ELSE {})
      BY <2>2 DEF Asks
    <3>3. u.batch \subseteq Held(u) /\ u.batch \subseteq Fresh(u) /\ u.batch \subseteq Way(u)
      BY DEF Held, Fresh, Way
    <3>4. HoldingOK(v)'
      <4>1. \A x \in v.batch : claim'[x] = "claimed" /\ marker'[x] = {} /\ x \notin w'.got /\ ~Named(x)'
        BY <1>4, <1>6, <3>2, <3>3 DEF HoldingOK
      <4>2. v.todo = {}
        BY <2>2 DEF Asks
      <4> QED
        BY <3>1, <4>1, <4>2 DEF HoldingOK
    <3>5. ExecutionOK(q, v)'
      <4>1. v.pc \notin Executing \cup Recovering /\ u.pc # "turn"
        BY <2>2 DEF Asks, Executing, Recovering
      <4>2. turn' # q
        BY <4>1 DEF ExecutionOK
      <4> QED
        BY <4>1, <4>2 DEF ExecutionOK, Executing, Recovering
    <3>6. PhaseOK(q, v)'
      BY <2>2 DEF Asks, PhaseOK, Recovering
    <3>7. TaskOK(q)'
      BY <2>2, <3>4, <3>5, <3>6 DEF TaskOK
    <3>8. ~u.replay /\ q # "startup"
      BY <2>2 DEF Asks, PhaseOK
    <3> QED
      BY <2>2, <3>1, <3>2, <3>3, <3>7, <3>8
  <2> QED
    BY <2>1, <2>2
<1>8. System'
  <2>1. ASSUME NEW t1 \in Tasks, NEW t2 \in Tasks, t1 # t2
        PROVE  Held(task'[t1]) \cap Held(task'[t2]) = {}
    <3>1. Held(task[t1]) \cap Held(task[t2]) = {}
      BY <2>1 DEF IInv, Delivers, System
    <3>2. Held(task[t1]) \cap w.got = {} /\ Held(task[t2]) \cap w.got = {}
      BY DEF IInv, Delivers, TaskOK, HoldingOK
    <3> QED
      BY <1>7, <2>1, <3>1, <3>2
  <2>2. \A x \in Occurrences : claim'[x] # "claimed" => marker'[x] = {}
    BY DEF IInv, Delivers, System
  <2>3. ASSUME NEW s \in Deferred, gate'[s] = "resumed" PROVE Won(s)'
    <3>1. PICK y \in Occurrences :
             /\ y[1] = s /\ claim[y] = "claimed" /\ y \notin w.got
             /\ \A q \in Tasks : ~task[q].replay => y \notin Way(task[q])
      BY <2>3 DEF IInv, Delivers, System, Won
    <3>2. \A q \in Tasks : ~task'[q].replay => y \notin Way(task'[q])
      BY <1>7, <3>1
    <3> QED
      BY <3>1, <3>2 DEF Won
  <2>4. daemon' = "recovering" => task'["startup"].pc # "idle"
    BY <1>7 DEF IInv, Delivers, System, Tasks
  <2> QED
    BY <2>1, <2>2, <2>3, <2>4 DEF System
<1> QED
  BY <1>2, <1>3, <1>7, <1>8 DEF Delivers

\* Only requesters wait, and only while the daemon serves.
LEMMA Waits ==
    ASSUME IInv, NEW q \in Tasks, task[q].pc \in {"waiting", "collected"} \/ (task[q].pc = "idle" /\ q # "startup")
    PROVE  /\ q # "startup" /\ ~task[q].replay /\ task[q].todo = {}
           /\ task[q].pc # "idle" => daemon = "serving"
           /\ task[q].pc = "idle" => task[q].batch = {}
           /\ task[q].pc = "waiting" => q = "observer" \/ task[q].batch = {}
<1> PICK u \in Slots : u = task[q] /\ PhaseOK(q, u)
  BY TaskIs DEF IInv, Delivers
<1>1. q # "startup" /\ daemon \in {"down", "recovering", "serving"}
  BY DEF PhaseOK, IInv, Delivers, TasksTyped
<1> QED
  BY <1>1 DEF PhaseOK, Recovering

LEMMA PollDelivers ==
    ASSUME IInv, Poll
    PROVE  Delivers'
<1>1. "poller" \in Tasks /\ "poller" \in Requesters /\ "poller" # "startup"
  BY DEF Tasks, Requesters
<1>2. /\ daemon = "serving" /\ task["poller"].pc = "idle" /\ BeginClaimDue("poller")
      /\ task' = [task EXCEPT !["poller"].pc = "waiting"] /\ UNCHANGED <<hist, seen, gate, turn, daemon>>
  BY DEF Poll, At, Goto
<1>3. w'.got = {} /\ w'.for = "poller" /\ UNCHANGED <<claim, marker>>
  BY <1>1, <1>2, ClaimDueKeeps DEF IInv, BeginClaimDue, store
<1> PICK u \in Slots : u = task["poller"]
  BY <1>1 DEF IInv, Delivers, TasksTyped
<1> PICK v : v = [u EXCEPT !.pc = "waiting"]
  OBVIOUS
<1>4. v \in Slots /\ v.pc = "waiting" /\ v.todo = u.todo /\ v.batch = u.batch /\ v.replay = u.replay
  BY ONLY u \in Slots, v = [u EXCEPT !.pc = "waiting"] DEF Slots
<1>5. /\ task' \in [Tasks -> Slots] /\ task'["poller"] = v
      /\ \A q \in Tasks : q # "poller" => task'[q] = task[q]
  BY <1>1, <1>2, <1>4 DEF IInv, Delivers, TasksTyped
<1>6. Asks("poller", v)
  BY <1>1, <1>2, <1>4, Waits DEF Asks
<1>7. SeenOK'
  BY <1>2 DEF IInv, Delivers, TasksTyped, SeenOK
<1>8. \A q \in Tasks : task'[q] = task[q] \/ \E g \in Slots : g = task'[q] /\ Asks(q, g)
  BY <1>4, <1>5, <1>6
<1> QED
  BY ONLY IInv, <1>1, <1>2, <1>3, <1>4, <1>5, <1>7, <1>8, RequestMoves

LEMMA ObserveDelivers ==
    ASSUME IInv, Observe
    PROVE  Delivers'
<1>1. "observer" \in Tasks /\ "observer" \in Requesters /\ "observer" # "startup"
  BY DEF Tasks, Requesters
<1>2. /\ daemon = "serving" /\ task["observer"].pc \in {"idle", "collected"} /\ BeginFire("observer", seen + 1)
      /\ task' = [task EXCEPT !["observer"].pc = "waiting"] /\ UNCHANGED <<hist, gate, turn, daemon>>
      /\ seen < MaxEvents /\ seen' = seen + 1
  BY DEF Observe, At, Goto
<1>3. seen + 1 \in 1..MaxEvents /\ SeenOK'
  BY <1>2, SchedulerAssumption DEF IInv, Delivers, TasksTyped, SeenOK
<1>4. w'.got = {} /\ w'.for = "observer" /\ UNCHANGED <<claim, marker>>
  BY <1>1, <1>2, <1>3, FireKeeps DEF IInv, BeginFire, store
<1> PICK u \in Slots : u = task["observer"]
  BY <1>1 DEF IInv, Delivers, TasksTyped
<1> PICK v : v = [u EXCEPT !.pc = "waiting"]
  OBVIOUS
<1>5. v \in Slots /\ v.pc = "waiting" /\ v.todo = u.todo /\ v.batch = u.batch /\ v.replay = u.replay
  BY ONLY u \in Slots, v = [u EXCEPT !.pc = "waiting"] DEF Slots
<1>6. /\ task' \in [Tasks -> Slots] /\ task'["observer"] = v
      /\ \A q \in Tasks : q # "observer" => task'[q] = task[q]
  BY <1>1, <1>2, <1>5 DEF IInv, Delivers, TasksTyped
<1>7. Asks("observer", v)
  BY <1>1, <1>2, <1>5, Waits DEF Asks
<1>8. \A q \in Tasks : task'[q] = task[q] \/ \E g \in Slots : g = task'[q] /\ Asks(q, g)
  BY <1>5, <1>6, <1>7
<1> QED
  BY ONLY IInv, <1>1, <1>2, <1>3, <1>4, <1>5, <1>6, <1>8, RequestMoves

LEMMA NoTaskIs ==
    /\ NoTask \in Slots /\ NoTask.pc = "idle" /\ NoTask.todo = {} /\ NoTask.batch = {} /\ ~NoTask.replay
    /\ Held(NoTask) = {} /\ Fresh(NoTask) = {} /\ Way(NoTask) = {} /\ Cur(NoTask) = {}
<1>1. /\ NoTask \in Slots /\ NoTask.pc = "idle" /\ NoTask.todo = {} /\ NoTask.batch = {} /\ ~NoTask.replay
  BY DeliveryAssumption DEF NoTask, Slots
<1> QED
  BY <1>1 DEF Held, Fresh, Way, Cur, Executing, Recovering

\* The answer of the worker, and none.
LEMMA AnswerIs ==
    ASSUME IInv, NEW q \in Tasks, task[q].pc = "waiting", NEW claims, claims \subseteq w.got,
           claims = {} \/ q = w.for
    PROVE  /\ Answered(q, claims) \in Slots /\ Asks(q, Answered(q, claims))
           /\ Unanswered(q) \in Slots /\ Asks(q, Unanswered(q))
<1>1. /\ q # "startup" /\ ~task[q].replay /\ task[q].todo = {} /\ daemon = "serving"
      /\ task[q].pc = "waiting" => q = "observer" \/ task[q].batch = {}
  BY Waits
<1> PICK u \in Slots : u = task[q]
  BY DEF IInv, Delivers, TasksTyped
<1>2. w.got \subseteq Occurrences
  BY DEF IInv, WorkerOK, WorkerTyped, Workers
<1>3. ASSUME NEW c, c \subseteq w.got, c = {} \/ q = w.for
      PROVE  Answered(q, c) \in Slots /\ Asks(q, Answered(q, c))
  <2> PICK v : v = Answered(q, c)
    OBVIOUS
  <2> PICK p \in {"collected", "next"} : p = IF q = "observer" THEN "collected" ELSE "next"
    OBVIOUS
  <2>1. v = [u EXCEPT !.pc = p, !.batch = @ \cup c]
    BY DEF Answered
  <2>2. /\ v \in Slots /\ v.pc = p /\ v.todo = u.todo /\ v.batch = u.batch \cup c /\ v.replay = u.replay
    BY ONLY u \in Slots, p \in {"collected", "next"}, <1>2, <1>3, <2>1 DEF Slots
  <2>3. Asks(q, v)
    BY <1>1, <1>3, <2>2 DEF Asks
  <2> QED
    BY <2>2, <2>3
<1>4. Asks(q, NoTask)
  BY <1>1, NoTaskIs DEF Asks
<1>5. Answered(q, {}) \in Slots /\ Asks(q, Answered(q, {}))
  BY <1>3
<1>6. Unanswered(q) \in Slots /\ Asks(q, Unanswered(q))
  BY <1>4, <1>5, NoTaskIs DEF Unanswered
<1> QED
  BY <1>3, <1>6

LEMMA ReceiveDelivers ==
    ASSUME IInv, ReceiveClaims \/ ReceiveError
    PROVE  Delivers'
<1>1. w' = Ready /\ UNCHANGED <<claim, marker, daemon, hist, seen, gate, turn>>
  BY DEF ReceiveClaims, ReceiveError, store
<1>2. w'.got = {} /\ w'.for = Nobody /\ w'.pc = "ready"
  BY <1>1, WorkerRests
<1>3. SeenOK'
  BY <1>1 DEF IInv, Delivers, TasksTyped, SeenOK
<1>4. daemon # "down"
  <2>1. w.pc # "dead"
    BY DEF ReceiveClaims, ReceiveError, Answering, WorkerError
  <2> QED
    BY <2>1 DEF IInv, Delivers, System
<1>5. /\ task' \in [Tasks -> Slots]
      /\ \A q \in Tasks : task'[q] = task[q] \/ \E g \in Slots : g = task'[q] /\ Asks(q, g)
  <2>1. CASE w.for = Nobody
    BY <2>1 DEF ReceiveClaims, ReceiveError, IInv, Delivers, TasksTyped
  <2>2. CASE w.for # Nobody
    <3> PICK q : q = w.for
      OBVIOUS
    <3>1. q \in Tasks /\ task[q].pc = "waiting"
      BY <2>2 DEF IInv, Delivers, System, WorkerOK, WorkerTyped, Workers, Requesters, Tasks
    <3>2. /\ Answered(q, w.got) \in Slots /\ Asks(q, Answered(q, w.got))
          /\ Unanswered(q) \in Slots /\ Asks(q, Unanswered(q))
      BY <3>1, AnswerIs
    <3>3. PICK v \in Slots : Asks(q, v) /\ task' = [task EXCEPT ![q] = v]
      BY <2>2, <3>2 DEF ReceiveClaims, ReceiveError
    <3> QED
      BY <3>1, <3>3 DEF IInv, Delivers, TasksTyped
  <2> QED
    BY <2>1, <2>2
<1> QED
  BY ONLY IInv, <1>1, <1>2, <1>3, <1>4, <1>5, RequestMoves

LEMMA CrashWorkerDelivers ==
    ASSUME IInv, CrashWorker
    PROVE  Delivers'
<1>1. /\ w' = Dead /\ UNCHANGED <<claim, marker, daemon, hist, seen, gate, turn>>
      /\ task' = [q \in Tasks |-> IF At(q, "waiting") THEN Unanswered(q) ELSE task[q]]
  BY DEF CrashWorker, store
<1>2. w'.got = {} /\ w'.for = Nobody /\ w'.pc = "dead"
  BY <1>1, WorkerRests
<1>3. SeenOK'
  BY <1>1 DEF IInv, Delivers, TasksTyped, SeenOK
<1>4. ASSUME NEW q \in Tasks
      PROVE  /\ task'[q] \in Slots
             /\ task'[q] = task[q] \/ \E g \in Slots : g = task'[q] /\ Asks(q, g)
  <2>1. CASE task[q].pc = "waiting"
    <3>1. Unanswered(q) \in Slots /\ Asks(q, Unanswered(q))
      <4> PICK none : none = {}
        OBVIOUS
      <4>1. none \subseteq w.got /\ (none = {} \/ q = w.for)
        OBVIOUS
      <4> QED
        BY ONLY IInv, q \in Tasks, <2>1, <4>1, AnswerIs
    <3> QED
      BY <1>1, <2>1, <3>1 DEF At
  <2>2. CASE task[q].pc # "waiting"
    BY <1>1, <2>2 DEF At, IInv, Delivers, TasksTyped
  <2> QED
    BY <2>1, <2>2
<1>5. task' \in [Tasks -> Slots]
  BY <1>1, <1>4
<1> QED
  BY ONLY IInv, <1>1, <1>2, <1>3, <1>4, <1>5, RequestMoves

\* An idle task is fine.
LEMMA IdleIs ==
    ASSUME NEW q \in Tasks, task'[q] = NoTask, turn' # q
    PROVE  TaskOK(q)'
<1> PICK v \in Slots : v = NoTask
  BY NoTaskIs
<1>1. /\ v.pc = "idle" /\ v.todo = {} /\ v.batch = {} /\ ~v.replay
      /\ Held(v) = {} /\ Fresh(v) = {} /\ Cur(v) = {}
  BY NoTaskIs
<1>2. ExecutionOK(q, v)'
  BY <1>1 DEF ExecutionOK, Executing, Recovering
<1>3. HoldingOK(v)' /\ PhaseOK(q, v)'
  BY <1>1 DEF HoldingOK, PhaseOK, Recovering
<1> QED
  BY <1>2, <1>3 DEF TaskOK

LEMMA StopDelivers ==
    ASSUME IInv, Stop, UNCHANGED <<claim, marker, hist, seen, gate>>
    PROVE  Delivers'
<1>1. daemon' = "down" /\ task' = [q \in Tasks |-> NoTask] /\ turn' = Nobody /\ w' = Dead
  BY DEF Stop
<1>2. \A q \in Tasks : q # Nobody
  BY DeliveryAssumption DEF Tasks
<1>3. ASSUME NEW q \in Tasks PROVE TaskOK(q)'
  BY <1>1, <1>2, IdleIs
<1>4. ClaimsKept /\ GatesKept
  BY DEF ClaimsKept, GatesKept
<1>5. JournalOK'
  BY <1>4, JournalStands DEF IInv, Delivers
<1>6. TasksTyped'
  BY <1>1, NoTaskIs DEF TasksTyped, IInv, Delivers
<1>7. w'.got = {} /\ w'.for = Nobody /\ w'.pc = "dead"
  BY <1>1, WorkerRests
<1>8. System'
  <2>1. \A x \in Occurrences : claim'[x] # "claimed" => marker'[x] = {}
    BY DEF IInv, Delivers, System
  <2>2. ASSUME NEW s \in Deferred, gate'[s] = "resumed" PROVE Won(s)'
    <3>1. PICK y \in Occurrences : y[1] = s /\ claim[y] = "claimed"
      BY <2>2 DEF IInv, Delivers, System, Won
    <3>2. \A q \in Tasks : y \notin Way(task'[q])
      BY <1>1, NoTaskIs
    <3> QED
      BY <1>7, <3>1, <3>2 DEF Won
  <2>3. \A q \in Tasks : Held(task'[q]) = {}
    BY <1>1, NoTaskIs
  <2> QED
    BY <1>1, <1>7, <2>1, <2>2, <2>3 DEF System
<1> QED
  BY <1>3, <1>5, <1>6, <1>8 DEF Delivers

\* Only the task of the recovery is awake while the daemon recovers, none while it is down.
LEMMA Asleep ==
    ASSUME IInv, NEW q \in Tasks, daemon = "down" \/ (daemon = "recovering" /\ q # "startup")
    PROVE  /\ task[q].pc = "idle" /\ Held(task[q]) = {} /\ Way(task[q]) = {} /\ turn # q
<1> PICK v \in Slots : v = task[q] /\ ExecutionOK(q, v) /\ HoldingOK(v) /\ PhaseOK(q, v)
  BY TaskIs DEF IInv, Delivers
<1>1. v.pc = "idle"
  BY DEF PhaseOK
<1>2. v.todo = {} /\ v.batch = {} /\ turn # q
  BY <1>1 DEF PhaseOK, ExecutionOK
<1> QED
  BY <1>1, <1>2 DEF Held, Way, Cur, Executing, Recovering

LEMMA IdleStands ==
    ASSUME NEW q \in Tasks, TaskOK(q), task[q].pc = "idle", task'[q] = task[q], turn' # q
    PROVE  TaskOK(q)'
<1> PICK v \in Slots : v = task[q] /\ PhaseOK(q, v)
  BY TaskIs
<1>1. v.pc = "idle" /\ v.todo = {} /\ v.batch = {} /\ Held(v) = {} /\ Fresh(v) = {} /\ Cur(v) = {}
  BY DEF PhaseOK, Held, Fresh, Cur, Executing, Recovering
<1>2. ExecutionOK(q, v)'
  BY <1>1 DEF ExecutionOK, Executing, Recovering
<1>3. HoldingOK(v)' /\ PhaseOK(q, v)'
  BY <1>1 DEF HoldingOK, PhaseOK, Recovering
<1> QED
  BY <1>2, <1>3 DEF TaskOK

LEMMA StartDaemonDelivers ==
    ASSUME IInv, StartDaemon
    PROVE  Delivers'
<1> PICK v : v = [NoTask EXCEPT !.pc = "list", !.replay = TRUE]
  OBVIOUS
<1>1. /\ daemon = "down" /\ daemon' = "recovering" /\ w' = Ready
      /\ task' = [task EXCEPT !["startup"] = v]
      /\ UNCHANGED <<claim, marker, hist, seen, gate, turn>>
  BY DEF StartDaemon, StartWorker
<1>2. v \in Slots /\ v.pc = "list" /\ v.todo = {} /\ v.batch = {} /\ v.replay
  <2> PICK u \in Slots : u = NoTask /\ u.todo = {} /\ u.batch = {}
    BY NoTaskIs
  <2>1. v = [u EXCEPT !.pc = "list", !.replay = TRUE]
    OBVIOUS
  <2> QED
    BY ONLY u \in Slots, u.todo = {}, u.batch = {}, <2>1 DEF Slots
<1>3. Held(v) = {} /\ Fresh(v) = {} /\ Cur(v) = {}
  BY <1>2 DEF Held, Fresh, Cur, Executing, Recovering
<1>4. "startup" \in Tasks
  BY DEF Tasks
<1>5. /\ task' \in [Tasks -> Slots] /\ task'["startup"] = v
      /\ \A q \in Tasks : q # "startup" => task'[q] = task[q]
  BY <1>1, <1>2, <1>4 DEF IInv, Delivers, TasksTyped
<1>6. \A q \in Tasks : task[q].pc = "idle" /\ Held(task[q]) = {} /\ turn # q
  BY <1>1, Asleep
<1>7. TaskOK("startup")'
  <2>1. ExecutionOK("startup", v)'
    BY <1>1, <1>2, <1>4, <1>6 DEF ExecutionOK, Executing, Recovering
  <2>2. HoldingOK(v)' /\ PhaseOK("startup", v)'
    BY <1>1, <1>2, <1>3 DEF HoldingOK, PhaseOK, Recovering
  <2> QED
    BY <1>2, <1>5, <2>1, <2>2 DEF TaskOK
<1>8. ASSUME NEW q \in Tasks PROVE TaskOK(q)'
  BY <1>1, <1>5, <1>6, <1>7, IdleStands DEF IInv, Delivers
<1>9. ClaimsKept /\ GatesKept
  BY <1>1 DEF ClaimsKept, GatesKept
<1>10. JournalOK'
  BY <1>1, <1>9, JournalStands DEF IInv, Delivers
<1>11. TasksTyped'
  BY <1>1, <1>5 DEF TasksTyped, IInv, Delivers
<1>12. w'.got = {} /\ w'.for = Nobody /\ w'.pc = "ready"
  BY <1>1, WorkerRests
<1>13. System'
  <2>1. \A x \in Occurrences : claim'[x] # "claimed" => marker'[x] = {}
    BY <1>1 DEF IInv, Delivers, System
  <2>2. ASSUME NEW s \in Deferred, gate'[s] = "resumed" PROVE Won(s)'
    <3>1. PICK y \in Occurrences :
             /\ y[1] = s /\ claim[y] = "claimed"
             /\ \A q \in Tasks : ~task[q].replay => y \notin Way(task[q])
      BY <1>1, <2>2 DEF IInv, Delivers, System, Won
    <3>2. \A q \in Tasks : ~task'[q].replay => y \notin Way(task'[q])
      BY <1>2, <1>5, <3>1
    <3> QED
      BY <1>1, <1>12, <3>1, <3>2 DEF Won
  <2>3. \A q \in Tasks : Held(task'[q]) = {}
    BY <1>3, <1>5, <1>6
  <2> QED
    BY <1>1, <1>2, <1>5, <1>12, <2>1, <2>2, <2>3 DEF System
<1> QED
  BY <1>8, <1>10, <1>11, <1>13 DEF Delivers

LEMMA Recovers ==
    ASSUME IInv, task["startup"].pc # "idle"
    PROVE  daemon = "recovering" /\ task["startup"].replay
<1> PICK u \in Slots : u = task["startup"] /\ PhaseOK("startup", u)
  BY TaskIs DEF IInv, Delivers, Tasks
<1> QED
  BY DEF PhaseOK

LEMMA ListPendingDelivers ==
    ASSUME IInv, ListPending
    PROVE  Delivers'
<1>1. PICK q \in PendingLists : task' = [task EXCEPT !["startup"].pc = "sort", !["startup"].todo = q]
  BY DEF ListPending
<1>2. task["startup"].pc = "list" /\ w.pc = "ready" /\ UNCHANGED <<claim, marker, w, daemon, hist, seen, gate, turn>>
  BY DEF ListPending, At, workerVars, store
<1>3. q \subseteq Occurrences /\ \A x \in q : claim[x] = "claimed" /\ marker[x] = {}
  BY <1>1 DEF PendingLists, Nonterminal
<1>4. "startup" \in Tasks
  BY DEF Tasks
<1> PICK u \in Slots : /\ u = task["startup"] /\ ExecutionOK("startup", u) /\ HoldingOK(u)
                       /\ PhaseOK("startup", u)
  BY <1>4, TaskIs DEF IInv, Delivers
<1> PICK v : v = [u EXCEPT !.pc = "sort", !.todo = q]
  OBVIOUS
<1>5. v \in Slots /\ v.pc = "sort" /\ v.todo = q /\ v.batch = u.batch /\ v.replay = u.replay
  BY ONLY u \in Slots, v = [u EXCEPT !.pc = "sort", !.todo = q], <1>3 DEF Slots
<1>6. u.batch = {} /\ u.replay /\ turn # "startup" /\ daemon = "recovering"
  BY <1>2 DEF PhaseOK, ExecutionOK
<1>7. Held(v) = q /\ Fresh(v) = {} /\ Cur(v) = {}
  BY <1>5, <1>6 DEF Held, Fresh, Cur, Executing, Recovering
<1>8. /\ task' \in [Tasks -> Slots] /\ task'["startup"] = v
      /\ \A t \in Tasks : t # "startup" => task'[t] = task[t]
  <2>1. task' = [task EXCEPT !["startup"] = v]
    BY <1>1, <1>4 DEF IInv, Delivers, TasksTyped
  <2> QED
    BY <1>4, <1>5, <2>1 DEF IInv, Delivers, TasksTyped
<1>9. \A t \in Tasks : t # "startup" => task[t].pc = "idle" /\ Held(task[t]) = {} /\ turn # t
  BY <1>6, Asleep
<1>10. w.got = {}
  <2> PICK g \in Workers : g = w /\ Serves(g)
    BY Request DEF IInv
  <2> QED
    BY <1>2 DEF Serves
<1>11. TaskOK("startup")'
  <2>1. ExecutionOK("startup", v)'
    BY <1>2, <1>5, <1>6 DEF ExecutionOK, Executing, Recovering
  <2>2. HoldingOK(v)'
    BY <1>2, <1>3, <1>5, <1>6, <1>7, <1>10 DEF HoldingOK
  <2>3. PhaseOK("startup", v)'
    BY <1>2, <1>5, <1>6 DEF PhaseOK, Recovering
  <2> QED
    BY <1>5, <1>8, <2>1, <2>2, <2>3 DEF TaskOK
<1>12. ASSUME NEW t \in Tasks PROVE TaskOK(t)'
  BY <1>2, <1>8, <1>9, <1>11, IdleStands DEF IInv, Delivers
<1>13. ClaimsKept /\ GatesKept
  BY <1>2 DEF ClaimsKept, GatesKept
<1>14. JournalOK'
  BY <1>2, <1>13, JournalStands DEF IInv, Delivers
<1>15. TasksTyped'
  BY <1>2, <1>8 DEF TasksTyped, IInv, Delivers
<1>16. System'
  <2>1. ASSUME NEW s \in Deferred, gate'[s] = "resumed" PROVE Won(s)'
    <3>1. PICK y \in Occurrences :
             /\ y[1] = s /\ claim[y] = "claimed"
             /\ \A t \in Tasks : ~task[t].replay => y \notin Way(task[t])
      BY <1>2, <2>1 DEF IInv, Delivers, System, Won
    <3>2. \A t \in Tasks : ~task'[t].replay => y \notin Way(task'[t])
      BY <1>5, <1>6, <1>8, <3>1
    <3> QED
      BY <1>2, <1>10, <3>1, <3>2 DEF Won
  <2>2. \A t1, t2 \in Tasks : t1 # t2 => Held(task'[t1]) \cap Held(task'[t2]) = {}
    BY <1>8, <1>9
  <2>3. w'.for # Nobody => task'[w'.for].pc = "waiting"
    <3>1. w.for \in Requesters \cup {Nobody}
      BY DEF IInv, WorkerOK, WorkerTyped, Workers
    <3> QED
      BY <1>2, <1>8, <3>1 DEF IInv, Delivers, System, Requesters, Tasks
  <2> QED
    BY <1>2, <1>5, <1>8, <1>10, <2>1, <2>2, <2>3 DEF System, IInv, Delivers
<1> QED
  BY <1>12, <1>14, <1>15, <1>16 DEF Delivers

\* The recovery is over and the daemon serves.
LEMMA RecoveryDoneDelivers ==
    ASSUME IInv, BatchDone("startup")
    PROVE  Delivers'
<1>1. /\ task["startup"].pc \in {"next", "collected"} /\ task' = [task EXCEPT !["startup"] = NoTask]
      /\ daemon' = "serving" /\ UNCHANGED <<claim, marker, w, hist, seen, gate, turn>>
  BY DEF BatchDone, At, workerVars, store
<1>2. "startup" \in Tasks
  BY DEF Tasks
<1>3. daemon = "recovering"
  BY <1>1, Recovers
<1>4. turn # "startup"
  BY <1>1, <1>2 DEF IInv, Delivers, TaskOK, ExecutionOK
<1>5. /\ task' \in [Tasks -> Slots] /\ task'["startup"] = NoTask
      /\ \A t \in Tasks : t # "startup" => task'[t] = task[t]
  BY <1>1, <1>2, NoTaskIs DEF IInv, Delivers, TasksTyped
<1>6. \A t \in Tasks : t # "startup" => task[t].pc = "idle" /\ Held(task[t]) = {} /\ turn # t
  BY <1>3, Asleep
<1>7. ASSUME NEW t \in Tasks PROVE TaskOK(t)'
  BY <1>1, <1>4, <1>5, <1>6, IdleIs, IdleStands DEF IInv, Delivers
<1>8. ClaimsKept /\ GatesKept
  BY <1>1 DEF ClaimsKept, GatesKept
<1>9. JournalOK'
  BY <1>1, <1>8, JournalStands DEF IInv, Delivers
<1>10. TasksTyped'
  BY <1>1, <1>5 DEF TasksTyped, IInv, Delivers
<1>11. System'
  <2>1. ASSUME NEW s \in Deferred, gate'[s] = "resumed" PROVE Won(s)'
    <3>1. PICK y \in Occurrences :
             /\ y[1] = s /\ claim[y] = "claimed" /\ y \notin w.got
             /\ \A t \in Tasks : ~task[t].replay => y \notin Way(task[t])
      BY <1>1, <2>1 DEF IInv, Delivers, System, Won
    <3>2. \A t \in Tasks : ~task'[t].replay => y \notin Way(task'[t])
      BY <1>5, <3>1, NoTaskIs
    <3> QED
      BY <1>1, <3>1, <3>2 DEF Won
  <2>2. \A t \in Tasks : Held(task'[t]) = {}
    BY <1>5, <1>6, NoTaskIs
  <2>3. w'.for # Nobody => task'[w'.for].pc = "waiting"
    <3>1. w.for \in Requesters \cup {Nobody}
      BY DEF IInv, WorkerOK, WorkerTyped, Workers
    <3> QED
      BY <1>1, <1>5, <3>1 DEF IInv, Delivers, System, Requesters, Tasks
  <2>4. \A x \in w'.got : ~Named(x)' /\ marker'[x] = {}
    BY <1>1, SameHistory DEF IInv, Delivers, System
  <2>5. \A x \in Occurrences : claim'[x] # "claimed" => marker'[x] = {}
    BY <1>1 DEF IInv, Delivers, System
  <2> QED
    BY <1>1, <2>1, <2>2, <2>3, <2>4, <2>5 DEF System
<1> QED
  BY <1>7, <1>9, <1>10, <1>11 DEF Delivers

\* An event of a turn names no occurrence.
LEMMA TurnEventIs ==
    ASSUME NEW kind \in {"responded", "asked", "failed"}
    PROVE  /\ Event(kind, <<>>, "none") \in Events /\ Event(kind, <<>>, "none").kind = kind
           /\ Event(kind, <<>>, "none").x = <<>>
BY DEF Event, Events, Kinds

LEMMA TurnEventSpares ==
    ASSUME JournalOK, UNCHANGED <<claim, marker, gate>>, NEW kind \in {"responded", "asked", "failed"},
           hist' = Append(hist, Event(kind, <<>>, "none")), Len(hist) < MaxHistory
    PROVE  /\ JournalOK' /\ Grown /\ NoneFired
           /\ Len(hist) \in Nat /\ Len(hist') = Len(hist) + 1 /\ hist'[Len(hist) + 1].kind = kind
           /\ \A x \in Occurrences : /\ ReconciledAt(x)' = ReconciledAt(x) /\ (Named(x)' => Named(x))
                                     /\ FiredAt(x)' = FiredAt(x)
<1> PICK e \in Events : e = Event(kind, <<>>, "none") /\ e.kind = kind /\ e.x = <<>>
  BY TurnEventIs
<1>1. hist' = Append(hist, e) /\ e.kind \notin {"fired", "triggered", "reconciled"}
  OBVIOUS
<1>2. JournalOK'
  BY <1>1, EventKeeps
<1>3. HistoryTyped
  BY DEF JournalOK
<1>4. /\ Grown
      /\ Len(hist) \in Nat /\ Len(hist') = Len(hist) + 1 /\ hist'[Len(hist) + 1] = e
      /\ \A x : /\ FiredAt(x)' = FiredAt(x) /\ ReconciledAt(x)' = ReconciledAt(x) /\ (Named(x)' => Named(x))
  <2>1. /\ e.kind \in {"fired", "triggered", "reconciled"} => e.x \in Occurrences
        /\ e.kind = "reconciled" => e.outcome \in Verdicts
    BY <1>1
  <2>2. /\ Grown /\ Len(hist) \in Nat /\ Len(hist') = Len(hist) + 1 /\ hist'[Len(hist) + 1] = e
        /\ \A x : /\ FiredAt(x)' = FiredAt(x) \cup (IF e.kind = "fired" /\ e.x = x THEN {Len(hist) + 1} ELSE {})
                  /\ ReconciledAt(x)' = ReconciledAt(x)
                        \cup (IF e.kind = "reconciled" /\ e.x = x THEN {Len(hist) + 1} ELSE {})
                  /\ Named(x)' => Named(x) \/ (e.kind \in {"fired", "triggered", "reconciled"} /\ e.x = x)
    BY ONLY <1>1, <1>3, <2>1, Len(hist) < MaxHistory, e \in Events, Appended
  <2> QED
    BY ONLY <1>1, <2>2
<1>5. NoneFired
  BY <1>1, <1>4 DEF NoneFired
<1> QED
  BY <1>2, <1>4, <1>5

LEMMA UserTurnDelivers ==
    ASSUME IInv, NEW kind \in UserOutcomes, UserTurn(kind)
    PROVE  Delivers'
<1>1. kind \in {"responded", "asked", "failed"}
  BY DeliveryAssumption
<1>2. /\ daemon = "serving" /\ turn = Nobody /\ Len(hist) < MaxHistory
      /\ hist' = Append(hist, Event(kind, <<>>, "none"))
      /\ UNCHANGED <<claim, marker, w, daemon, seen, gate, turn, task>>
  BY DEF UserTurn, workerVars, store
<1>3. /\ JournalOK' /\ Grown /\ NoneFired
      /\ \A x \in Occurrences : ReconciledAt(x)' = ReconciledAt(x) /\ (Named(x)' => Named(x))
  BY <1>1, <1>2, TurnEventSpares DEF IInv, Delivers
<1>4. ClaimsKept /\ GatesKept
  BY <1>2 DEF ClaimsKept, GatesKept
<1>5. ASSUME NEW q \in Tasks PROVE TaskOK(q)'
  <2> PICK v \in Slots : v = task[q] /\ ExecutionOK(q, v) /\ HoldingOK(v) /\ PhaseOK(q, v)
    BY TaskIs DEF IInv, Delivers
  <2>1. Held(v) \subseteq Occurrences
    BY DEF Held, Cur, Slots
  <2>2. \A x \in Held(v) : Untouched(x)
    BY <1>2, <1>3, <2>1 DEF Untouched, HoldingOK
  <2>3. v.pc \notin Recovering
    BY <1>2 DEF PhaseOK, Recovering
  <2> QED
    BY <1>2, <1>3, <1>4, <2>2, <2>3, OtherTask DEF IInv, Delivers
<1>6. TasksTyped'
  BY <1>2 DEF TasksTyped, IInv, Delivers
<1>7. System'
  <2>1. \A x \in w'.got : ~Named(x)' /\ marker'[x] = {}
    BY <1>2, <1>3 DEF IInv, Delivers, System, WorkerOK, WorkerTyped, Workers
  <2>2. \A s \in Deferred : gate'[s] = "resumed" => Won(s)'
    BY <1>2 DEF IInv, Delivers, System, Won
  <2> QED
    BY <1>2, <2>1, <2>2 DEF System, IInv, Delivers
<1> QED
  BY <1>3, <1>5, <1>6, <1>7 DEF Delivers

-----------------------------------------------------------------------------
(***************************************************************************)
(* Steps of a task that commit nothing                                     *)
(***************************************************************************)
LEMMA QuietMoves ==
    ASSUME IInv, NEW t \in Tasks, UNCHANGED <<claim, marker, w, daemon, hist, seen, gate, turn>>,
           task[t].pc \notin {"idle", "waiting"},
           NEW v \in Slots, task' = [task EXCEPT ![t] = v], v.pc # "idle" \/ t # "startup",
           Held(v) \subseteq Held(task[t]), v.replay = task[t].replay, v.replay \/ Way(v) \subseteq Way(task[t]),
           v.todo \cap v.batch = {}, Cur(v) \cap (v.todo \cup v.batch) = {},
           \A x \in Fresh(v) : ~Named(x),
           ExecutionOK(t, v), PhaseOK(t, v)
    PROVE  Delivers'
<1> PICK u \in Slots : u = task[t] /\ ExecutionOK(t, u) /\ HoldingOK(u) /\ PhaseOK(t, u)
  BY TaskIs DEF IInv, Delivers
<1>1. ClaimsKept /\ GatesKept
  BY DEF ClaimsKept, GatesKept
<1>2. JournalOK' /\ Grown
  BY <1>1, JournalStands DEF IInv, Delivers
<1>3. \A x : /\ Named(x)' = Named(x) /\ ReconciledAt(x)' = ReconciledAt(x) /\ FiredAt(x)' = FiredAt(x)
             /\ Classify(x)' = Classify(x) /\ ReconciledIn(x)' = ReconciledIn(x)
  BY SameHistory
<1>4. Spares(t)
  <2>1. NoneFired
    BY DEF NoneFired
  <2> QED
    BY <1>1, <1>2, <1>3, <2>1 DEF Spares
<1>5. \A x \in Held(v) : marker'[x] = {}
  BY DEF HoldingOK
<1>6. ExecutionOK(t, v)'
  <2>1. v.pc \in Executing \cup Recovering => (Evidence(v.cur) => Evidence(v.cur)')
    BY <1>1, <1>2, GrownEvidence DEF ExecutionOK
  <2>2. v.pc \in {"complete", "reconcile", "close"} /\ v.ok => Evidence(v.cur)'
    BY <2>1 DEF ExecutionOK, Executing, Recovering
  <2>3. AlreadyReconciled(v.cur)' = AlreadyReconciled(v.cur)
    BY <1>3 DEF AlreadyReconciled
  <2> QED
    BY <1>3, <2>2, <2>3 DEF ExecutionOK
<1>7. PhaseOK(t, v)'
  BY DEF PhaseOK
<1>8. \A x \in Fresh(v) : ~Named(x)'
  BY <1>3
<1>9. /\ turn' \in Tasks \cup {Nobody} /\ gate' \in [Deferred -> {"pending", "resumed"}]
      /\ \A s \in Deferred : gate'[s] = "resumed" /\ gate[s] # "resumed" => Won(s)'
  BY DEF IInv, Delivers, TasksTyped
<1> QED
  BY <1>2, <1>4, <1>5, <1>6, <1>7, <1>8, <1>9, TaskMoves

LEMMA OneTask ==
    ASSUME TasksTyped, NEW t \in Tasks, NEW v,
           \/ task' = [task EXCEPT ![t] = v]
           \/ task' = [task EXCEPT ![t].pc = v.pc] /\ v = [task[t] EXCEPT !.pc = v.pc]
           \/ task' = [task EXCEPT ![t].pc = v.pc, ![t].ok = v.ok] /\ v = [task[t] EXCEPT !.pc = v.pc, !.ok = v.ok]
    PROVE  task' = [task EXCEPT ![t] = v]
BY DEF TasksTyped

LEMMA SortDoneDelivers ==
    ASSUME IInv, SortDone
    PROVE  Delivers'
<1>1. /\ task["startup"].pc = "sort" /\ task["startup"].todo = {}
      /\ task' = [task EXCEPT !["startup"].pc = "next"]
      /\ UNCHANGED <<claim, marker, w, daemon, hist, seen, gate, turn>>
  BY DEF SortDone, At, Goto, workerVars, store
<1>2. "startup" \in Tasks
  BY DEF Tasks
<1> PICK u \in Slots : /\ u = task["startup"] /\ ExecutionOK("startup", u) /\ HoldingOK(u)
                       /\ PhaseOK("startup", u)
  BY <1>2, TaskIs DEF IInv, Delivers
<1> PICK v : v = [u EXCEPT !.pc = "next"]
  OBVIOUS
<1>3. v \in Slots /\ v.pc = "next" /\ v.todo = u.todo /\ v.batch = u.batch /\ v.replay = u.replay
  BY ONLY u \in Slots, v = [u EXCEPT !.pc = "next"] DEF Slots
<1>4. task' = [task EXCEPT !["startup"] = v]
  BY <1>1, <1>2, <1>3, OneTask DEF IInv, Delivers
<1>5. Held(v) \subseteq Held(u) /\ Cur(v) = {} /\ Fresh(v) \subseteq Fresh(u) /\ Way(v) \subseteq Way(u)
  BY <1>3 DEF Held, Cur, Fresh, Way, Executing, Recovering
<1>6. ExecutionOK("startup", v)
  BY <1>1, <1>3 DEF ExecutionOK, Executing, Recovering
<1>7. PhaseOK("startup", v)
  BY <1>1, <1>3 DEF PhaseOK, Recovering
<1>8. v.todo \cap v.batch = {} /\ Cur(v) \cap (v.todo \cup v.batch) = {} /\ \A x \in Fresh(v) : ~Named(x)
  BY <1>3, <1>5 DEF HoldingOK
<1> QED
  BY <1>1, <1>2, <1>3, <1>4, <1>5, <1>6, <1>7, <1>8, QuietMoves

LEMMA NextExecutionDelivers ==
    ASSUME IInv, NEW t \in Tasks, NEW x \in Occurrences, NextExecution(t, x)
    PROVE  Delivers'
<1>1. /\ task[t].pc \in {"next", "collected"} /\ x \in task[t].batch
      /\ task' = [task EXCEPT ![t].pc = FirstStep(x), ![t].cur = x, ![t].batch = @ \ {x}]
      /\ UNCHANGED <<claim, marker, w, daemon, hist, seen, gate, turn>>
  BY DEF NextExecution, At, workerVars, store
<1> PICK u \in Slots : u = task[t] /\ ExecutionOK(t, u) /\ HoldingOK(u) /\ PhaseOK(t, u)
  BY TaskIs DEF IInv, Delivers
<1> PICK p : p = FirstStep(x)
  OBVIOUS
<1>2. /\ p \in {"wake", "trigger", "fire"} /\ (p = "wake" => x[1] \in Deferred)
      /\ (p = "trigger" => x[1] \in Triggers) /\ (p \in {"wake", "fire"} => x[1] \notin Triggers)
  BY DeliveryAssumption DEF FirstStep
<1> PICK b : b = u.batch \ {x}
  OBVIOUS
<1> PICK v : v = [u EXCEPT !.pc = p, !.cur = x, !.batch = b]
  OBVIOUS
<1>3. b \subseteq Occurrences
  BY DEF Slots
<1>4. v \in Slots /\ v.pc = p /\ v.cur = x /\ v.todo = u.todo /\ v.batch = b /\ v.replay = u.replay
  BY ONLY u \in Slots, v = [u EXCEPT !.pc = p, !.cur = x, !.batch = b], <1>2, <1>3, x \in Occurrences
     DEF Slots, Executing
<1>5. task' = [task EXCEPT ![t] = v]
  BY ONLY IInv, t \in Tasks, u = task[t], p = FirstStep(x), b = u.batch \ {x}, <1>1,
          v = [u EXCEPT !.pc = p, !.cur = x, !.batch = b]
     DEF IInv, Delivers, TasksTyped
<1>6. u.todo = {} /\ (t = "startup" <=> daemon = "recovering") /\ daemon # "down"
  BY <1>1 DEF PhaseOK, Recovering
<1>7. Cur(v) = {x} /\ Held(v) = u.batch /\ Fresh(v) = u.batch /\ Way(v) \subseteq u.batch
  BY <1>1, <1>2, <1>4, <1>6 DEF Held, Cur, Fresh, Way, Executing, Recovering
<1>8. u.batch \subseteq Held(u) /\ u.batch \subseteq Fresh(u) /\ u.batch \subseteq Way(u)
  BY DEF Held, Fresh, Way
<1>9. \A y \in Fresh(v) : ~Named(y)
  BY <1>7, <1>8 DEF HoldingOK
<1>10. ExecutionOK(t, v)
  <2>1. ReconciledAt(x) = {}
    BY <1>1, <1>7, <1>9 DEF Named, ReconciledAt
  <2>2. turn # t
    BY <1>1 DEF ExecutionOK
  <2> QED
    BY <1>2, <1>4, <2>1, <2>2 DEF ExecutionOK, Executing, Recovering
<1>11. PhaseOK(t, v)
  BY <1>1, <1>2, <1>4, <1>6 DEF PhaseOK, Recovering
<1>12. v.todo \cap v.batch = {} /\ Cur(v) \cap (v.todo \cup v.batch) = {}
  BY <1>4, <1>6, <1>7
<1>13. v.pc # "idle" /\ Held(v) \subseteq Held(u) /\ Way(v) \subseteq Way(u)
  BY <1>2, <1>4, <1>7, <1>8
<1> QED
  BY ONLY IInv, u = task[t], t \in Tasks, <1>1, <1>4, <1>5, <1>9, <1>10, <1>11, <1>12, <1>13, QuietMoves

LEMMA BatchDoneDelivers ==
    ASSUME IInv, NEW t \in Tasks, BatchDone(t)
    PROVE  Delivers'
<1>1. CASE t = "startup"
  BY <1>1, RecoveryDoneDelivers
<1>2. CASE t # "startup"
  <2>1. /\ task[t].pc \in {"next", "collected"} /\ task' = [task EXCEPT ![t] = NoTask]
        /\ UNCHANGED <<claim, marker, w, daemon, hist, seen, gate, turn>>
    BY <1>2 DEF BatchDone, At, workerVars, store
  <2> PICK u \in Slots : u = task[t] /\ ExecutionOK(t, u) /\ HoldingOK(u) /\ PhaseOK(t, u)
    BY TaskIs DEF IInv, Delivers
  <2> PICK v \in Slots :
         /\ v = NoTask /\ v.pc = "idle" /\ v.todo = {} /\ v.batch = {} /\ ~v.replay
         /\ Held(v) = {} /\ Fresh(v) = {} /\ Way(v) = {} /\ Cur(v) = {}
    BY NoTaskIs
  <2>2. ~u.replay
    BY <1>2 DEF PhaseOK
  <2>3. v.replay = u.replay
    BY <2>2 DEF Slots
  <2>4. ExecutionOK(t, v)
    BY <2>1 DEF ExecutionOK, Executing, Recovering
  <2>5. PhaseOK(t, v)
    BY DEF PhaseOK, Recovering
  <2> QED
    BY <1>2, <2>1, <2>3, <2>4, <2>5, QuietMoves
<1> QED
  BY <1>1, <1>2

\* An execution is over and its marker is to be written.
LEMMA OverMoves ==
    ASSUME IInv, NEW t \in Tasks, task[t].pc \in {"wake", "fire", "trigger", "turn"}, NEW ok \in BOOLEAN,
           ok => Evidence(task[t].cur),
           task' = [task EXCEPT ![t] = [task[t] EXCEPT !.pc = "complete", !.ok = ok]],
           UNCHANGED <<claim, marker, w, daemon, hist, seen, gate>>,
           turn' = IF task[t].pc = "turn" THEN Nobody ELSE turn
    PROVE  Delivers'
<1> PICK u \in Slots : u = task[t] /\ ExecutionOK(t, u) /\ HoldingOK(u) /\ PhaseOK(t, u)
  BY TaskIs DEF IInv, Delivers
<1> PICK v : v = [u EXCEPT !.pc = "complete", !.ok = ok]
  OBVIOUS
<1>1. /\ v \in Slots /\ v.pc = "complete" /\ v.cur = u.cur /\ v.ok = ok /\ v.todo = u.todo /\ v.batch = u.batch
      /\ v.replay = u.replay
  BY ONLY u \in Slots, ok \in BOOLEAN, v = [u EXCEPT !.pc = "complete", !.ok = ok] DEF Slots, Executing
<1>2. task' = [task EXCEPT ![t] = v]
  OBVIOUS
<1>3. ClaimsKept /\ GatesKept
  BY DEF ClaimsKept, GatesKept
<1>4. JournalOK' /\ Grown
  BY <1>3, JournalStands DEF IInv, Delivers
<1>5. \A x : Named(x)' = Named(x) /\ ReconciledAt(x)' = ReconciledAt(x)
  BY SameHistory
<1>6. \A q \in Tasks : q # Nobody
  BY DeliveryAssumption DEF Tasks
<1>7. u.pc = "turn" <=> turn = t
  BY DEF ExecutionOK
<1>8. turn' # t /\ turn' \in Tasks \cup {Nobody} /\ \A q \in Tasks \ {t} : turn' = q <=> turn = q
  BY <1>6, <1>7 DEF IInv, Delivers, TasksTyped
<1>9. Spares(t)
  <2>1. NoneFired
    BY DEF NoneFired
  <2> QED
    BY <1>3, <1>4, <1>5, <1>8, <2>1 DEF Spares
<1>10. Held(v) = Held(u) /\ Cur(v) = Cur(u) /\ Fresh(v) \subseteq Fresh(u) /\ Way(v) \subseteq Way(u)
  BY <1>1 DEF Held, Cur, Fresh, Way, Executing
<1>11. v.cur \in Occurrences /\ ReconciledAt(v.cur)' = {}
  BY <1>1, <1>5 DEF ExecutionOK, Executing
<1>12. v.ok => Evidence(v.cur)'
  BY <1>1, <1>3, <1>4, <1>11, GrownEvidence
<1>13. ExecutionOK(t, v)'
  BY <1>1, <1>8, <1>11, <1>12 DEF ExecutionOK, Executing, Recovering
<1>14. PhaseOK(t, v)'
  BY <1>1 DEF PhaseOK, Recovering
<1>15. /\ v.todo \cap v.batch = {} /\ Cur(v) \cap (v.todo \cup v.batch) = {}
       /\ \A x \in Held(v) : marker'[x] = {}
       /\ \A x \in Fresh(v) : ~Named(x)'
  BY <1>1, <1>5, <1>10 DEF HoldingOK
<1>16. /\ gate' \in [Deferred -> {"pending", "resumed"}]
       /\ \A s \in Deferred : gate'[s] = "resumed" /\ gate[s] # "resumed" => Won(s)'
  BY DEF IInv, Delivers, TasksTyped
<1>17. u.pc \notin {"idle", "waiting"} /\ v.pc # "idle" /\ Held(v) \subseteq Held(u) /\ seen' = seen
  BY <1>1, <1>10
<1> QED
  BY ONLY IInv, u = task[t], t \in Tasks, <1>1, <1>2, <1>4, <1>8, <1>9, <1>10, <1>13, <1>14, <1>15, <1>16, <1>17, TaskMoves

LEMMA OverIs ==
    ASSUME IInv, NEW t \in Tasks, NEW ok, Over(t, ok)
    PROVE  task' = [task EXCEPT ![t] = [task[t] EXCEPT !.pc = "complete", !.ok = ok]]
BY DEF Over, IInv, Delivers, TasksTyped

LEMMA RefuseTurnDelivers ==
    ASSUME IInv, NEW t \in Tasks, RefuseTurn(t)
    PROVE  Delivers'
<1>1. /\ task[t].pc = "fire" /\ Over(t, FALSE) /\ UNCHANGED <<claim, marker, w, daemon, hist, seen, gate, turn>>
  BY DEF RefuseTurn, At, workerVars, store
<1>2. task' = [task EXCEPT ![t] = [task[t] EXCEPT !.pc = "complete", !.ok = FALSE]]
  BY <1>1, OverIs
<1> PICK no \in BOOLEAN : no = FALSE
  OBVIOUS
<1> QED
  BY <1>1, <1>2, OverMoves

LEMMA WakeDeferredDelivers ==
    ASSUME IInv, NEW t \in Tasks, WakeDeferred(t)
    PROVE  Delivers'
<1>1. task[t].pc = "wake" /\ UNCHANGED <<claim, marker, w, daemon, hist, seen, turn>>
  BY DEF WakeDeferred, At, workerVars, store
<1> PICK u \in Slots : u = task[t] /\ ExecutionOK(t, u) /\ HoldingOK(u) /\ PhaseOK(t, u)
  BY TaskIs DEF IInv, Delivers
<1> PICK x \in Occurrences : x = u.cur
  BY <1>1 DEF ExecutionOK, Executing
<1>2. x[1] \in Deferred /\ x[1] \notin Triggers /\ ReconciledAt(x) = {} /\ turn # t
  BY <1>1 DEF ExecutionOK, Executing
<1>3. x \in Held(u) /\ x \in Way(u) /\ x \notin u.batch
  BY <1>1 DEF Held, Cur, Way, Executing, HoldingOK
<1> PICK v : v = [u EXCEPT !.pc = "fire"]
  OBVIOUS
<1>4. /\ v \in Slots /\ v.pc = "fire" /\ v.cur = x /\ v.ok = u.ok /\ v.todo = u.todo /\ v.batch = u.batch
      /\ v.replay = u.replay
  BY ONLY u \in Slots, x = u.cur, v = [u EXCEPT !.pc = "fire"] DEF Slots, Executing
<1>5. /\ Held(v) = Held(u) /\ Cur(v) = Cur(u) /\ Fresh(v) = Fresh(u) /\ Way(v) = u.batch
      /\ Way(v) \subseteq Way(u)
  BY <1>1, <1>4 DEF Held, Cur, Fresh, Way, Executing
<1>6. PhaseOK(t, v)
  BY <1>1, <1>4 DEF PhaseOK, Recovering
<1>7. /\ v.todo \cap v.batch = {} /\ Cur(v) \cap (v.todo \cup v.batch) = {}
      /\ \A y \in Held(v) : marker[y] = {}
      /\ \A y \in Fresh(v) : ~Named(y)
  BY <1>4, <1>5 DEF HoldingOK
<1>8. ASSUME Goto(t, "fire") PROVE task' = [task EXCEPT ![t] = v]
  BY <1>4, <1>8, OneTask DEF Goto, IInv, Delivers
<1>9. CASE gate[x[1]] = "pending" /\ gate' = [gate EXCEPT ![x[1]] = "resumed"] /\ Goto(t, "fire")
  <2>1. task' = [task EXCEPT ![t] = v]
    BY <1>8, <1>9
  <2>2. /\ gate' \in [Deferred -> {"pending", "resumed"}] /\ gate'[x[1]] = "resumed"
        /\ \A s \in Deferred : s # x[1] => gate'[s] = gate[s]
    BY <1>2, <1>9 DEF IInv, Delivers, TasksTyped
  <2>3. ClaimsKept /\ GatesKept
    BY <1>1, <2>2 DEF ClaimsKept, GatesKept
  <2>4. JournalOK' /\ Grown
    BY <1>1, <2>3, JournalStands DEF IInv, Delivers
  <2>5. \A y : Named(y)' = Named(y) /\ ReconciledAt(y)' = ReconciledAt(y)
    BY <1>1, SameHistory
  <2>6. Spares(t)
    <3>1. NoneFired
      BY <1>1 DEF NoneFired
    <3> QED
      BY <1>1, <2>3, <2>4, <2>5, <3>1 DEF Spares
  <2>7. Won(x[1])'
    <3>1. claim'[x] = "claimed" /\ x \notin w'.got
      BY <1>1, <1>3 DEF HoldingOK
    <3>2. ASSUME NEW q \in Tasks PROVE x \notin Way(task'[q])
      <4>1. CASE q = t
        <5>1. task'[q] = v
          BY <2>1, <4>1 DEF IInv, Delivers, TasksTyped
        <5> QED
          BY <1>3, <1>5, <5>1
      <4>2. CASE q # t
        <5>1. task'[q] = task[q] /\ Held(task[q]) \cap Held(u) = {}
          BY <2>1, <4>2 DEF IInv, Delivers, TasksTyped, System
        <5>2. Way(task[q]) \subseteq Held(task[q])
          BY DEF Way, Held, Cur, Executing
        <5> QED
          BY <1>3, <5>1, <5>2
      <4> QED
        BY <4>1, <4>2
    <3> QED
      BY <3>1, <3>2 DEF Won
  <2>8. ExecutionOK(t, v)'
    BY <1>1, <1>2, <1>4, <2>5 DEF ExecutionOK, Executing, Recovering
  <2>9. PhaseOK(t, v)'
    BY <1>1, <1>6 DEF PhaseOK
  <2>10. /\ turn' \in Tasks \cup {Nobody}
         /\ \A s \in Deferred : gate'[s] = "resumed" /\ gate[s] # "resumed" => Won(s)'
         /\ \A y \in Held(v) : marker'[y] = {}
         /\ \A y \in Fresh(v) : ~Named(y)'
    <3>1. turn' \in Tasks \cup {Nobody}
      BY <1>1 DEF IInv, Delivers, TasksTyped
    <3>2. \A s \in Deferred : gate'[s] = "resumed" /\ gate[s] # "resumed" => s = x[1]
      BY <2>2
    <3> QED
      BY <1>1, <1>7, <2>5, <2>7, <3>1, <3>2
  <2> QED
    BY ONLY IInv, u = task[t], t \in Tasks, <1>1, <1>4, <1>5, <1>7, <2>1, <2>2, <2>4, <2>6, <2>8, <2>9, <2>10,
            TaskMoves
<1>10. CASE gate[x[1]] = "resumed" /\ u.replay /\ Goto(t, "fire") /\ UNCHANGED gate
  <2>1. task' = [task EXCEPT ![t] = v]
    BY <1>8, <1>10
  <2>2. ExecutionOK(t, v)
    BY <1>2, <1>4 DEF ExecutionOK, Executing, Recovering
  <2> QED
    BY ONLY IInv, u = task[t], t \in Tasks, <1>1, <1>4, <1>5, <1>6, <1>7, <1>10, <2>1, <2>2, QuietMoves
<1>11. CASE gate[x[1]] = "resumed" /\ ~u.replay /\ Over(t, TRUE) /\ UNCHANGED gate
  <2>1. PICK y \in Occurrences : y[1] = x[1] /\ claim[y] = "claimed" /\ y \notin Way(u)
    BY <1>2, <1>11 DEF IInv, Delivers, System, Won
  <2>2. Evidence(x)
    BY <1>2, <1>3, <1>11, <2>1 DEF Evidence, Superseded
  <2>3. task' = [task EXCEPT ![t] = [task[t] EXCEPT !.pc = "complete", !.ok = TRUE]]
    BY <1>11, OverIs
  <2> PICK yes \in BOOLEAN : yes = TRUE
    OBVIOUS
  <2> QED
    BY <1>1, <1>11, <2>2, <2>3, OverMoves
<1>12. CASE Over(t, FALSE) /\ UNCHANGED gate
  <2>1. task' = [task EXCEPT ![t] = [task[t] EXCEPT !.pc = "complete", !.ok = FALSE]]
    BY <1>12, OverIs
  <2> PICK no \in BOOLEAN : no = FALSE
    OBVIOUS
  <2> QED
    BY <1>1, <1>12, <2>1, OverMoves
<1> QED
  BY <1>9, <1>10, <1>11, <1>12 DEF WakeDeferred

\* A claim of the recovery is sorted by what the journal says of it.
LEMMA SortClaimDelivers ==
    ASSUME IInv, NEW x \in Occurrences, SortClaim(x)
    PROVE  Delivers'
<1>1. /\ task["startup"].pc = "sort" /\ x \in task["startup"].todo
      /\ UNCHANGED <<claim, marker, w, daemon, hist, seen, gate, turn>>
  BY DEF SortClaim, At, workerVars, store
<1>2. "startup" \in Tasks
  BY DEF Tasks
<1> PICK u \in Slots : /\ u = task["startup"] /\ ExecutionOK("startup", u) /\ HoldingOK(u)
                       /\ PhaseOK("startup", u)
  BY <1>2, TaskIs DEF IInv, Delivers
<1>3. turn # "startup" /\ u.replay /\ daemon = "recovering" /\ x \in Held(u) /\ x \notin u.batch
  BY <1>1 DEF ExecutionOK, PhaseOK, Held, HoldingOK
<1>4. HistoryTyped /\ Reconciled(x) /\ MarkerTrue(x)
  BY DEF IInv, Delivers, JournalOK
<1>5. /\ Classify(x) \in Verdicts \cup {"not_started", "indeterminate"}
      /\ Classify(x) = "not_started" => TriggeredAt(x) = {} /\ FiredAt(x) = {}
  BY <1>4, ClassifyRange
<1> PICK rest : rest = [u EXCEPT !.todo = @ \ {x}]
  OBVIOUS
<1>6. /\ rest \in Slots /\ rest.pc = "sort" /\ rest.todo = u.todo \ {x} /\ rest.batch = u.batch
      /\ rest.replay = u.replay
  BY ONLY u \in Slots, u = task["startup"], <1>1, rest = [u EXCEPT !.todo = @ \ {x}] DEF Slots
<1>7. \A y \in u.batch : ~Named(y)
  BY DEF HoldingOK, Fresh
<1>8. Held(u) = u.todo \cup u.batch /\ u.todo \cap u.batch = {}
  BY <1>1 DEF Held, Cur, Executing, Recovering, HoldingOK
<1>9. CASE Classify(x) = "not_started"
  <2> PICK v : v = [rest EXCEPT !.batch = @ \cup {x}]
    OBVIOUS
  <2>1. task' = [task EXCEPT !["startup"] = v]
    BY <1>9 DEF SortClaim
  <2>2. v \in Slots /\ v.pc = "sort" /\ v.todo = rest.todo /\ v.batch = u.batch \cup {x} /\ v.replay = u.replay
    BY ONLY <1>6, x \in Occurrences, v = [rest EXCEPT !.batch = @ \cup {x}] DEF Slots
  <2>3. ~Named(x)
    <3>1. Scans(x) /\ TriggeredAt(x) = {} /\ FiredAt(x) = {}
      BY <1>4, <1>5, <1>9, Scanned DEF HistoryTyped
    <3>2. ReconciledAt(x) = {}
      BY <1>4, <3>1 DEF Reconciled, Settled
    <3> QED
      BY <3>1, <3>2 DEF Named, Scans, ReconciledAt
  <2>4. Cur(v) = {} /\ Held(v) \subseteq Held(u) /\ Fresh(v) = v.batch
    BY <1>1, <1>6, <1>8, <2>2 DEF Cur, Held, Fresh, Executing, Recovering
  <2>5. v.todo \cap v.batch = {} /\ Cur(v) \cap (v.todo \cup v.batch) = {} /\ \A y \in Fresh(v) : ~Named(y)
    BY <1>6, <1>7, <1>8, <2>2, <2>3, <2>4
  <2>6. ExecutionOK("startup", v)
    BY <1>3, <2>2 DEF ExecutionOK, Executing, Recovering
  <2>7. PhaseOK("startup", v)
    BY <1>3, <2>2 DEF PhaseOK, Recovering
  <2> QED
    BY ONLY IInv, u = task["startup"], <1>1, <1>2, <1>3, <2>1, <2>2, <2>4, <2>5, <2>6, <2>7, QuietMoves
<1>10. CASE Classify(x) = "awaiting" /\ AlreadyReconciled(x)
  <2>1. task' = [task EXCEPT !["startup"] = rest]
    BY <1>10 DEF SortClaim
  <2>2. Cur(rest) = {} /\ Held(rest) \subseteq Held(u) /\ Fresh(rest) = rest.batch
    BY <1>6, <1>8 DEF Cur, Held, Fresh, Executing, Recovering
  <2>3. /\ rest.todo \cap rest.batch = {} /\ Cur(rest) \cap (rest.todo \cup rest.batch) = {}
        /\ \A y \in Fresh(rest) : ~Named(y)
    BY <1>6, <1>7, <1>8, <2>2
  <2>4. ExecutionOK("startup", rest)
    BY <1>3, <1>6 DEF ExecutionOK, Executing, Recovering
  <2>5. PhaseOK("startup", rest)
    BY <1>3, <1>6 DEF PhaseOK, Recovering
  <2> QED
    BY ONLY IInv, u = task["startup"], <1>1, <1>2, <1>3, <1>6, <2>1, <2>2, <2>3, <2>4, <2>5, QuietMoves
<1>11. CASE Classify(x) # "not_started" /\ ~(Classify(x) = "awaiting" /\ AlreadyReconciled(x))
  <2> PICK ok \in BOOLEAN : ok = (Classify(x) = "succeeded")
    OBVIOUS
  <2> PICK p \in Recovering : p = IF ~AlreadyReconciled(x) THEN "reconcile" ELSE "close"
    BY DEF Recovering
  <2> PICK v : v = [rest EXCEPT !.pc = p, !.cur = x, !.ok = ok]
    OBVIOUS
  <2>1. /\ v \in Slots /\ v.pc = p /\ v.cur = x /\ v.ok = ok /\ v.todo = rest.todo /\ v.batch = u.batch
        /\ v.replay = u.replay
    BY ONLY <1>6, x \in Occurrences, ok \in BOOLEAN, p \in Recovering,
            v = [rest EXCEPT !.pc = p, !.cur = x, !.ok = ok]
       DEF Slots
  <2>2. task' = [task EXCEPT !["startup"] = v]
    <3>1. CASE AlreadyReconciled(x)
      BY <1>11, <3>1 DEF SortClaim
    <3>2. CASE ~AlreadyReconciled(x)
      <4> PICK c : c = [rest EXCEPT !.pc = "close", !.cur = x, !.ok = ok]
        OBVIOUS
      <4>1. task' = [task EXCEPT !["startup"] = [c EXCEPT !.pc = "reconcile"]]
        BY <1>11, <3>2 DEF SortClaim
      <4>2. [c EXCEPT !.pc = "reconcile"] = v
        BY ONLY <1>6, <3>2, x \in Occurrences, ok \in BOOLEAN, p = IF ~AlreadyReconciled(x) THEN "reconcile" ELSE "close",
                c = [rest EXCEPT !.pc = "close", !.cur = x, !.ok = ok],
                v = [rest EXCEPT !.pc = p, !.cur = x, !.ok = ok]
           DEF Slots
      <4> QED
        BY <4>1, <4>2
    <3> QED
      BY <3>1, <3>2
  <2>3. Cur(v) = {x} /\ Held(v) \subseteq Held(u) /\ Fresh(v) = v.batch
    BY <1>1, <1>6, <1>8, <2>1 DEF Cur, Held, Fresh, Executing, Recovering
  <2>4. v.todo \cap v.batch = {} /\ Cur(v) \cap (v.todo \cup v.batch) = {} /\ \A y \in Fresh(v) : ~Named(y)
    BY <1>3, <1>6, <1>7, <1>8, <2>1, <2>3
  <2>5. ok => Evidence(x)
    BY <1>4, ClassifyEvidence
  <2>6. p = "close" => \A i \in ReconciledAt(x) : hist[i].outcome = IF ok THEN "succeeded" ELSE "failed"
    <3> SUFFICES ASSUME p = "close", NEW i \in ReconciledAt(x)
                 PROVE  hist[i].outcome = IF ok THEN "succeeded" ELSE "failed"
      OBVIOUS
    <3>1. AlreadyReconciled(x) /\ Classify(x) \in {"succeeded", "failed", "indeterminate"}
      BY <1>5, <1>11 DEF Verdicts
    <3>2. hist[i].outcome = Recorded(Classify(x))
      BY <1>4 DEF Reconciled
    <3> QED
      BY <3>1, <3>2 DEF Recorded
  <2>7. p = "reconcile" => ~AlreadyReconciled(x)
    OBVIOUS
  <2>8. ExecutionOK("startup", v)
    BY <1>3, <1>11, <2>1, <2>5, <2>6, <2>7 DEF ExecutionOK, Executing, Recovering
  <2>9. PhaseOK("startup", v)
    BY <1>3, <2>1 DEF PhaseOK, Recovering
  <2>10. v.pc # "idle"
    BY <2>1 DEF Recovering
  <2> QED
    BY ONLY IInv, u = task["startup"], <1>1, <1>2, <1>3, <2>1, <2>2, <2>3, <2>4, <2>8, <2>9, <2>10, QuietMoves
<1> QED
  BY <1>9, <1>10, <1>11

-----------------------------------------------------------------------------
(***************************************************************************)
(* Steps of a task that commit                                             *)
(***************************************************************************)
LEMMA FireTurnDelivers ==
    ASSUME IInv, NEW t \in Tasks, FireTurn(t)
    PROVE  Delivers'
<1> PICK u \in Slots : u = task[t] /\ ExecutionOK(t, u) /\ HoldingOK(u) /\ PhaseOK(t, u)
  BY TaskIs DEF IInv, Delivers
<1> PICK v : v = [u EXCEPT !.pc = "turn", !.pos = Len(hist) + 1]
  OBVIOUS
<1>1. /\ u.pc = "fire" /\ turn = Nobody /\ turn' = t /\ Len(hist) < MaxHistory
      /\ task' = [task EXCEPT ![t] = v] /\ hist' = Append(hist, Event("fired", u.cur, "none"))
      /\ UNCHANGED <<claim, marker, w, daemon, seen, gate>>
  BY DEF FireTurn, At, Commit, workerVars, store
<1> PICK x \in Occurrences : x = u.cur
  BY <1>1 DEF ExecutionOK, Executing
<1>2. x[1] \notin Triggers /\ ReconciledAt(x) = {}
  BY <1>1 DEF ExecutionOK, Executing
<1>3. x \in Held(u) /\ x \in Fresh(u) /\ x \notin u.batch /\ u.batch \subseteq Fresh(u)
  BY <1>1 DEF Held, Cur, Fresh, Executing, HoldingOK
<1>4. ~Named(x) /\ claim[x] = "claimed" /\ marker[x] = {}
  BY <1>3 DEF HoldingOK
<1> PICK e : e = Event("fired", x, "none")
  OBVIOUS
<1>5. e \in Events /\ e.kind = "fired" /\ e.x = x
  BY DEF Event, Events, Kinds
<1>6. HistoryTyped /\ JournalOK /\ hist' = Append(hist, e)
  BY <1>1 DEF IInv, Delivers, JournalOK
<1>7. JournalOK'
  <2>1. /\ e.kind # "reconciled" /\ e.x \in Occurrences /\ ~Named(e.x) /\ claim[e.x] = "claimed"
        /\ e.kind = "triggered" <=> e.x[1] \in Triggers
    BY <1>2, <1>4, <1>5
  <2> QED
    BY ONLY <1>1, <1>5, <1>6, <2>1, EventKeeps
<1>8. /\ Grown /\ Len(hist) \in Nat /\ Len(hist') = Len(hist) + 1 /\ Len(hist) + 1 \in FiredAt(x)'
      /\ \A y : ReconciledAt(y)' = ReconciledAt(y) /\ (Named(y)' => Named(y) \/ y = x)
  <2>1. /\ e.kind \in {"fired", "triggered", "reconciled"} => e.x \in Occurrences
        /\ e.kind = "reconciled" => e.outcome \in Verdicts
    BY <1>5
  <2>2. /\ Grown /\ Len(hist) \in Nat /\ Len(hist') = Len(hist) + 1
        /\ \A y : /\ FiredAt(y)' = FiredAt(y) \cup (IF e.kind = "fired" /\ e.x = y THEN {Len(hist) + 1} ELSE {})
                  /\ ReconciledAt(y)' = ReconciledAt(y)
                        \cup (IF e.kind = "reconciled" /\ e.x = y THEN {Len(hist) + 1} ELSE {})
                  /\ Named(y)' => Named(y) \/ (e.kind \in {"fired", "triggered", "reconciled"} /\ e.x = y)
    BY ONLY <1>1, <1>5, <1>6, <2>1, Appended
  <2> QED
    BY ONLY <1>5, <2>2
<1>9. Len(hist) + 1 \in 0..MaxHistory
  BY <1>1, <1>8, DeliveryAssumption
<1>10. /\ v \in Slots /\ v.pc = "turn" /\ v.cur = x /\ v.pos = Len(hist) + 1 /\ v.todo = u.todo /\ v.batch = u.batch
       /\ v.replay = u.replay
  BY ONLY u \in Slots, x = u.cur, <1>9, v = [u EXCEPT !.pc = "turn", !.pos = Len(hist) + 1] DEF Slots, Executing
<1>11. /\ Held(v) = Held(u) /\ Cur(v) = Cur(u) /\ Fresh(v) = u.batch /\ Way(v) = u.batch /\ u.batch \subseteq Way(u)
  BY <1>1, <1>10 DEF Held, Cur, Fresh, Way, Executing
<1>12. \A q \in Tasks : q # Nobody
  BY DeliveryAssumption DEF Tasks
<1>13. Spares(t)
  <2>1. ClaimsKept /\ GatesKept
    BY <1>1 DEF ClaimsKept, GatesKept
  <2> QED
    BY <1>1, <1>3, <1>8, <1>12, <2>1 DEF Spares
<1>14. ExecutionOK(t, v)'
  <2>1. /\ v.pos \in 1..Len(hist') /\ Len(hist) + 1 <= v.pos
        /\ \A j \in 1..Len(hist') : j <= Len(hist) + 1
    BY <1>8, <1>10
  <2> QED
    BY <1>1, <1>2, <1>8, <1>10, <2>1 DEF ExecutionOK, Executing, Recovering
<1>15. PhaseOK(t, v)'
  BY <1>1, <1>10 DEF PhaseOK, Recovering
<1>16. /\ v.todo \cap v.batch = {} /\ Cur(v) \cap (v.todo \cup v.batch) = {}
       /\ \A y \in Held(v) : marker'[y] = {}
       /\ \A y \in Fresh(v) : ~Named(y)'
  BY <1>1, <1>3, <1>8, <1>10, <1>11 DEF HoldingOK
<1>17. /\ gate' \in [Deferred -> {"pending", "resumed"}] /\ turn' \in Tasks \cup {Nobody}
       /\ \A s \in Deferred : gate'[s] = "resumed" /\ gate[s] # "resumed" => Won(s)'
  BY <1>1 DEF IInv, Delivers, TasksTyped
<1> QED
  BY ONLY IInv, u = task[t], t \in Tasks, <1>1, <1>7, <1>10, <1>11, <1>13, <1>14, <1>15, <1>16, <1>17, TaskMoves

\* The running turn commits an event and goes on, ends or waits for an approval.
LEMMA TurnEventMoves ==
    ASSUME IInv, NEW t \in Tasks, task[t].pc = "turn", NEW kind \in {"responded", "asked", "failed"},
           Len(hist) < MaxHistory, hist' = Append(hist, Event(kind, <<>>, "none")),
           UNCHANGED <<claim, marker, w, daemon, seen, gate>>,
           NEW v \in Slots, task' = [task EXCEPT ![t] = v],
           v.todo = task[t].todo, v.batch = task[t].batch, v.replay = task[t].replay,
           v.pc \in {"turn", "complete", "next"}, v.pc # "next" => v.cur = task[t].cur,
           turn' = IF v.pc = "turn" THEN t ELSE Nobody,
           v.pc = "turn" => v.pos = Len(hist) + 1
    PROVE  Delivers'
<1> PICK u \in Slots : u = task[t] /\ ExecutionOK(t, u) /\ HoldingOK(u) /\ PhaseOK(t, u)
  BY TaskIs DEF IInv, Delivers
<1>1. turn = t /\ u.cur \in Occurrences /\ u.cur[1] \notin Triggers /\ ReconciledAt(u.cur) = {}
  BY DEF ExecutionOK, Executing
<1>2. PICK f \in FiredAt(u.cur) : /\ u.pos \in 1..Len(hist) /\ f <= u.pos
                                  /\ \A j \in 1..Len(hist) : hist[j].kind = "fired" => j <= f
  BY DEF ExecutionOK
<1>3. /\ JournalOK' /\ Grown /\ NoneFired
      /\ Len(hist) \in Nat /\ Len(hist') = Len(hist) + 1
      /\ \A x \in Occurrences : /\ ReconciledAt(x)' = ReconciledAt(x) /\ (Named(x)' => Named(x))
                                /\ FiredAt(x)' = FiredAt(x)
  BY TurnEventSpares DEF IInv, Delivers
<1>4. \A q \in Tasks : q # Nobody
  BY DeliveryAssumption DEF Tasks
<1>5. Spares(t)
  <2>1. ClaimsKept /\ GatesKept
    BY DEF ClaimsKept, GatesKept
  <2> QED
    BY <1>1, <1>3, <1>4, <2>1 DEF Spares
<1>6. /\ Held(v) \subseteq Held(u) /\ Cur(v) \subseteq Cur(u) /\ Fresh(v) = u.batch /\ Way(v) = u.batch
      /\ u.batch \subseteq Way(u) /\ u.batch \subseteq Fresh(u)
  BY DEF Held, Cur, Fresh, Way, Executing, Recovering
<1>7. ExecutionOK(t, v)'
  <2>1. v.pc = "turn" =>
          \E g \in FiredAt(v.cur)' : /\ v.pos \in 1..Len(hist') /\ g <= v.pos
                                     /\ \A j \in 1..Len(hist') : hist'[j].kind = "fired" => j <= g
    <3> SUFFICES ASSUME v.pc = "turn"
                 PROVE  \E g \in FiredAt(v.cur)' : /\ v.pos \in 1..Len(hist') /\ g <= v.pos
                                                   /\ \A j \in 1..Len(hist') : hist'[j].kind = "fired" => j <= g
      OBVIOUS
    <3>1. f \in FiredAt(v.cur)' /\ v.pos = Len(hist) + 1
      BY <1>1, <1>2, <1>3
    <3>2. f \in 1..Len(hist)
      BY <1>2, <1>3, Scanned DEF Scans, Grown
    <3>3. v.pos \in 1..Len(hist') /\ f <= v.pos
      BY <1>3, <3>1, <3>2
    <3>4. \A j \in 1..Len(hist') : hist'[j].kind = "fired" => j <= f
      BY <1>2, <1>3 DEF NoneFired, Grown
    <3> QED
      BY <3>1, <3>3, <3>4
  <2>2. v.pc = "turn" <=> turn' = t
    BY <1>4
  <2>3. v.pc # "next" => v.cur \in Occurrences /\ v.cur[1] \notin Triggers /\ ReconciledAt(v.cur)' = {}
    BY <1>1, <1>3
  <2>4. v.pc # "next" => Evidence(v.cur)'
    BY <1>1, <1>2, <1>3 DEF Evidence
  <2> QED
    BY <2>1, <2>2, <2>3, <2>4 DEF ExecutionOK, Executing, Recovering
<1>8. PhaseOK(t, v)'
  BY DEF PhaseOK, Recovering
<1>9. /\ v.todo \cap v.batch = {} /\ Cur(v) \cap (v.todo \cup v.batch) = {}
      /\ \A x \in Held(v) : marker'[x] = {}
      /\ \A x \in Fresh(v) : ~Named(x)'
  <2>1. u.batch \subseteq Occurrences
    BY DEF Slots
  <2> QED
    BY <1>3, <1>6, <2>1 DEF HoldingOK
<1>10. /\ gate' \in [Deferred -> {"pending", "resumed"}] /\ turn' \in Tasks \cup {Nobody}
       /\ \A s \in Deferred : gate'[s] = "resumed" /\ gate[s] # "resumed" => Won(s)'
  BY DEF IInv, Delivers, TasksTyped
<1>11. u.pc \notin {"idle", "waiting"} /\ v.pc # "idle" /\ seen' = seen /\ v.replay = u.replay /\ v \in Slots
       /\ task' = [task EXCEPT ![t] = v]
  OBVIOUS
<1> QED
  BY ONLY IInv, u = task[t], t \in Tasks, <1>3, <1>5, <1>6, <1>7, <1>8, <1>9, <1>10, <1>11, TaskMoves

LEMMA ModelRespondsDelivers ==
    ASSUME IInv, NEW t \in Tasks, ModelResponds(t)
    PROVE  Delivers'
<1> PICK u \in Slots : u = task[t] /\ ExecutionOK(t, u)
  BY TaskIs DEF IInv, Delivers
<1> PICK v : v = [u EXCEPT !.pos = @ + 1]
  OBVIOUS
<1>1. /\ u.pc = "turn" /\ u.pos = Len(hist) /\ Len(hist) < MaxHistory
      /\ task' = [task EXCEPT ![t] = v] /\ hist' = Append(hist, Event("responded", <<>>, "none"))
      /\ UNCHANGED <<claim, marker, w, daemon, seen, gate, turn>>
  BY DEF ModelResponds, At, CommitInTurn, Commit, workerVars, store
<1>2. turn' = t /\ Len(hist) \in Nat /\ Len(hist) + 1 \in 0..MaxHistory
  BY <1>1, DeliveryAssumption DEF ExecutionOK, IInv, Delivers, JournalOK, HistoryTyped
<1>3. /\ v \in Slots /\ v.pc = "turn" /\ v.cur = u.cur /\ v.pos = Len(hist) + 1 /\ v.todo = u.todo
      /\ v.batch = u.batch /\ v.replay = u.replay
  BY ONLY u \in Slots, <1>1, <1>2, v = [u EXCEPT !.pos = @ + 1] DEF Slots
<1>4. turn' = IF v.pc = "turn" THEN t ELSE Nobody
  BY <1>2, <1>3
<1> PICK kind \in {"responded", "asked", "failed"} : kind = "responded"
  OBVIOUS
<1>5. hist' = Append(hist, Event(kind, <<>>, "none"))
  BY <1>1
<1> QED
  BY ONLY IInv, u = task[t], t \in Tasks, kind \in {"responded", "asked", "failed"}, <1>1, <1>3, <1>4, <1>5,
          TurnEventMoves

LEMMA LeaveIs ==
    ASSUME NEW u \in Slots, NEW p \in {"next", "sort"}, NEW v, v = Leave(u, p)
    PROVE  /\ v \in Slots /\ v.pc = p /\ v.todo = u.todo /\ v.batch = u.batch /\ v.replay = u.replay
<1>1. 0 \in 0..MaxHistory
  BY DeliveryAssumption
<1>2. v = [u EXCEPT !.pc = p, !.cur = <<>>, !.ok = FALSE, !.pos = 0]
  BY DEF Leave
<1> QED
  BY ONLY u \in Slots, p \in {"next", "sort"}, <1>1, <1>2 DEF Slots

LEMMA TurnAwaitsApprovalDelivers ==
    ASSUME IInv, NEW t \in Tasks, TurnAwaitsApproval(t)
    PROVE  Delivers'
<1> PICK u \in Slots : u = task[t]
  BY DEF IInv, Delivers, TasksTyped
<1> PICK v : v = Leave(u, "next")
  OBVIOUS
<1>1. /\ u.pc = "turn" /\ Len(hist) < MaxHistory /\ turn' = Nobody
      /\ task' = [task EXCEPT ![t] = v] /\ hist' = Append(hist, Event("asked", <<>>, "none"))
      /\ UNCHANGED <<claim, marker, w, daemon, seen, gate>>
  BY DEF TurnAwaitsApproval, At, CommitInTurn, Commit, workerVars, store
<1>2. v \in Slots /\ v.pc = "next" /\ v.todo = u.todo /\ v.batch = u.batch /\ v.replay = u.replay
  BY LeaveIs
<1>3. turn' = IF v.pc = "turn" THEN t ELSE Nobody
  BY <1>1, <1>2
<1> PICK kind \in {"responded", "asked", "failed"} : kind = "asked"
  OBVIOUS
<1>4. hist' = Append(hist, Event(kind, <<>>, "none"))
  BY <1>1
<1> QED
  BY ONLY IInv, u = task[t], t \in Tasks, kind \in {"responded", "asked", "failed"}, <1>1, <1>2, <1>3, <1>4,
          TurnEventMoves

\* How a turn ends: the scheduler.fired it began with is in the journal.
LEMMA TurnEnds ==
    ASSUME IInv, NEW t \in Tasks, task[t].pc = "turn", NEW ok \in BOOLEAN, turn' = Nobody,
           UNCHANGED <<claim, marker, w, daemon, seen, gate>>,
           \/ Over(t, ok) /\ UNCHANGED hist
           \/ CommitInTurn(t, Event("failed", <<>>, "none"), [task[t] EXCEPT !.pc = "complete", !.ok = ok])
    PROVE  Delivers'
<1> PICK u \in Slots : u = task[t] /\ ExecutionOK(t, u)
  BY TaskIs DEF IInv, Delivers
<1>1. u.cur \in Occurrences /\ FiredAt(u.cur) # {}
  BY DEF ExecutionOK, Executing
<1>2. Evidence(u.cur)
  BY <1>1 DEF Evidence
<1>3. CASE CommitInTurn(t, Event("failed", <<>>, "none"), [task[t] EXCEPT !.pc = "complete", !.ok = ok])
  <2> PICK v : v = [u EXCEPT !.pc = "complete", !.ok = ok]
    OBVIOUS
  <2>1. /\ Len(hist) < MaxHistory /\ task' = [task EXCEPT ![t] = v]
        /\ hist' = Append(hist, Event("failed", <<>>, "none"))
    BY <1>3 DEF CommitInTurn, Commit
  <2>2. /\ v \in Slots /\ v.pc = "complete" /\ v.cur = u.cur /\ v.ok = ok /\ v.todo = u.todo
        /\ v.batch = u.batch /\ v.replay = u.replay
    BY ONLY u \in Slots, ok \in BOOLEAN, v = [u EXCEPT !.pc = "complete", !.ok = ok] DEF Slots, Executing
  <2>3. turn' = IF v.pc = "turn" THEN t ELSE Nobody
    BY <2>2
  <2> PICK kind \in {"responded", "asked", "failed"} : kind = "failed"
    OBVIOUS
  <2>4. hist' = Append(hist, Event(kind, <<>>, "none"))
    BY <2>1
  <2> QED
    BY ONLY IInv, u = task[t], t \in Tasks, kind \in {"responded", "asked", "failed"}, task[t].pc = "turn",
            UNCHANGED <<claim, marker, w, daemon, seen, gate>>, <1>2, <2>1, <2>2, <2>3, <2>4, TurnEventMoves
<1>4. CASE Over(t, ok) /\ UNCHANGED hist
  <2>1. task' = [task EXCEPT ![t] = [task[t] EXCEPT !.pc = "complete", !.ok = ok]]
    BY <1>4, OverIs
  <2> QED
    BY <1>2, <1>4, <2>1, OverMoves
<1> QED
  BY <1>3, <1>4

LEMMA TurnSucceedsDelivers ==
    ASSUME IInv, NEW t \in Tasks, TurnSucceeds(t)
    PROVE  Delivers'
<1> PICK yes \in BOOLEAN : yes = TRUE
  OBVIOUS
<1>1. /\ task[t].pc = "turn" /\ turn' = Nobody /\ UNCHANGED <<claim, marker, w, daemon, seen, gate>>
      /\ \/ Over(t, yes) /\ UNCHANGED hist
         \/ CommitInTurn(t, Event("failed", <<>>, "none"), [task[t] EXCEPT !.pc = "complete", !.ok = yes])
  BY DEF TurnSucceeds, At, workerVars, store
<1> QED
  BY <1>1, TurnEnds

LEMMA TurnFailsDelivers ==
    ASSUME IInv, NEW t \in Tasks, TurnFails(t)
    PROVE  Delivers'
<1> PICK no \in BOOLEAN : no = FALSE
  OBVIOUS
<1>1. /\ task[t].pc = "turn" /\ turn' = Nobody /\ UNCHANGED <<claim, marker, w, daemon, seen, gate>>
      /\ \/ Over(t, no) /\ UNCHANGED hist
         \/ CommitInTurn(t, Event("failed", <<>>, "none"), [task[t] EXCEPT !.pc = "complete", !.ok = no])
  BY DEF TurnFails, At, workerVars, store
<1> QED
  BY <1>1, TurnEnds

LEMMA TriggerMoves ==
    ASSUME IInv, NEW t \in Tasks, task[t].pc = "trigger", Len(hist) < MaxHistory,
           hist' = Append(hist, Event("triggered", task[t].cur, "none")),
           task' = [task EXCEPT ![t] = [task[t] EXCEPT !.pc = "complete", !.ok = TRUE]],
           UNCHANGED <<claim, marker, w, daemon, seen, gate, turn>>
    PROVE  Delivers'
<1> PICK u \in Slots : u = task[t] /\ ExecutionOK(t, u) /\ HoldingOK(u) /\ PhaseOK(t, u)
  BY TaskIs DEF IInv, Delivers
<1> PICK v : v = [u EXCEPT !.pc = "complete", !.ok = TRUE]
  OBVIOUS
<1> PICK x \in Occurrences : x = u.cur
  BY DEF ExecutionOK, Executing
<1>1. x[1] \in Triggers /\ ReconciledAt(x) = {} /\ turn # t
  BY DEF ExecutionOK, Executing
<1>2. x \in Held(u) /\ x \in Fresh(u) /\ x \notin u.batch /\ u.batch \subseteq Fresh(u)
  BY DEF Held, Cur, Fresh, Executing, HoldingOK
<1>3. ~Named(x) /\ claim[x] = "claimed" /\ marker[x] = {}
  BY <1>2 DEF HoldingOK
<1> PICK e : e = Event("triggered", x, "none")
  OBVIOUS
<1>4. e \in Events /\ e.kind = "triggered" /\ e.x = x
  BY DEF Event, Events, Kinds
<1>5. HistoryTyped /\ JournalOK /\ hist' = Append(hist, e) /\ Len(hist) < MaxHistory
  BY DEF IInv, Delivers, JournalOK
<1>6. UNCHANGED <<claim, marker, w, daemon, seen, gate, turn>> /\ task' = [task EXCEPT ![t] = v]
  OBVIOUS
<1>7. JournalOK'
  <2>1. /\ e.kind # "reconciled" /\ e.x \in Occurrences /\ ~Named(e.x) /\ claim[e.x] = "claimed"
        /\ e.kind = "triggered" <=> e.x[1] \in Triggers
    BY <1>1, <1>3, <1>4
  <2> QED
    BY ONLY <1>4, <1>5, <1>6, <2>1, EventKeeps
<1>8. /\ Grown /\ NoneFired /\ Len(hist) + 1 \in TriggeredAt(x)'
      /\ \A y : ReconciledAt(y)' = ReconciledAt(y) /\ (Named(y)' => Named(y) \/ y = x)
  <2>1. /\ e.kind \in {"fired", "triggered", "reconciled"} => e.x \in Occurrences
        /\ e.kind = "reconciled" => e.outcome \in Verdicts
    BY <1>4
  <2>2. /\ Grown /\ Len(hist) \in Nat /\ Len(hist') = Len(hist) + 1 /\ hist'[Len(hist) + 1] = e
        /\ \A y : /\ TriggeredAt(y)' = TriggeredAt(y)
                        \cup (IF e.kind = "triggered" /\ e.x = y THEN {Len(hist) + 1} ELSE {})
                  /\ ReconciledAt(y)' = ReconciledAt(y)
                        \cup (IF e.kind = "reconciled" /\ e.x = y THEN {Len(hist) + 1} ELSE {})
                  /\ Named(y)' => Named(y) \/ (e.kind \in {"fired", "triggered", "reconciled"} /\ e.x = y)
    BY ONLY <1>4, <1>5, <2>1, Appended
  <2>3. NoneFired
    BY ONLY <1>4, <2>2 DEF NoneFired
  <2> QED
    BY ONLY <1>4, <2>2, <2>3
<1>9. /\ v \in Slots /\ v.pc = "complete" /\ v.cur = x /\ v.todo = u.todo /\ v.batch = u.batch
      /\ v.replay = u.replay
  BY ONLY u \in Slots, x = u.cur, v = [u EXCEPT !.pc = "complete", !.ok = TRUE] DEF Slots, Executing
<1>10. /\ Held(v) = Held(u) /\ Cur(v) = Cur(u) /\ Fresh(v) = u.batch /\ Way(v) = u.batch /\ u.batch \subseteq Way(u)
  BY <1>9 DEF Held, Cur, Fresh, Way, Executing
<1>11. Spares(t)
  <2>1. ClaimsKept /\ GatesKept
    BY <1>6 DEF ClaimsKept, GatesKept
  <2> QED
    BY <1>2, <1>6, <1>8, <2>1 DEF Spares
<1>12. ExecutionOK(t, v)'
  <2>1. Evidence(x)'
    BY <1>8 DEF Evidence
  <2> QED
    BY <1>1, <1>6, <1>8, <1>9, <2>1 DEF ExecutionOK, Executing, Recovering
<1>13. PhaseOK(t, v)'
  BY <1>6, <1>9 DEF PhaseOK, Recovering
<1>14. /\ v.todo \cap v.batch = {} /\ Cur(v) \cap (v.todo \cup v.batch) = {}
       /\ \A y \in Held(v) : marker'[y] = {}
       /\ \A y \in Fresh(v) : ~Named(y)'
  BY <1>2, <1>6, <1>8, <1>9, <1>10 DEF HoldingOK
<1>15. /\ gate' \in [Deferred -> {"pending", "resumed"}] /\ turn' \in Tasks \cup {Nobody}
       /\ \A s \in Deferred : gate'[s] = "resumed" /\ gate[s] # "resumed" => Won(s)'
  BY <1>6 DEF IInv, Delivers, TasksTyped
<1>16. task[t].pc \notin {"idle", "waiting"}
  OBVIOUS
<1> QED
  BY ONLY IInv, u = task[t], t \in Tasks, <1>6, <1>7, <1>9, <1>10, <1>11, <1>12, <1>13, <1>14, <1>15, <1>16, TaskMoves

LEMMA DeliverTriggerDelivers ==
    ASSUME IInv, NEW t \in Tasks, DeliverTrigger(t)
    PROVE  Delivers'
<1> PICK u \in Slots : u = task[t] /\ ExecutionOK(t, u)
  BY TaskIs DEF IInv, Delivers
<1>1. u.pc = "trigger" /\ UNCHANGED <<claim, marker, w, daemon, seen, gate, turn>>
  BY DEF DeliverTrigger, At, workerVars, store
<1>2. CASE Commit(t, Event("triggered", task[t].cur, "none"), [task[t] EXCEPT !.pc = "complete", !.ok = TRUE])
  <2>1. /\ Len(hist) < MaxHistory /\ hist' = Append(hist, Event("triggered", task[t].cur, "none"))
        /\ task' = [task EXCEPT ![t] = [task[t] EXCEPT !.pc = "complete", !.ok = TRUE]]
    BY <1>2 DEF Commit
  <2> QED
    BY ONLY IInv, t \in Tasks, u = task[t], <1>1, <2>1, TriggerMoves
<1>3. CASE /\ TriggeredAt(task[t].cur) # {} /\ UNCHANGED hist
           /\ task' = [task EXCEPT ![t] = [task[t] EXCEPT !.pc = "complete", !.ok = TRUE]]
  <2> PICK yes \in BOOLEAN : yes = TRUE
    OBVIOUS
  <2>1. Evidence(task[t].cur)
    BY <1>3 DEF Evidence
  <2> QED
    BY <1>1, <1>3, <2>1, OverMoves
<1>4. CASE Over(t, FALSE) /\ UNCHANGED hist
  <2>1. task' = [task EXCEPT ![t] = [task[t] EXCEPT !.pc = "complete", !.ok = FALSE]]
    BY <1>4, OverIs
  <2> PICK no \in BOOLEAN : no = FALSE
    OBVIOUS
  <2> QED
    BY <1>1, <1>4, <2>1, OverMoves
<1> QED
  BY <1>2, <1>3, <1>4 DEF DeliverTrigger

LEMMA ReconcileDelivers ==
    ASSUME IInv, Reconcile
    PROVE  Delivers'
<1> PICK t \in Tasks : t = "startup"
  BY DEF Tasks
<1> PICK u \in Slots : u = task[t] /\ ExecutionOK(t, u) /\ HoldingOK(u) /\ PhaseOK(t, u)
  BY TaskIs DEF IInv, Delivers
<1> PICK x : x = u.cur
  OBVIOUS
<1> PICK state : state = Classify(x)
  OBVIOUS
<1> PICK v : v = IF state = "awaiting" THEN Leave(u, "sort") ELSE [u EXCEPT !.pc = "close"]
  OBVIOUS
<1> PICK e : e = Event("reconciled", x, Recorded(state))
  OBVIOUS
<1>1. /\ u.pc = "reconcile" /\ Len(hist) < MaxHistory /\ hist' = Append(hist, e)
      /\ task' = [task EXCEPT ![t] = v] /\ UNCHANGED <<claim, marker, w, daemon, seen, gate, turn>>
  BY DEF Reconcile, At, Commit, Recorded, workerVars, store
<1>2. /\ x \in Occurrences /\ state # "not_started" /\ ~AlreadyReconciled(x) /\ u.ok = (state = "succeeded")
      /\ turn # t /\ (u.ok => Evidence(x))
  BY <1>1 DEF ExecutionOK, Recovering
<1>3. x \in Held(u) /\ claim[x] = "claimed" /\ marker[x] = {} /\ x \notin u.batch /\ x \notin u.todo
  BY <1>1, <1>2 DEF Held, Cur, Recovering, HoldingOK
<1>4. HistoryTyped /\ JournalOK
  BY DEF IInv, Delivers, JournalOK
<1>5. state \in {"succeeded", "failed", "awaiting", "indeterminate"} /\ Recorded(state) \in Verdicts
  BY <1>2, <1>4, ClassifyRange DEF Recorded, Verdicts
<1>6. e \in Events /\ e.kind = "reconciled" /\ e.x = x /\ e.outcome = Recorded(state)
  BY <1>2, <1>5 DEF Event, Events, Kinds
<1>7. JournalOK' /\ Recorded(Classify(x))' = Recorded(state)
  <2>1. UNCHANGED <<claim, marker, gate>> /\ e.outcome = Recorded(Classify(x)) /\ Classify(x) # "not_started"
    BY <1>1, <1>2, <1>6
  <2>2. JournalOK' /\ Recorded(Classify(x))' = Recorded(Classify(x))
    BY ONLY <1>1, <1>2, <1>3, <1>4, <1>6, <2>1, ReconciliationKeeps
  <2> QED
    BY <2>2
<1>8. /\ Grown /\ NoneFired
      /\ \A y : /\ (y # x => ReconciledAt(y)' = ReconciledAt(y)) /\ (Named(y)' => Named(y) \/ y = x)
  <2>1. /\ e.kind \in {"fired", "triggered", "reconciled"} => e.x \in Occurrences
        /\ e.kind = "reconciled" => e.outcome \in Verdicts
    BY <1>2, <1>5, <1>6
  <2>2. /\ Grown /\ Len(hist) \in Nat /\ Len(hist') = Len(hist) + 1 /\ hist'[Len(hist) + 1] = e
        /\ \A y : /\ ReconciledAt(y)' = ReconciledAt(y)
                        \cup (IF e.kind = "reconciled" /\ e.x = y THEN {Len(hist) + 1} ELSE {})
                  /\ Named(y)' => Named(y) \/ (e.kind \in {"fired", "triggered", "reconciled"} /\ e.x = y)
    BY ONLY <1>1, <1>4, <1>6, <2>1, Appended
  <2>3. NoneFired
    BY ONLY <1>6, <2>2 DEF NoneFired
  <2> QED
    BY ONLY <1>6, <2>2, <2>3
<1>9. /\ v \in Slots /\ v.todo = u.todo /\ v.batch = u.batch /\ v.replay = u.replay
      /\ v.pc = IF state = "awaiting" THEN "sort" ELSE "close"
      /\ v.pc = "close" => v.cur = x /\ v.ok = u.ok
  <2>1. CASE state = "awaiting"
    BY <2>1, LeaveIs
  <2>2. CASE state # "awaiting"
    BY ONLY u \in Slots, x = u.cur, v = IF state = "awaiting" THEN Leave(u, "sort") ELSE [u EXCEPT !.pc = "close"],
            <2>2 DEF Slots, Recovering
  <2> QED
    BY <2>1, <2>2
<1>10. /\ Held(v) \subseteq Held(u) /\ Cur(v) \subseteq Cur(u) /\ Fresh(v) = u.batch /\ Way(v) = u.batch
       /\ u.batch \subseteq Way(u) /\ u.batch \subseteq Fresh(u)
  BY <1>1, <1>9 DEF Held, Cur, Fresh, Way, Executing, Recovering
<1>11. ClaimsKept /\ GatesKept
  BY <1>1 DEF ClaimsKept, GatesKept
<1>12. Spares(t)
  BY <1>1, <1>3, <1>8, <1>11 DEF Spares
<1>13. ExecutionOK(t, v)'
  <2>1. u.ok => Evidence(x)'
    BY <1>2, <1>8, <1>11, GrownEvidence
  <2>2. v.pc = "close" => \A i \in ReconciledAt(x)' : hist'[i].outcome = IF v.ok THEN "succeeded" ELSE "failed"
    <3> SUFFICES ASSUME v.pc = "close", NEW i \in ReconciledAt(x)'
                 PROVE  hist'[i].outcome = IF v.ok THEN "succeeded" ELSE "failed"
      OBVIOUS
    <3>1. Reconciled(x)'
      BY <1>2, <1>7 DEF JournalOK
    <3>2. hist'[i].outcome = Recorded(state)
      BY <1>7, <3>1 DEF Reconciled
    <3>3. Recorded(state) = IF state = "succeeded" THEN "succeeded" ELSE "failed"
      BY <1>5, <1>9 DEF Recorded
    <3> QED
      BY <1>2, <1>9, <3>2, <3>3
  <2>3. CASE v.pc = "sort"
    BY <1>1, <1>2, <2>3 DEF ExecutionOK, Executing, Recovering
  <2>4. CASE v.pc = "close"
    <3>1. v.cur = x /\ (v.ok => Evidence(v.cur)')
      BY <1>9, <2>1, <2>4
    <3>2. \A i \in ReconciledAt(v.cur)' : hist'[i].outcome = IF v.ok THEN "succeeded" ELSE "failed"
      BY <2>2, <2>4, <3>1
    <3> QED
      BY ONLY <1>1, <1>2, <2>4, <3>1, <3>2 DEF ExecutionOK, Executing, Recovering
  <2> QED
    BY <1>9, <2>3, <2>4
<1>14. PhaseOK(t, v)'
  BY <1>1, <1>9 DEF PhaseOK, Recovering
<1>15. /\ v.todo \cap v.batch = {} /\ Cur(v) \cap (v.todo \cup v.batch) = {}
       /\ \A y \in Held(v) : marker'[y] = {}
       /\ \A y \in Fresh(v) : ~Named(y)'
  BY <1>1, <1>3, <1>8, <1>9, <1>10 DEF HoldingOK
<1>16. /\ gate' \in [Deferred -> {"pending", "resumed"}] /\ turn' \in Tasks \cup {Nobody}
       /\ \A s \in Deferred : gate'[s] = "resumed" /\ gate[s] # "resumed" => Won(s)'
  BY <1>1 DEF IInv, Delivers, TasksTyped
<1>17. task[t].pc \notin {"idle", "waiting"} /\ v.pc # "idle"
  BY <1>1, <1>9
<1> QED
  BY ONLY IInv, u = task[t], t \in Tasks, <1>1, <1>7, <1>9, <1>10, <1>12, <1>13, <1>14, <1>15, <1>16, <1>17, TaskMoves

\* A task is done with its execution; its marker is written, or its worker is dead.
LEMMA LeaveMoves ==
    ASSUME IInv, NEW t \in Tasks, NEW p \in {"next", "sort"},
           (task[t].pc = "complete" /\ p = "next") \/ (task[t].pc = "close" /\ p = "sort"),
           CompleteExecution(task[t].cur, task[t].ok) \/ UNCHANGED marker,
           task' = [task EXCEPT ![t] = Leave(task[t], p)],
           UNCHANGED <<claim, w, daemon, hist, seen, gate, turn>>
    PROVE  Delivers'
<1> PICK u \in Slots : u = task[t] /\ ExecutionOK(t, u) /\ HoldingOK(u) /\ PhaseOK(t, u)
  BY TaskIs DEF IInv, Delivers
<1> PICK v : v = Leave(u, p)
  OBVIOUS
<1> PICK x \in Occurrences : x = u.cur
  BY DEF ExecutionOK, Executing, Recovering
<1>1. u.pc \in {"complete", "close"} /\ u.ok \in BOOLEAN
  BY DEF Slots
<1>2. x \in Held(u) /\ marker[x] = {} /\ x \notin u.batch /\ x \notin u.todo /\ (u.ok => Evidence(x)) /\ turn # t
  BY <1>1 DEF Held, Cur, Executing, Recovering, HoldingOK, ExecutionOK
<1>3. \A i \in ReconciledAt(x) : hist[i].outcome = IF u.ok THEN "succeeded" ELSE "failed"
  BY <1>1 DEF ExecutionOK, Executing
<1>4. ClaimsKept /\ GatesKept
  BY DEF ClaimsKept, GatesKept
<1>5. JournalOK' /\ Grown /\ \A y \in Occurrences : y # x => marker'[y] = marker[y]
  <2>1. CASE CompleteExecution(x, u.ok)
    BY <1>1, <1>2, <1>3, <2>1, MarkerAgrees DEF IInv, Delivers
  <2>2. CASE UNCHANGED marker
    BY <1>4, <2>2, JournalStands DEF IInv, Delivers
  <2> QED
    BY <2>1, <2>2
<1>6. v \in Slots /\ v.pc = p /\ v.todo = u.todo /\ v.batch = u.batch /\ v.replay = u.replay
  BY LeaveIs
<1>7. /\ Held(v) = u.todo \cup u.batch /\ Cur(v) = {} /\ Fresh(v) = u.batch /\ Way(v) = u.batch
      /\ u.batch \subseteq Way(u) /\ u.batch \subseteq Fresh(u) /\ Held(v) \subseteq Held(u)
  BY <1>6 DEF Held, Cur, Fresh, Way, Executing, Recovering
<1>8. \A y : Named(y)' = Named(y) /\ ReconciledAt(y)' = ReconciledAt(y)
  BY SameHistory
<1>9. Spares(t)
  <2>1. NoneFired
    BY DEF NoneFired
  <2> QED
    BY <1>2, <1>4, <1>5, <1>8, <2>1 DEF Spares
<1>10. ExecutionOK(t, v)'
  BY <1>2, <1>6 DEF ExecutionOK, Executing, Recovering
<1>11. PhaseOK(t, v)'
  BY <1>1, <1>6 DEF PhaseOK, Recovering
<1>12. /\ v.todo \cap v.batch = {} /\ Cur(v) \cap (v.todo \cup v.batch) = {}
       /\ \A y \in Held(v) : marker'[y] = {}
       /\ \A y \in Fresh(v) : ~Named(y)'
  <2>1. u.todo \cup u.batch \subseteq Occurrences
    BY DEF Slots
  <2> QED
    BY <1>2, <1>5, <1>6, <1>7, <1>8, <2>1 DEF HoldingOK
<1>13. /\ gate' \in [Deferred -> {"pending", "resumed"}] /\ turn' \in Tasks \cup {Nobody}
       /\ \A s \in Deferred : gate'[s] = "resumed" /\ gate[s] # "resumed" => Won(s)'
  BY DEF IInv, Delivers, TasksTyped
<1>14. /\ task[t].pc \notin {"idle", "waiting"} /\ v.pc # "idle" /\ seen' = seen /\ task' = [task EXCEPT ![t] = v]
       /\ v.replay = task[t].replay
  BY <1>6
<1> QED
  BY ONLY IInv, u = task[t], t \in Tasks, <1>5, <1>6, <1>7, <1>9, <1>10, <1>11, <1>12, <1>13, <1>14, TaskMoves

LEMMA CloseReconciledDelivers ==
    ASSUME IInv, CloseReconciled
    PROVE  Delivers'
<1> PICK t \in Tasks : t = "startup"
  BY DEF Tasks
<1> PICK p \in {"next", "sort"} : p = "sort"
  OBVIOUS
<1>1. /\ task[t].pc = "close" /\ task' = [task EXCEPT ![t] = Leave(task[t], p)]
      /\ CompleteExecution(task[t].cur, task[t].ok) \/ UNCHANGED marker
      /\ UNCHANGED <<claim, w, daemon, hist, seen, gate, turn>>
  BY DEF CloseReconciled, At
<1> QED
  BY ONLY IInv, t \in Tasks, p \in {"next", "sort"}, p = "sort", <1>1, LeaveMoves

LEMMA CompleteDeliveryDelivers ==
    ASSUME IInv, NEW t \in Tasks, CompleteDelivery(t)
    PROVE  Delivers'
<1> PICK p \in {"next", "sort"} : p = "next"
  OBVIOUS
<1>1. /\ task[t].pc = "complete" /\ task' = [task EXCEPT ![t] = Leave(task[t], p)]
      /\ CompleteExecution(task[t].cur, task[t].ok) \/ UNCHANGED marker
      /\ UNCHANGED <<claim, w, daemon, hist, seen, gate, turn>>
  BY DEF CompleteDelivery, At
<1> QED
  BY ONLY IInv, t \in Tasks, p \in {"next", "sort"}, p = "next", <1>1, LeaveMoves

-----------------------------------------------------------------------------
(***************************************************************************)
(* The invariant of the whole                                              *)
(***************************************************************************)
LEMMA Starts == Init => IInv
<1> SUFFICES ASSUME Init PROVE IInv
  OBVIOUS
<1> PICK none : none = NoTask
  OBVIOUS
<1>1. /\ none \in Slots /\ none.pc = "idle" /\ none.todo = {} /\ none.batch = {} /\ ~none.replay
  BY NoTaskIs
<1>2. \A q \in Tasks : task[q] = none /\ q # Nobody
  BY DeliveryAssumption DEF Init, Tasks
<1>3. Held(none) = {} /\ Fresh(none) = {} /\ Cur(none) = {}
  BY <1>1 DEF Held, Fresh, Cur, Executing, Recovering
<1>4. w.got = {} /\ w.for = Nobody /\ w.pc = "dead" /\ \A x \in Occurrences : marker[x] = {}
  BY DEF Init, WorkerInit, Dead, Ready
<1>5. JournalOK
  <2>1. hist \in Seq(Events) /\ Len(hist) = 0
    BY DEF Init
  <2>2. \A x : /\ FiredAt(x) = {} /\ TriggeredAt(x) = {} /\ ReconciledAt(x) = {} /\ ~Named(x)
    BY <2>1 DEF FiredAt, TriggeredAt, Positions, ReconciledAt, Named
  <2>3. HistoryTyped
    BY <2>1, DeliveryAssumption DEF HistoryTyped
  <2> QED
    BY <1>4, <2>2, <2>3 DEF JournalOK, Dispatched, Reconciled, MarkerTrue
<1>6. TasksTyped
  <2>1. 0 \in 0..MaxEvents
    BY SchedulerAssumption
  <2> QED
    BY <1>1, <2>1 DEF TasksTyped, Init
<1>7. ASSUME NEW q \in Tasks PROVE TaskOK(q)
  <2>1. ExecutionOK(q, none) /\ HoldingOK(none) /\ PhaseOK(q, none)
    BY <1>1, <1>2, <1>3 DEF ExecutionOK, HoldingOK, PhaseOK, Executing, Recovering, Init
  <2> QED
    BY <1>1, <1>2, <2>1 DEF TaskOK
<1>8. System
  BY <1>2, <1>3, <1>4 DEF System, Init
<1> QED
  BY <1>5, <1>6, <1>7, <1>8, WorkerStarts DEF IInv, Delivers, Init

LEMMA DeliversNext ==
    ASSUME IInv, [Next]_vars
    PROVE  Delivers'
<1>1. CASE Tick /\ UNCHANGED <<store, w, deliveryVars>>
  BY <1>1, TickDelivers
<1>2. CASE WorkerStep /\ UNCHANGED deliveryVars
  BY <1>2, WorkerStepDelivers
<1>3. CASE StartDaemon
  BY <1>3, StartDaemonDelivers
<1>4. CASE CrashDaemon \/ ListFails \/ ReconcileFails
  BY <1>4, StopDelivers DEF CrashDaemon, ListFails, ReconcileFails, store
<1>5. CASE CrashWorker
  BY <1>5, CrashWorkerDelivers
<1>6. ASSUME NEW kind \in UserOutcomes, UserTurn(kind) PROVE Delivers'
  BY <1>6, UserTurnDelivers
<1>7. ASSUME NEW s \in Schedules, StoreSchedule(s) \/ RemoveSchedule(s) PROVE Delivers'
  BY <1>7, ScheduleDelivers
<1>8. CASE Poll \/ Observe
  BY <1>8, PollDelivers, ObserveDelivers
<1>9. CASE ReceiveClaims \/ ReceiveError
  BY <1>9, ReceiveDelivers
<1>10. CASE RecoveryStep
  BY <1>4, <1>10, ListPendingDelivers, SortClaimDelivers, ReconcileDelivers, CloseReconciledDelivers, SortDoneDelivers
     DEF RecoveryStep
<1>11. ASSUME NEW t \in Tasks, TaskStep(t) PROVE Delivers'
  BY <1>11, NextExecutionDelivers, BatchDoneDelivers, WakeDeferredDelivers, FireTurnDelivers, RefuseTurnDelivers,
     ModelRespondsDelivers, TurnSucceedsDelivers, TurnAwaitsApprovalDelivers, TurnFailsDelivers,
     DeliverTriggerDelivers, CompleteDeliveryDelivers
     DEF TaskStep
<1>12. CASE UNCHANGED vars
  <2>1. UNCHANGED <<marker, claim, w, deliveryVars>>
    BY <1>12 DEF vars, workerVars, store
  <2>2. ClaimsKept
    BY <2>1 DEF ClaimsKept
  <2>3. (daemon # "serving" => w.pc \in {"dead", "ready"}) /\ (daemon = "down" => w.pc = "dead")
    BY DEF IInv, Delivers, System
  <2> QED
    BY <2>1, <2>2, <2>3, WorkerMoves
<1> QED
  BY <1>1, <1>2, <1>3, <1>4, <1>5, <1>6, <1>7, <1>8, <1>9, <1>10, <1>11, <1>12 DEF Next

\* The three stores stay consistent: whatever daemon and worker are interrupted
\* at, the claims, the journal and the tasks in memory are as IInv says.
THEOREM StoresConsistent == Spec => []IInv
<1>1. IInv /\ [Next]_vars => IInv'
  <2> SUFFICES ASSUME IInv, [Next]_vars PROVE IInv'
    OBVIOUS
  <2>1. WorkerOK /\ SeenOK
    BY DEF IInv, Delivers, TasksTyped, SeenOK
  <2> QED
    BY <2>1, WorkerNext, DeliversNext DEF IInv
<1> QED
  BY <1>1, Starts, PTL DEF Spec

-----------------------------------------------------------------------------
(***************************************************************************)
(* What it promises                                                        *)
(***************************************************************************)
\* Every variable keeps its shape, and the journal its bound.
THEOREM DeliveryTypeCorrect == Spec => []TypeOK
<1>1. IInv => TypeOK
  <2> SUFFICES ASSUME IInv PROVE TypeOK
    OBVIOUS
  <2>1. WorkerTypeOK
    BY WorkerPromises DEF IInv
  <2>2. ASSUME NEW q \in Tasks
        PROVE  task[q].todo \cup task[q].batch \subseteq Occurrences /\ task[q].ok \in BOOLEAN
    BY DEF IInv, Delivers, TasksTyped, Slots
  <2> QED
    BY <2>1, <2>2 DEF TypeOK, IInv, Delivers, TasksTyped, JournalOK, HistoryTyped
<1> QED
  BY <1>1, StoresConsistent, PTL

LEMMA AtMostOne ==
    ASSUME NEW S, \A i, j \in S : i = j
    PROVE  Cardinality(S) <= 1
<1>1. CASE S = {}
  BY <1>1, FS_EmptySet
<1>2. CASE S # {}
  <2> PICK i : i \in S
    BY <1>2
  <2>1. S = {i}
    OBVIOUS
  <2>2. Cardinality({i}) = 1
    BY FS_Singleton
  <2> QED
    BY <2>1, <2>2
<1> QED
  BY <1>1, <1>2

\* A claimed occurrence is dispatched at most once, by a scheduled turn or by a
\* trigger, over any number of lost answers, crashes and recoveries.
THEOREM DispatchIsSingle == Spec => []DispatchedOnce
<1>1. IInv => DispatchedOnce
  <2> SUFFICES ASSUME IInv, NEW x \in Occurrences
               PROVE  Cardinality(FiredAt(x)) <= 1 /\ Cardinality(TriggeredAt(x)) <= 1
    BY DEF DispatchedOnce
  <2>1. (\A i, j \in FiredAt(x) : i = j) /\ (\A i, j \in TriggeredAt(x) : i = j)
    BY DEF IInv, Delivers, JournalOK, Dispatched
  <2> QED
    BY <2>1, AtMostOne
<1> QED
  BY <1>1, StoresConsistent, PTL

\* A marker says succeeded only of an occurrence that was dispatched, or whose
\* continuation another claim has resumed; a recovery records a success only of
\* a trigger, or of a turn with a model response before that record.
THEOREM SuccessIsEvident == Spec => []SuccessHasEvidence
<1>1. ASSUME IInv PROVE SuccessHasEvidence
  <2>1. \A x \in Occurrences : MarkerTrue(x)
    BY <1>1 DEF IInv, Delivers, JournalOK
  <2>2. ASSUME NEW x \in Occurrences, "succeeded" \in marker[x]
        PROVE  \/ TriggeredAt(x) \cup FiredAt(x) # {}
               \/ /\ x[1] \in Deferred
                  /\ gate[x[1]] = "resumed"
                  /\ \E y \in Occurrences \ {x} : y[1] = x[1] /\ claim[y] = "claimed"
    BY <2>1, <2>2 DEF MarkerTrue, Evidence, Superseded
  <2>3. ASSUME NEW i \in 1..Len(hist), hist[i].kind = "reconciled", hist[i].outcome = "succeeded"
        PROVE  \/ TriggeredAt(hist[i].x) # {}
               \/ /\ FiredAt(hist[i].x) # {}
                  /\ \E j \in Window(hist[i].x) : j < i /\ hist[j].kind = "responded"
    <3>1. hist[i].x \in Occurrences
      BY <1>1, <2>3 DEF IInv, Delivers, JournalOK, HistoryTyped
    <3>2. i \in ReconciledAt(hist[i].x)
      BY <2>3 DEF ReconciledAt
    <3> QED
      BY <2>1, <2>3, <3>1, <3>2 DEF MarkerTrue, Response
  <2> QED
    BY <2>2, <2>3 DEF SuccessHasEvidence
<1> QED
  BY <1>1, StoresConsistent, PTL

\* All recoveries of a claim record one outcome, and its marker says no other.
THEOREM RecoveriesAgree == Spec => []ReconciliationsAgree
<1>1. IInv => ReconciliationsAgree
  <2> SUFFICES ASSUME IInv, NEW i \in 1..Len(hist), hist[i].kind = "reconciled"
               PROVE  /\ \A j \in 1..Len(hist) : hist[j].kind = "reconciled" /\ hist[j].x = hist[i].x
                                                    => hist[j].outcome = hist[i].outcome
                      /\ marker[hist[i].x] \subseteq {hist[i].outcome}
    BY DEF ReconciliationsAgree
  <2> PICK x \in Occurrences : x = hist[i].x
    BY DEF IInv, Delivers, JournalOK, HistoryTyped
  <2>1. i \in ReconciledAt(x) /\ Reconciled(x) /\ MarkerTrue(x)
    BY DEF ReconciledAt, IInv, Delivers, JournalOK
  <2>2. \A j \in ReconciledAt(x) : hist[j].outcome = Recorded(Classify(x))
    BY <2>1 DEF Reconciled
  <2>3. marker[x] \subseteq {hist[i].outcome}
    BY <2>1 DEF MarkerTrue
  <2> QED
    BY <2>1, <2>2, <2>3 DEF ReconciledAt
<1> QED
  BY <1>1, StoresConsistent, PTL
=============================================================================
