-------------------------- MODULE ScheduledDelivery --------------------------
(***************************************************************************)
(* How the runtime delivers the occurrences its scheduler worker claims:   *)
(* the poller and the observer of committed turns execute them, a daemon   *)
(* that starts reconciles the claims its predecessor left behind.          *)
(*                                                                         *)
(*   apps/runtime/service/src/turn.rs  recover_pending_schedules,          *)
(*        classify_scheduled_recovery, execute_scheduled_claims,           *)
(*        observe_committed_range                                          *)
(*   apps/runtime/logic/src/turn.rs    run_scheduled_turn,                 *)
(*        wake_scheduled_turn, record_scheduled_recovery,                  *)
(*        deliver_graph_schedule_trigger                                   *)
(*                                                                         *)
(* Three stores agree only by the order of the writes: the worker's claims *)
(* and markers (Scheduler), the session journal (here the scheduler's view *)
(* of its events, in order) and the continuation of a deferred turn        *)
(* (ResumeOnce).  All schedules belong to one session; its turns are       *)
(* serialised by the session gate of the one daemon.                       *)
(***************************************************************************)
EXTENDS Scheduler, Sequences

CONSTANTS
    Deferred,    \* schedules whose payload is the continuation of a turn
    Triggers,    \* schedules whose payload is a graph trigger; the rest prompt
    UserOutcomes, \* bound: how the turns of users end
    MaxHistory   \* bound: events in the journal

ASSUME DeliveryAssumption ==
    /\ Deferred \subseteq Schedules \ Intervals
    /\ Triggers \subseteq Schedules \ Deferred
    /\ UserOutcomes \subseteq {"responded", "asked", "failed"}
    /\ MaxHistory \in Nat
    /\ Nobody \notin {"startup", "poller", "observer"}

VARIABLES
    daemon,   \* down, recovering or serving
    hist,     \* the session's events that matter to deliveries
    seen,     \* committed events submitted to the worker
    gate,     \* the continuation of each deferred turn
    turn,     \* holder of the session gate
    task      \* the delivery tasks

deliveryVars == <<daemon, hist, seen, gate, turn, task>>
vars == <<workerVars, deliveryVars>>

Tasks == {"startup", "poller", "observer"}

NoTask == [pc |-> "idle", todo |-> {}, batch |-> {}, cur |-> <<>>, ok |-> FALSE, replay |-> FALSE,
           pos |-> 0]

Event(kind, x, outcome) == [kind |-> kind, x |-> x, outcome |-> outcome]

\* A journal append of the task that goes on as given.
Commit(t, event, next) ==
    /\ Len(hist) < MaxHistory
    /\ hist' = Append(hist, event)
    /\ task' = [task EXCEPT ![t] = next]

\* An append of the running turn, which fails if anybody appended since its last.
CommitInTurn(t, event, next) ==
    /\ task[t].pos = Len(hist)
    /\ Commit(t, event, next)

Init ==
    /\ WorkerInit
    /\ daemon = "down"
    /\ hist = << >>
    /\ seen = 0
    /\ gate = [s \in Deferred |-> "pending"]
    /\ turn = Nobody
    /\ task = [t \in Tasks |-> NoTask]

At(t, p) == task[t].pc = p
Goto(t, p) == task' = [task EXCEPT ![t].pc = p]
\* The task is done with its current execution.
Leave(v, p) == [v EXCEPT !.pc = p, !.cur = <<>>, !.ok = FALSE, !.pos = 0]

\* The answer to a task's request.  The observer collects the claims of all its
\* events before it delivers any, and an error costs it those of one event.
Answered(t, claims) ==
    [task[t] EXCEPT !.pc = IF t = "observer" THEN "collected" ELSE "next",
                    !.batch = @ \cup claims]
Unanswered(t) == IF t = "observer" THEN Answered(t, {}) ELSE NoTask

-----------------------------------------------------------------------------
(***************************************************************************)
(* The daemon and its users                                                *)
(***************************************************************************)
\* A daemon starts with a worker of its own and recovers before it serves.
StartDaemon ==
    /\ daemon = "down"
    /\ daemon' = "recovering"
    /\ StartWorker
    /\ task' = [task EXCEPT !["startup"] = [NoTask EXCEPT !.pc = "list", !.replay = TRUE]]
    /\ UNCHANGED <<now, upserts, claim, marker, hist, seen, gate, turn>>

\* Everything in memory is lost; the worker loses its pipes and stops too.
Stop ==
    /\ daemon' = "down"
    /\ task' = [t \in Tasks |-> NoTask]
    /\ turn' = Nobody
    /\ w' = Dead

CrashDaemon ==
    /\ daemon # "down"
    /\ Stop
    /\ UNCHANGED <<now, store, hist, seen, gate>>

\* The worker dies alone: the connection is not replaced while the daemon lives.
CrashWorker ==
    /\ w.pc # "dead"
    /\ w' = Dead
    /\ task' = [t \in Tasks |-> IF At(t, "waiting") THEN Unanswered(t) ELSE task[t]]
    /\ UNCHANGED <<now, store, daemon, hist, seen, gate, turn>>

\* A user's turn or approval ends in the session, while no scheduled turn runs.
\* No scan looks at what happened before the first scheduler.fired, and the same
\* outcome twice in a row is no news to it: both are left out.
UserTurn(kind) ==
    /\ daemon = "serving"
    /\ turn = Nobody
    /\ \E i \in 1..Len(hist) : hist[i].kind = "fired"
    /\ hist[Len(hist)].kind # kind
    /\ Len(hist) < MaxHistory
    /\ hist' = Append(hist, Event(kind, <<>>, "none"))
    /\ UNCHANGED <<workerVars, daemon, seen, gate, turn, task>>

StoreSchedule(s) ==
    /\ daemon = "serving"
    /\ Upsert(Nobody, s)
    /\ UNCHANGED deliveryVars

RemoveSchedule(s) ==
    /\ daemon = "serving"
    /\ Remove(s)
    /\ UNCHANGED deliveryVars

-----------------------------------------------------------------------------
(***************************************************************************)
(* Requests to the worker                                                  *)
(***************************************************************************)
\* RunDueSchedules, sent by the poller.
Poll ==
    /\ daemon = "serving"
    /\ At("poller", "idle")
    /\ BeginClaimDue("poller")
    /\ Goto("poller", "waiting")
    /\ UNCHANGED <<daemon, hist, seen, gate, turn>>

\* observe_committed_range: the events of a committed turn are submitted once,
\* one after the other, and then the claims they led to are executed.
Observe ==
    /\ daemon = "serving"
    /\ At("observer", "idle") \/ At("observer", "collected")
    /\ seen < MaxEvents
    /\ seen' = seen + 1
    /\ BeginFire("observer", seen + 1)
    /\ Goto("observer", "waiting")
    /\ UNCHANGED <<daemon, hist, gate, turn>>

\* The worker's answer: the claims it made.
ReceiveClaims ==
    /\ Answering
    /\ w' = Ready
    /\ task' = IF w.for = Nobody THEN task
               ELSE [task EXCEPT ![w.for] = Answered(w.for, w.got)]
    /\ UNCHANGED <<now, store, daemon, hist, seen, gate, turn>>

\* The worker's error: the claims it made are not in the answer.
ReceiveError ==
    /\ WorkerError
    /\ w' = Ready
    /\ task' = IF w.for = Nobody THEN task ELSE [task EXCEPT ![w.for] = Unanswered(w.for)]
    /\ UNCHANGED <<now, upserts, claim, marker, daemon, hist, seen, gate, turn>>

-----------------------------------------------------------------------------
(***************************************************************************)
(* classify_scheduled_recovery: one scan of the journal                    *)
(***************************************************************************)
Positions(P(_)) == {i \in 1..Len(hist) : P(hist[i])}
MinOf(S) == CHOOSE i \in S : \A j \in S : i <= j
MaxOf(S) == CHOOSE i \in S : \A j \in S : i >= j

FiredAt(x) == Positions(LAMBDA e : e.kind = "fired" /\ e.x = x)
TriggeredAt(x) == Positions(LAMBDA e : e.kind = "triggered" /\ e.x = x)

\* The scan attributes to x what follows its scheduler.fired, up to the next
\* scheduler.fired of another execution.
Window(x) ==
    LET from == MinOf(FiredAt(x))
        others == {i \in Positions(LAMBDA e : e.kind = "fired" /\ e.x # x) : i > from}
    IN  {i \in (from+1)..Len(hist) : \A j \in others : i < j}

ReconciledIn(x) ==
    {i \in Window(x) : hist[i].kind = "reconciled" /\ hist[i].x = x}

ObservedIn(x) == {i \in Window(x) : hist[i].kind \in {"responded", "failed", "asked"}}

OutcomeOf(kind) ==
    CASE kind = "responded" -> "succeeded"
      [] kind = "asked" -> "awaiting"
      [] OTHER -> "failed"

\* Mutant: an earlier reconciliation is not authoritative.
ClassifyAfresh(x) ==
    IF TriggeredAt(x) # {} THEN "succeeded"
    ELSE IF FiredAt(x) = {} THEN "not_started"
    ELSE IF ObservedIn(x) # {} THEN OutcomeOf(hist[MaxOf(ObservedIn(x))].kind)
    ELSE "indeterminate"

\* Mutant: a claim without a recognised outcome counts as never started.
ClassifyRedispatch(x) ==
    IF TriggeredAt(x) # {} THEN "succeeded"
    ELSE IF FiredAt(x) = {} THEN "not_started"
    ELSE IF ReconciledIn(x) # {} THEN hist[MinOf(ReconciledIn(x))].outcome
    ELSE IF ObservedIn(x) # {} THEN OutcomeOf(hist[MaxOf(ObservedIn(x))].kind)
    ELSE "not_started"

Classify(x) ==
    IF TriggeredAt(x) # {} THEN "succeeded"
    ELSE IF FiredAt(x) = {} THEN "not_started"
    ELSE IF ReconciledIn(x) # {} THEN hist[MinOf(ReconciledIn(x))].outcome
    ELSE IF ObservedIn(x) # {} THEN OutcomeOf(hist[MaxOf(ObservedIn(x))].kind)
    ELSE "indeterminate"

AlreadyReconciled(x) == FiredAt(x) # {} /\ ReconciledIn(x) # {}

-----------------------------------------------------------------------------
(***************************************************************************)
(* recover_pending_schedules                                               *)
(***************************************************************************)
ListPending ==
    /\ At("startup", "list")
    /\ w.pc = "ready"
    /\ \E q \in PendingLists :
          task' = [task EXCEPT !["startup"].pc = "sort", !["startup"].todo = q]
    /\ UNCHANGED <<workerVars, daemon, hist, seen, gate, turn>>

\* A record that does not decode, or a worker that died: the daemon exits.
ListFails ==
    /\ At("startup", "list")
    /\ PendingCorrupt \/ w.pc = "dead"
    /\ Stop
    /\ UNCHANGED <<now, store, hist, seen, gate>>

SortClaim(x) ==
    LET state == Classify(x)
        rest == [task["startup"] EXCEPT !.todo = @ \ {x}]
        closing == [rest EXCEPT !.pc = "close", !.cur = x, !.ok = (state = "succeeded")]
    IN  /\ At("startup", "sort")
        /\ x \in task["startup"].todo
        /\ IF state = "not_started"
           THEN task' = [task EXCEPT !["startup"] = [rest EXCEPT !.batch = @ \cup {x}]]
           ELSE task' = [task EXCEPT !["startup"] =
                   IF ~AlreadyReconciled(x) THEN [closing EXCEPT !.pc = "reconcile"]
                   ELSE IF state = "awaiting" THEN rest ELSE closing]
        /\ UNCHANGED <<workerVars, daemon, hist, seen, gate, turn>>

\* scheduler.delivery_reconciled is committed before the marker is written.
Reconcile ==
    LET me == task["startup"]
        state == Classify(me.cur)
    IN  /\ At("startup", "reconcile")
        /\ Commit("startup", Event("reconciled", me.cur,
                                   IF state = "indeterminate" THEN "failed" ELSE state),
                  IF state = "awaiting" THEN Leave(me, "sort") ELSE [me EXCEPT !.pc = "close"])
        /\ UNCHANGED <<workerVars, daemon, seen, gate, turn>>

ReconcileFails ==
    /\ At("startup", "reconcile")
    /\ Stop
    /\ UNCHANGED <<now, store, hist, seen, gate>>

\* complete_scheduled_claim; its failure is only reported.
CloseReconciled ==
    LET me == task["startup"]
    IN  /\ At("startup", "close")
        /\ \/ w.pc = "ready" /\ CompleteExecution(me.cur, me.ok)
           \/ w.pc = "dead" /\ UNCHANGED marker
        /\ task' = [task EXCEPT !["startup"] = Leave(me, "sort")]
        /\ UNCHANGED <<now, sched, upserts, claim, w, daemon, hist, seen, gate, turn>>

\* The claims that never started are executed, with replayed wakes allowed.
SortDone ==
    /\ At("startup", "sort")
    /\ task["startup"].todo = {}
    /\ Goto("startup", "next")
    /\ UNCHANGED <<workerVars, daemon, hist, seen, gate, turn>>

-----------------------------------------------------------------------------
(***************************************************************************)
(* execute_scheduled_claims: one execution after the other                 *)
(***************************************************************************)
FirstStep(x) ==
    CASE x[1] \in Deferred -> "wake"
      [] x[1] \in Triggers -> "trigger"
      [] OTHER -> "fire"

NextExecution(t, x) ==
    /\ At(t, "next") \/ At(t, "collected")
    /\ x \in task[t].batch
    /\ task' = [task EXCEPT ![t].pc = FirstStep(x), ![t].cur = x, ![t].batch = @ \ {x}]
    /\ UNCHANGED <<workerVars, daemon, hist, seen, gate, turn>>

BatchDone(t) ==
    /\ At(t, "next") \/ At(t, "collected")
    /\ task[t].batch = {}
    /\ task' = [task EXCEPT ![t] = NoTask]
    /\ daemon' = IF t = "startup" THEN "serving" ELSE daemon
    /\ UNCHANGED <<workerVars, hist, seen, gate, turn>>

\* The execution is over, with the answer the marker will give.
Over(t, ok) == task' = [task EXCEPT ![t].pc = "complete", ![t].ok = ok]

\* wake_scheduled_turn: the winner of the gate fires the turn; a continuation
\* that is resumed already is a successful no-op, except during recovery; a
\* late claim is refused.
WakeDeferred(t) ==
    LET s == task[t].cur[1]
    IN  /\ At(t, "wake")
        /\ \/ gate[s] = "pending" /\ gate' = [gate EXCEPT ![s] = "resumed"] /\ Goto(t, "fire")
           \/ /\ gate[s] = "resumed"
              /\ IF task[t].replay THEN Goto(t, "fire") ELSE Over(t, TRUE)
              /\ UNCHANGED gate
           \/ Over(t, FALSE) /\ UNCHANGED gate
        /\ UNCHANGED <<workerVars, daemon, hist, seen, turn>>

\* run_scheduled_turn: under the session gate scheduler.fired comes first.
FireTurn(t) ==
    /\ At(t, "fire")
    /\ turn = Nobody
    /\ Commit(t, Event("fired", task[t].cur, "none"),
              [task[t] EXCEPT !.pc = "turn", !.pos = Len(hist) + 1])
    /\ turn' = t
    /\ UNCHANGED <<workerVars, daemon, seen, gate>>

\* Mutant: a turn that was refused is marked as delivered.
RefuseTurnDelivered(t) ==
    /\ At(t, "fire")
    /\ turn = Nobody
    /\ Over(t, TRUE)
    /\ UNCHANGED <<workerVars, daemon, hist, seen, gate, turn>>

\* The turn is refused before anything is committed.
RefuseTurn(t) ==
    /\ At(t, "fire")
    /\ turn = Nobody
    /\ Over(t, FALSE)
    /\ UNCHANGED <<workerVars, daemon, hist, seen, gate, turn>>

\* A model response; tool calls and further responses may follow it.
ModelResponds(t) ==
    /\ At(t, "turn")
    /\ hist[Len(hist)].kind # "responded"
    /\ CommitInTurn(t, Event("responded", <<>>, "none"), [task[t] EXCEPT !.pos = @ + 1])
    /\ UNCHANGED <<workerVars, daemon, seen, gate, turn>>

\* The turn answers without a continuation to wait for, which counts as a success:
\* also when the provider reported a failure, when the graph failed or waits
\* without a continuation, and when nothing was asked of a model.
TurnSucceeds(t) ==
    /\ At(t, "turn")
    /\ \/ Over(t, TRUE) /\ UNCHANGED hist
       \/ CommitInTurn(t, Event("failed", <<>>, "none"),
                       [task[t] EXCEPT !.pc = "complete", !.ok = TRUE])
    /\ turn' = Nobody
    /\ UNCHANGED <<workerVars, daemon, seen, gate>>

\* The turn stops at an approval: the claim stays nonterminal.
TurnAwaitsApproval(t) ==
    /\ At(t, "turn")
    /\ CommitInTurn(t, Event("asked", <<>>, "none"), Leave(task[t], "next"))
    /\ turn' = Nobody
    /\ UNCHANGED <<workerVars, daemon, seen, gate>>

\* The turn ends in an error, with or without an event that says so.
TurnFails(t) ==
    /\ At(t, "turn")
    /\ \/ CommitInTurn(t, Event("failed", <<>>, "none"),
                       [task[t] EXCEPT !.pc = "complete", !.ok = FALSE])
       \/ Over(t, FALSE) /\ UNCHANGED hist
    /\ turn' = Nobody
    /\ UNCHANGED <<workerVars, daemon, seen, gate>>

\* deliver_graph_schedule_trigger: an exact receipt is replayed.
DeliverTrigger(t) ==
    LET x == task[t].cur
        done == [task[t] EXCEPT !.pc = "complete", !.ok = TRUE]
    IN  /\ At(t, "trigger")
        /\ \/ TriggeredAt(x) = {} /\ Commit(t, Event("triggered", x, "none"), done)
           \/ TriggeredAt(x) # {} /\ task' = [task EXCEPT ![t] = done] /\ UNCHANGED hist
           \/ Over(t, FALSE) /\ UNCHANGED hist
        /\ UNCHANGED <<workerVars, daemon, seen, gate, turn>>

CompleteDelivery(t) ==
    /\ At(t, "complete")
    /\ \/ w.pc = "ready" /\ CompleteExecution(task[t].cur, task[t].ok)
       \/ w.pc = "dead" /\ UNCHANGED marker
    /\ task' = [task EXCEPT ![t] = Leave(task[t], "next")]
    /\ UNCHANGED <<now, sched, upserts, claim, w, daemon, hist, seen, gate, turn>>

-----------------------------------------------------------------------------
RecoveryStep ==
    \/ ListPending \/ ListFails
    \/ (\E x \in Occurrences : SortClaim(x))
    \/ Reconcile \/ ReconcileFails \/ CloseReconciled \/ SortDone

TaskStep(t) ==
    \/ (\E x \in Occurrences : NextExecution(t, x))
    \/ BatchDone(t) \/ WakeDeferred(t) \/ FireTurn(t) \/ RefuseTurn(t) \/ ModelResponds(t)
    \/ TurnSucceeds(t) \/ TurnAwaitsApproval(t) \/ TurnFails(t) \/ DeliverTrigger(t) \/ CompleteDelivery(t)

Next ==
    \/ Tick /\ UNCHANGED <<store, w, deliveryVars>>
    \/ WorkerStep /\ UNCHANGED deliveryVars
    \/ StartDaemon \/ CrashDaemon \/ CrashWorker
    \/ (\E kind \in UserOutcomes : UserTurn(kind))
    \/ (\E s \in Schedules : StoreSchedule(s) \/ RemoveSchedule(s))
    \/ Poll \/ Observe \/ ReceiveClaims \/ ReceiveError
    \/ RecoveryStep
    \/ \E t \in Tasks : TaskStep(t)

Spec == Init /\ [][Next]_vars

-----------------------------------------------------------------------------
(***************************************************************************)
(* Correctness                                                             *)
(***************************************************************************)
\* Every variable has the shape the code gives it.
TypeOK ==
    /\ WorkerTypeOK
    /\ daemon \in {"down", "recovering", "serving"}
    /\ Len(hist) <= MaxHistory
    /\ seen \in 0..MaxEvents
    /\ gate \in [Deferred -> {"pending", "resumed"}]
    /\ turn \in Tasks \cup {Nobody}
    /\ \A t \in Tasks : /\ task[t].todo \cup task[t].batch \subseteq Occurrences
                        /\ task[t].ok \in BOOLEAN

\* A claimed occurrence is dispatched at most once, across lost answers, crashes
\* of the daemon and of the worker, schedules stored again, and recovery: an
\* ambiguous claim is "never redispatched" (recover_pending_schedules).
DispatchedOnce ==
    \A x \in Occurrences :
        /\ Cardinality(FiredAt(x)) <= 1
        /\ Cardinality(TriggeredAt(x)) <= 1

\* A claim is marked as succeeded only when the journal shows that it was
\* dispatched (its trigger or its scheduler.fired), or when another claim has
\* resumed its continuation; and a recovery records a success only of a trigger
\* or of a turn whose model response stands in the journal before that record.
SuccessHasEvidence ==
    /\ \A x \in Occurrences : "succeeded" \in marker[x] =>
          \/ TriggeredAt(x) \cup FiredAt(x) # {}
          \/ /\ x[1] \in Deferred
             /\ gate[x[1]] = "resumed"
             /\ \E y \in Occurrences \ {x} : y[1] = x[1] /\ claim[y] = "claimed"
    /\ \A i \in 1..Len(hist) : hist[i].kind = "reconciled" /\ hist[i].outcome = "succeeded" =>
          \/ TriggeredAt(hist[i].x) # {}
          \/ /\ FiredAt(hist[i].x) # {}
             /\ \E j \in Window(hist[i].x) : j < i /\ hist[j].kind = "responded"

\* The recoveries of one claim, over any number of restarts, agree with each
\* other and with the marker: the reconciliation is authoritative.
ReconciliationsAgree ==
    \A i \in 1..Len(hist) : hist[i].kind = "reconciled" =>
        /\ \A j \in 1..Len(hist) : hist[j].kind = "reconciled" /\ hist[j].x = hist[i].x
                                      => hist[j].outcome = hist[i].outcome
        /\ marker[hist[i].x] \subseteq {hist[i].outcome}

\* docs/architecture/scheduling.md:52: "Only the transition winner commits
\* `scheduler.fired' and enters the normal provider/tool policy path", and
\* "repeated claims become successful no-ops rather than re-executing the turn".
DeferredTurnRunsOnce ==
    \A s \in Deferred :
        Cardinality(Positions(LAMBDA e : e.kind = "fired" /\ e.x[1] = s)) <= 1

=============================================================================
