----------------------------- MODULE ChildGraph -----------------------------
(***************************************************************************)
(* Child graphs: a spawn node creates one child session per task, the wait *)
(* node behind it collects their ends and, when it fails, cancels the      *)
(* children that are still running.  The parent's journal holds a record   *)
(* per task, the wait projection and the cancellation outbox; the children *)
(* are sessions of their own with a journal each.                          *)
(*                                                                         *)
(*   apps/runtime/logic/src/child_graph_turn.rs         the coordinator    *)
(*   apps/runtime/logic/src/child_graph_application.rs  what it appends    *)
(*   apps/runtime/logic/src/child_graph_execution.rs    the projection     *)
(*   apps/runtime/logic/src/child_graph_continuation.rs approvals          *)
(*   apps/runtime/logic/src/child_session.rs            child creation     *)
(*   apps/runtime/logic/src/session.rs                  the reducer        *)
(*   apps/runtime/logic/src/turn.rs                     the caller, cancel *)
(*                                                                         *)
(* The nodes are nodes of the root graph: every drive holds the session    *)
(* gate, so the parent's journal has one writer and no append conflicts.   *)
(* The children and cancel_turn run beside it.                             *)
(***************************************************************************)
EXTENDS Integers, FiniteSets

CONSTANTS
    Tasks,      \* task ids; their order is the order of dispatch
    Limits,     \* values of max_concurrent
    MaxFaults   \* bound: daemon crashes and failed creations

ASSUME ChildGraphAssumption ==
    /\ IsFiniteSet(Tasks) /\ Tasks \subseteq Nat /\ Tasks # {}
    /\ Limits \subseteq Nat \ {0} /\ Limits # {}
    /\ MaxFaults \in Nat

VARIABLES
    style,    \* the bound style: max_concurrent, minimum_successes, cancellation
    node,     \* active node of the parent, "done" and "failed" behind them
    rec,      \* ChildAgentRecord of each task
    gate,     \* approval continuation of each creation
    wait,     \* the committed ChildWaitProjected
    timer,    \* continuation of the wait node
    late,     \* the wait node's timeout has passed
    canc,     \* GenericChildCancellationRecord of the committed projection
    cgate,    \* approval continuation of the cancellation
    child,    \* lifecycle of each child session
    born,     \* child sessions created for each task
    drv,      \* the drive that holds the session gate
    faults

parent == <<node, rec, wait, canc>>
store == <<gate, cgate, timer>>
children == <<child, born>>
vars == <<style, parent, store, late, children, drv, faults>>

Gates == {"none", "pending", "resumed", "cancelled"}
Ended == {"completed", "failed", "cancelled"}
First(S) == CHOOSE t \in S : \A x \in S : t <= x
FirstFew(S, n) == {t \in S : Cardinality({x \in S : x < t}) < n}
With(state) == {t \in Tasks : rec[t] = state}

NoWait == [disp |-> "none", code |-> "none", kids |-> {}]
Off == [pc |-> "idle", todo |-> {}, ok |-> {}, fresh |-> {}, saw |-> <<>>,
        proj |-> NoWait, ret |-> "none"]

Init ==
    /\ style \in [limit : Limits, minimum : 1..Cardinality(Tasks),
                  cancellation : {"wait", "cascade", "detach"}]
    /\ node = "spawn"
    /\ rec = [t \in Tasks |-> "none"]
    /\ gate = [t \in Tasks |-> "none"]
    /\ wait = NoWait
    /\ timer = "none"
    /\ late = FALSE
    /\ canc = "none"
    /\ cgate = "none"
    /\ child = [t \in Tasks |-> "none"]
    /\ born = [t \in Tasks |-> 0]
    /\ drv = Off
    /\ faults = 0

\* The drive goes on at pc, or ends with a ChildGraphTurnResult.
Goto(pc, todo) == drv' = [drv EXCEPT !.pc = pc, !.todo = todo]
End(ret) == drv' = [drv EXCEPT !.pc = "return", !.todo = {}, !.ret = ret]

-----------------------------------------------------------------------------
(***************************************************************************)
(* Spawn: propose, authorize, approve, dispatch, create, record            *)
(***************************************************************************)
\* Mutant: one slot too many.
OneSlotMore(occupied) == 1 + style.limit - Cardinality({t \in Tasks : rec[t] \in occupied})

\* Free places for approvals or dispatches.
AvailableSlots(occupied) == style.limit - Cardinality({t \in Tasks : rec[t] \in occupied})

Authorizable == FirstFew(With("proposed"), AvailableSlots({"approved", "dispatched", "active"}))
Dispatchable == FirstFew(With("approved"), AvailableSlots({"dispatched", "active"}))

\* One GenericChildCreationProposed for each task without a record.
Propose ==
    /\ drv.pc = "propose"
    /\ IF With("none") # {}
       THEN /\ rec' = [rec EXCEPT ![First(With("none"))] = "proposed"]
            /\ UNCHANGED drv
       ELSE /\ Goto("authorize", Authorizable)
            /\ UNCHANGED rec
    /\ UNCHANGED <<style, node, wait, canc, store, late, children, faults>>

\* apply_or_recover: what the policy and the continuation g may answer.
Verdicts(g) ==
    CASE g = "none"      -> {"applied", "ask", "denied"}
      [] g = "pending"   -> {"waiting"}
      [] g = "resumed"   -> {"applied", "denied"}
      [] g = "cancelled" -> {"denied"}

\* authorize_creation for the next task; approvals are recorded when all are in.
AuthorizeCreation ==
    /\ drv.pc = "authorize" /\ drv.todo # {}
    /\ LET t == First(drv.todo) IN
       \E v \in Verdicts(gate[t]) :
          /\ gate' = IF v = "ask" THEN [gate EXCEPT ![t] = "pending"] ELSE gate
          /\ CASE v = "applied" -> drv' = [drv EXCEPT !.todo = @ \ {t}, !.ok = @ \cup {t}]
               [] v \in {"ask", "waiting"} -> End("approval")
               [] v = "denied" -> End("denied")
    /\ UNCHANGED <<style, parent, cgate, timer, late, children, faults>>

\* One GenericChildCreationApproved for each authorized task.
Approve ==
    /\ drv.pc = "authorize" /\ drv.todo = {}
    /\ IF drv.ok # {}
       THEN /\ rec' = [rec EXCEPT ![First(drv.ok)] = "approved"]
            /\ drv' = [drv EXCEPT !.ok = @ \ {First(drv.ok)}]
       ELSE /\ Goto("dispatch", Dispatchable)
            /\ UNCHANGED rec
    /\ UNCHANGED <<style, node, wait, canc, store, late, children, faults>>

\* One GenericChildCreationDispatched for each task that fits.
Dispatch ==
    /\ drv.pc = "dispatch"
    /\ IF drv.todo # {}
       THEN LET t == First(drv.todo) IN
            /\ rec' = [rec EXCEPT ![t] = "dispatched"]
            /\ drv' = [drv EXCEPT !.todo = @ \ {t}, !.fresh = @ \cup {t}]
       ELSE /\ Goto("create", With("dispatched"))
            /\ UNCHANGED rec
    /\ UNCHANGED <<style, node, wait, canc, store, late, children, faults>>

\* Mutant: a dispatch found in the journal is carried out again.
MakeAgain(t) ==
    /\ t \notin drv.fresh
    /\ drv' = [drv EXCEPT !.todo = @ \ {t}, !.ok = @ \cup {t}]
    /\ born' = [born EXCEPT ![t] = @ + 1]
    /\ child' = [child EXCEPT ![t] = "active"]
    /\ UNCHANGED faults

\* create_after_dispatch: a child session, or an error that ends the drive.
Make(t) ==
    \/ /\ t \in drv.fresh
       /\ drv' = [drv EXCEPT !.todo = @ \ {t}, !.ok = @ \cup {t}]
       /\ born' = [born EXCEPT ![t] = IF @ = 0 THEN 1 ELSE @]
       /\ child' = [child EXCEPT ![t] = IF @ = "none" THEN "active" ELSE @]
       /\ UNCHANGED faults
    \/ /\ t \in drv.fresh
       /\ faults < MaxFaults
       /\ faults' = faults + 1
       /\ End("error")
       /\ UNCHANGED children

\* reconcile_creation: the catalog decides about a dispatch found in the journal.
ReconcileCreation(t) ==
    /\ t \notin drv.fresh
    /\ CASE born[t] = 0 -> End("waiting")
         [] born[t] = 1 -> drv' = [drv EXCEPT !.todo = @ \ {t}, !.ok = @ \cup {t}]
         [] OTHER       -> End("ambiguous")
    /\ UNCHANGED <<children, faults>>

CreateChild ==
    /\ drv.pc = "create" /\ drv.todo # {}
    /\ \/ Make(First(drv.todo))
       \/ ReconcileCreation(First(drv.todo))
    /\ UNCHANGED <<style, parent, store, late>>

\* One GenericChildCreated for each receipt; then the node is judged.
RecordCreated ==
    /\ drv.pc = "create" /\ drv.todo = {}
    /\ IF drv.ok # {}
       THEN /\ rec' = [rec EXCEPT ![First(drv.ok)] = "active"]
            /\ drv' = [drv EXCEPT !.ok = @ \ {First(drv.ok)}]
       ELSE /\ End(IF \A t \in Tasks : rec[t] \in {"active"} \cup Ended
                   THEN "applied" ELSE "waiting")
            /\ UNCHANGED rec
    /\ UNCHANGED <<style, node, wait, canc, store, late, children, faults>>

-----------------------------------------------------------------------------
(***************************************************************************)
(* Wait: observe the children, commit the projection, run the outbox       *)
(***************************************************************************)
Failure(code, kids) == [disp |-> "failed", code |-> code, kids |-> kids]

\* Mutant: nobody notices that too many children failed.
ProjectionPatient(cancelled) ==
    IF cancelled /\ style.cancellation # "wait"
    THEN Failure("parent_cancelled", IF style.cancellation = "cascade" THEN With("active") ELSE {})
    ELSE IF Cardinality(With("completed")) >= style.minimum
    THEN [disp |-> "completed", code |-> "none", kids |-> With("completed")]
    ELSE IF late THEN Failure("child_wait_timeout", With("active"))
    ELSE [disp |-> "waiting", code |-> "none", kids |-> With("active")]

\* coordinate_wait over the canonical records: kids are the successful, the
\* pending or the children to cancel.
Projection(cancelled) ==
    LET won == With("completed")
        pending == With("active")
    IN  IF cancelled /\ style.cancellation # "wait"
        THEN Failure("parent_cancelled", IF style.cancellation = "cascade" THEN pending ELSE {})
        ELSE IF Cardinality(won) >= style.minimum
        THEN [disp |-> "completed", code |-> "none", kids |-> won]
        ELSE IF late THEN Failure("child_wait_timeout", pending)
        ELSE IF Cardinality(won) + Cardinality(pending) < style.minimum
        THEN Failure("minimum_success_impossible", pending)
        ELSE [disp |-> "waiting", code |-> "none", kids |-> pending]

\* child_wait_runtime: a pending continuation is resumed by a recorded end,
\* or expires.
TimerNow ==
    IF timer # "pending" THEN timer
    ELSE IF \E t \in Tasks : rec[t] \in Ended THEN "resumed"
    ELSE IF late THEN "expired"
    ELSE "pending"

\* A drive of the active node: run_turn, or an approval that was answered.
Drive ==
    /\ drv.pc = "idle"
    /\ \/ /\ node = "spawn"
          /\ drv' = [Off EXCEPT !.pc = "propose"]
          /\ UNCHANGED timer
       \/ /\ node = "wait"
          /\ timer' = TimerNow
          /\ LET p == Projection(TimerNow = "cancelled") IN
             drv' = [Off EXCEPT !.pc = "observe", !.proj = p,
                                !.todo = IF p.disp = "completed" THEN {} ELSE p.kids]
    /\ UNCHANGED <<style, parent, gate, cgate, late, children, faults>>

\* observe_terminal on the next child that is active in the parent.
Observe ==
    /\ drv.pc = "observe" /\ drv.todo # {}
    /\ LET t == First(drv.todo) IN
       drv' = [drv EXCEPT !.todo = @ \ {t},
                          !.saw = IF child[t] \in Ended
                                  THEN [x \in DOMAIN @ \cup {t} |-> IF x = t THEN child[t] ELSE @[x]]
                                  ELSE @]
    /\ UNCHANGED <<style, parent, store, late, children, faults>>

\* One GenericChildTerminal for each end observed; the drive then waits.
RecordTerminal ==
    /\ drv.pc = "observe" /\ drv.todo = {} /\ drv.saw # <<>>
    /\ LET news == {t \in DOMAIN drv.saw : rec[t] = "active"} IN
       IF news # {}
       THEN /\ rec' = [rec EXCEPT ![First(news)] = drv.saw[First(news)]]
            /\ UNCHANGED drv
       ELSE /\ End("waiting")
            /\ UNCHANGED rec
    /\ UNCHANGED <<style, node, wait, canc, store, late, children, faults>>

\* ChildWaitProjected: a committed terminal projection is never replaced, and
\* a drive that computes another one fails.
Project ==
    /\ drv.pc = "observe" /\ drv.todo = {} /\ drv.saw = <<>>
    /\ \/ /\ wait.disp \in {"none", "waiting"} \/ wait = drv.proj
          /\ wait' = drv.proj
          /\ CASE drv.proj.disp = "waiting"   -> End("waiting")
               [] drv.proj.disp = "completed" -> End("applied")
               [] drv.proj.disp = "failed" /\ drv.proj.kids = {} -> End("failed")
               [] OTHER -> Goto("outbox", {})
       \/ /\ wait.disp \notin {"none", "waiting"} /\ wait # drv.proj
          /\ End("error")
          /\ UNCHANGED wait
    /\ UNCHANGED <<style, node, rec, canc, store, late, children, faults>>

\* GenericChildCancellationRequested
RequestCancellation ==
    /\ drv.pc = "outbox" /\ canc = "none"
    /\ canc' = "requested"
    /\ UNCHANGED <<style, node, rec, wait, store, late, children, drv, faults>>

\* authorize_cancellation: the policy, then GenericChildCancellationAuthorized.
AuthorizeCancellation ==
    /\ drv.pc = "outbox" /\ canc = "requested"
    /\ \E v \in Verdicts(cgate) :
          /\ cgate' = IF v = "ask" THEN "pending" ELSE cgate
          /\ canc' = IF v = "applied" THEN "authorized" ELSE canc
          /\ CASE v = "applied" -> UNCHANGED drv
               [] v \in {"ask", "waiting"} -> End("approval")
               [] v = "denied" -> End("denied")
    /\ UNCHANGED <<style, node, rec, wait, gate, timer, late, children, faults>>

\* GenericChildCancellationDispatched; only this drive may carry it out.
DispatchCancellation ==
    /\ drv.pc = "outbox" /\ canc = "authorized"
    /\ canc' = "dispatched"
    /\ Goto("cancel", wait.kids)
    /\ UNCHANGED <<style, node, rec, wait, store, late, children, faults>>

\* recover_cancellation for a record that is dispatched or terminal.  No drive
\* meets a completed one: it observes the cancelled children first.
RecoverCancellation ==
    /\ drv.pc = "outbox"
    /\ canc \in {"dispatched", "completed", "ambiguous"}
    /\ CASE canc = "dispatched" -> Goto("reconcile", {})
         [] canc = "completed"  -> End("failed")
         [] canc = "ambiguous"  -> End("ambiguous")
    /\ UNCHANGED <<style, parent, store, late, children, faults>>

\* Mutant: the cancellation is appended whatever the child did meanwhile.
CancelBlindly(t) ==
    /\ child' = [child EXCEPT ![t] = "cancelled"]
    /\ Goto("cancel", drv.todo \ {t})
    /\ UNCHANGED canc

\* append_child_cancelled at the head that was loaded: the child is active and
\* cancelled, or it ended or appended something and the outcome is ambiguous.
CancelOne(t) ==
    \/ /\ child[t] = "active"
       /\ child' = [child EXCEPT ![t] = "cancelled"]
       /\ Goto("cancel", drv.todo \ {t})
       /\ UNCHANGED canc
    \/ /\ canc' = "ambiguous"
       /\ End("ambiguous")
       /\ UNCHANGED child

CancelChild ==
    /\ drv.pc = "cancel" /\ drv.todo # {}
    /\ CancelOne(First(drv.todo))
    /\ UNCHANGED <<style, node, rec, wait, store, late, born, faults>>

\* Mutant: one cancelled child is receipt enough.
ReceiptPartial == \E t \in wait.kids : child[t] = "cancelled"

\* reconcile_cancellation: every named child is owned, active and cancelled.
ReceiptComplete == \A t \in wait.kids : child[t] = "cancelled" /\ rec[t] = "active"

ConcludeCancellation ==
    /\ drv.pc \in {"reconcile", "cancel"} /\ drv.todo = {}
    /\ canc' = IF ReceiptComplete THEN "completed" ELSE "ambiguous"
    /\ End(IF ReceiptComplete THEN "failed" ELSE "ambiguous")
    /\ UNCHANGED <<style, node, rec, wait, store, late, children, faults>>

\* The caller: the next node, a failed session, or a wait for the next drive.
Return ==
    /\ drv.pc = "return"
    /\ node' = CASE drv.ret = "applied" /\ node = "spawn" -> "wait"
                 [] drv.ret = "applied" /\ node = "wait"  -> "done"
                 [] drv.ret \in {"denied", "ambiguous", "failed"} -> "failed"
                 [] OTHER -> node
    /\ timer' = IF drv.ret = "waiting" /\ node = "wait" /\ timer = "none"
                THEN "pending" ELSE timer
    /\ drv' = Off
    /\ UNCHANGED <<style, rec, wait, canc, gate, cgate, late, children, faults>>

-----------------------------------------------------------------------------
(***************************************************************************)
(* The surroundings                                                        *)
(***************************************************************************)
\* Mutant: the answer is stored instead of the continuation's state.
AnswerStored(g) == IF g = "pending" THEN {"resumed", "denied"} ELSE {}

\* resolve_turn_approval under the session gate.
Answers(g) == IF g = "pending" THEN {"resumed", "cancelled"} ELSE {}

DecideCreation(t) ==
    /\ drv.pc = "idle" /\ node = "spawn"
    /\ \E a \in Answers(gate[t]) : gate' = [gate EXCEPT ![t] = a]
    /\ UNCHANGED <<style, parent, cgate, timer, late, children, drv, faults>>

DecideCancellation ==
    /\ drv.pc = "idle" /\ node = "wait"
    /\ \E a \in Answers(cgate) : cgate' = a
    /\ UNCHANGED <<style, parent, gate, timer, late, children, drv, faults>>

\* cancel_turn on a waiting parent only cancels the wait's continuation; it
\* takes no gate, and any other state of the continuation is an error.
CancelTurn ==
    /\ node = "wait" /\ timer = "pending"
    /\ timer' = "cancelled"
    /\ UNCHANGED <<style, parent, gate, cgate, late, children, drv, faults>>

Timeout ==
    /\ node = "wait" /\ timer # "none" /\ ~late
    /\ late' = TRUE
    /\ UNCHANGED <<style, parent, store, children, drv, faults>>

\* A child session ends by itself.
ChildEnds(t) ==
    /\ child[t] = "active"
    /\ \E e \in Ended : child' = [child EXCEPT ![t] = e]
    /\ UNCHANGED <<style, parent, store, late, born, drv, faults>>

\* The daemon stops: journals, continuations and children stay.
Crash ==
    /\ drv.pc # "idle" /\ faults < MaxFaults
    /\ faults' = faults + 1
    /\ drv' = Off
    /\ UNCHANGED <<style, parent, store, late, children>>

SpawnStep == Propose \/ AuthorizeCreation \/ Approve \/ Dispatch \/ CreateChild \/ RecordCreated
WaitStep == Observe \/ RecordTerminal \/ Project \/ RequestCancellation
            \/ AuthorizeCancellation \/ DispatchCancellation \/ RecoverCancellation
            \/ CancelChild \/ ConcludeCancellation
CoordinatorStep == SpawnStep \/ WaitStep \/ Return

Next ==
    \/ Drive
    \/ CoordinatorStep
    \/ \E t \in Tasks : DecideCreation(t) \/ ChildEnds(t)
    \/ DecideCancellation
    \/ CancelTurn
    \/ Timeout
    \/ Crash

Spec == Init /\ [][Next]_vars

(***************************************************************************)
(* A coordinator that started goes on.  The rest is the caller's part: the *)
(* turn is driven again, children end, and questions are answered; an      *)
(* answer queues for the session gate, a mutex that serves in order, so    *)
(* that it gets its turn between the drives.                               *)
(***************************************************************************)
FairSpec ==
    /\ Spec
    /\ WF_vars(CoordinatorStep)
    /\ WF_vars(Drive)
    /\ SF_vars(DecideCancellation)
    /\ \A t \in Tasks : SF_vars(DecideCreation(t)) /\ WF_vars(ChildEnds(t))

-----------------------------------------------------------------------------
(***************************************************************************)
(* Properties                                                              *)
(***************************************************************************)
\* The records of the parent's journal, the continuations, the children and
\* the drive hold values of the enumerations in session.rs and
\* child_graph_turn.rs, and the drive works on tasks of the node.
TypeOK ==
    /\ style \in [limit : Limits, minimum : 1..Cardinality(Tasks),
                  cancellation : {"wait", "cascade", "detach"}]
    /\ node \in {"spawn", "wait", "done", "failed"}
    /\ rec \in [Tasks -> {"none", "proposed", "approved", "dispatched", "active"} \cup Ended]
    /\ gate \in [Tasks -> Gates]
    /\ wait \in [disp : {"none", "waiting", "completed", "failed"},
                 code : {"none", "parent_cancelled", "child_wait_timeout",
                         "minimum_success_impossible"},
                 kids : SUBSET Tasks]
    /\ timer \in Gates \cup {"expired"}
    /\ late \in BOOLEAN
    /\ canc \in {"none", "requested", "authorized", "dispatched", "completed", "ambiguous"}
    /\ cgate \in Gates
    /\ child \in [Tasks -> {"none", "active"} \cup Ended]
    /\ born \in [Tasks -> Nat]
    /\ drv.pc \in {"idle", "propose", "authorize", "dispatch", "create", "observe", "outbox",
                   "cancel", "reconcile", "return"}
    /\ drv.todo \subseteq Tasks /\ drv.ok \subseteq Tasks /\ drv.fresh \subseteq Tasks
    /\ faults \in 0..MaxFaults

\* A task has at most one child session, and one only behind its journalled
\* dispatch and never against an approval that was asked for, whatever crashes
\* and retries happen between proposal and receipt
\* (docs/architecture/generic-child-graph-turn.md:45).
OneSessionPerTask ==
    \A t \in Tasks :
        /\ born[t] <= 1
        /\ born[t] = 1 => /\ rec[t] \in {"dispatched", "active"} \cup Ended
                          /\ gate[t] \in {"none", "resumed"}

\* max_concurrent bounds the children dispatched or running, over all drives.
InFlightBounded ==
    Cardinality({t \in Tasks : rec[t] \in {"dispatched", "active"}}) <= style.limit

\* What the parent concludes about its children is true of them: a recorded
\* end is the child's end, a completed wait has its successes, a completed
\* cancellation cancelled every child it names.
VerdictsTrue ==
    /\ \A t \in Tasks : rec[t] \in Ended => child[t] = rec[t]
    /\ wait.disp = "completed" =>
           Cardinality({t \in Tasks : child[t] = "completed"}) >= style.minimum
    /\ node = "done" => wait.disp = "completed"
    /\ canc = "completed" => \A t \in wait.kids : child[t] = "cancelled"

\* A child that ended is never ended again: a cancellation that races the
\* child's own end loses (compare-append at the loaded head).
ChildEndsOnce ==
    [][\A t \in Tasks : child[t] \in Ended => child'[t] = child[t]]_child

\* Without faults, with room for all children, and while no cancellation asks
\* for approval, the parent leaves the wait node.
Settles ==
    [](faults = 0 /\ cgate = "none" /\ style.limit >= Cardinality(Tasks))
        => <>(node \in {"done", "failed"})

\* The outbox of docs/architecture/generic-child-graph-turn.md: a dispatched
\* cancellation becomes completed or ambiguous, also after a restart.
DispatchedCancellationConcludes ==
    canc = "dispatched" ~> canc \in {"completed", "ambiguous"}
=============================================================================
