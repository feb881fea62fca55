------------------------------ MODULE Parallel ------------------------------
(***************************************************************************)
(* Parallel branches: one fan-out of a graph, from the entered parallel    *)
(* node to the node behind its join.  All progress is in the session       *)
(* journal; a coordinator plans the next event from a load, loads again,   *)
(* lets the reducer judge the event and appends it if nobody appended      *)
(* since.  Two coordinators may drive the same fan-out:                    *)
(*                                                                         *)
(*   live       run_turn or a resumed approval, under the session gate     *)
(*   canceller  cancel_turn, which takes no gate                           *)
(*                                                                         *)
(*   apps/runtime/logic/src/parallel_turn.rs      the coordinator          *)
(*   apps/runtime/logic/src/parallel_driver.rs    what it plans            *)
(*   apps/runtime/logic/src/parallel_execution.rs dispatch and join rules  *)
(*   apps/runtime/logic/src/session.rs            the reducer              *)
(*   apps/runtime/logic/src/turn.rs               the effect port, cancel  *)
(*                                                                         *)
(* A branch is a chain of nodes.  An effect keeps a record of its own in   *)
(* the journal (tool execution, graph schedule, approval), here its        *)
(* receipt.  Every branch writes the shared variable at its first node.    *)
(***************************************************************************)
EXTENDS Integers, FiniteSets, Sequences

CONSTANTS
    Region,         \* the node kinds of each branch, in branch_index order
    MaxParallelism, \* max_parallelism of the parallel node
    MaxSteps,       \* step budget of the graph
    Required,       \* required members of the join
    MinSuccesses,   \* minimum_successes of the join
    FailurePolicy,  \* failure_policy of the join
    MaxCrashes,     \* bound: daemon crashes
    MaxCancels      \* bound: cancel requests

Branches == DOMAIN Region
Works == UNION {{b} \X DOMAIN Region[b] : b \in Branches}
Kinds == {"pure", "fail", "tool", "schedule", "approval"}
Coordinators == {"live", "canceller"}

ASSUME ParallelAssumption ==
    /\ Region \in Seq(Seq(Kinds)) /\ Region # <<>>
    /\ \A b \in DOMAIN Region : Region[b] # <<>>
    /\ MaxParallelism \in Nat \ {0}
    /\ MaxSteps \in Nat \ {0}
    /\ Required \subseteq DOMAIN Region
    /\ MinSuccesses \in 1..Len(Region)
    /\ FailurePolicy \in {"fail_fast", "wait_required", "minimum_success"}
    /\ MaxCrashes \in Nat
    /\ MaxCancels \in Nat

VARIABLES
    root,     \* StyleExecutionControlState, from the parallel node to the next
    fan,      \* CanonicalParallelExecutionState
    join,     \* GenericJoinLifecycleState, "none" before it is initialized
    merged,   \* branches in the committed merge of the shared variable
    receipt,  \* the effect's own record for each node
    world,    \* how often the effect of a node took place
    drv,      \* the coordinators
    crashes, cancels

journal == <<root, fan, join, merged, receipt>>
vars == <<journal, world, drv, crashes, cancels>>

\* First member in stable dispatch order.
First(S) == CHOOSE b \in S : \A x \in S : b <= x

-----------------------------------------------------------------------------
(***************************************************************************)
(* Canonical state                                                         *)
(***************************************************************************)
NoFan ==
    [began  |-> FALSE,
     ctl    |-> [b \in Branches |-> "queued"],   \* ParallelBranchControlState
     exec   |-> [b \in Branches |-> "queued"],   \* ParallelBranchState
     node   |-> [b \in Branches |-> 1],          \* node of the control state
     step   |-> [b \in Branches |-> 0],          \* its globally serialized step
     effect |-> [b \in Branches |-> "none"],     \* outbox record of the node
     order  |-> [b \in Branches |-> 0],          \* completion_sequence
     gave   |-> {},                              \* variable_contributions
     last   |-> 1,                               \* last_allocated_step
     cancel |-> "none",                          \* none, requested, completed
     asked  |-> {}]                              \* branches named by the request

NoEvent == [t |-> "none", b |-> 1, node |-> 0, step |-> 0, out |-> "none", ids |-> {}]
Event(t) == [NoEvent EXCEPT !.t = t]
BranchEvent(t, b) == [NoEvent EXCEPT !.t = t, !.b = b, !.node = fan.node[b], !.step = fan.step[b]]

Off == [pc |-> "idle", code |-> FALSE, ev |-> NoEvent, fresh |-> FALSE, back |-> "plan",
        todo |-> {}, seen |-> [b \in Branches |-> 0], moved |-> FALSE, waits |-> FALSE,
        ret |-> "none"]

Init ==
    /\ root = "active"
    /\ fan = NoFan
    /\ join = "none"
    /\ merged = {}
    /\ receipt = [w \in Works |-> "none"]
    /\ world = [w \in Works |-> 0]
    /\ drv = [c \in Coordinators |-> Off]
    /\ crashes = 0
    /\ cancels = 0

KindOf(b) == IF fan.node[b] \in DOMAIN Region[b] THEN Region[b][fan.node[b]] ELSE "join"
WorkOf(b) == <<b, fan.node[b]>>
IsEffect(k) == k \in {"tool", "schedule", "approval"}

Incomplete == {b \in Branches : fan.exec[b] \in {"queued", "dispatched", "running"}}
Completed == {b \in Branches : fan.exec[b] = "completed"}
AllTerminal == \A b \in Branches : fan.ctl[b] = "terminal"

\* dispatch_decision: queued branches in order, up to the free capacity.
ReadyToDispatch ==
    LET queued == {b \in Branches : fan.exec[b] = "queued"}
        busy   == {b \in Branches : fan.exec[b] \in {"dispatched", "running"}}
    IN  {b \in queued :
            Cardinality({q \in queued : q < b}) < MaxParallelism - Cardinality(busy)}

\* next_completion_sequence
NextCompletion == 1 + Cardinality(Completed)

\* evaluate_join over the decisions on the branches, without a timeout.
Decisions == [b \in Branches |-> IF b \in Incomplete THEN "pending" ELSE fan.exec[b]]

JoinDecision(d) ==
    LET won      == Cardinality({b \in Branches : d[b] = "completed"})
        missing  == Cardinality({b \in Branches : d[b] = "pending"})
        lost     == \E b \in Required : d[b] \in {"failed", "cancelled"}
        decided  == \A b \in Required : d[b] # "pending"
        failed   == \/ FailurePolicy = "fail_fast" /\ lost
                    \/ FailurePolicy # "wait_required" /\ won + missing < MinSuccesses
                    \/ FailurePolicy = "wait_required" /\ decided /\ won < MinSuccesses
        ready    == won >= MinSuccesses /\ (FailurePolicy = "minimum_success" \/ decided)
    IN  IF failed THEN "failed" ELSE IF ready THEN "ready" ELSE "waiting"

-----------------------------------------------------------------------------
(***************************************************************************)
(* The reducer: which events it accepts, and what they change.             *)
(***************************************************************************)
Uncancelled == fan.cancel = "none"
ActiveAt(e) == fan.ctl[e.b] = "active" /\ fan.step[e.b] = e.step

AcceptsDispatched(e) == Uncancelled /\ e.b \in ReadyToDispatch /\ fan.ctl[e.b] = "queued"
AcceptsStarted(e) == Uncancelled /\ fan.ctl[e.b] = "dispatched" /\ e.step = fan.last + 1
AcceptsEntered(e) ==
    /\ Uncancelled
    /\ fan.ctl[e.b] \in {"ready", "awaiting_destination"}
    /\ e.node = fan.node[e.b] /\ e.node \in DOMAIN Region[e.b]
    /\ e.step = fan.step[e.b]
AcceptsEffectDispatched(e) == Uncancelled /\ ActiveAt(e) /\ fan.effect[e.b] = "none"
AcceptsOutcome(e) ==
    /\ Uncancelled \/ (e.b \in fan.asked /\ e.out # "waiting")
    /\ ActiveAt(e)
    /\ fan.effect[e.b] \in {"dispatched", "waiting"}
    /\ e.out # fan.effect[e.b]
AcceptsContribution(e) == Uncancelled /\ ActiveAt(e) /\ e.b \notin fan.gave
AcceptsNodeCompleted(e) ==
    /\ Uncancelled
    /\ ActiveAt(e)
    /\ IsEffect(KindOf(e.b)) => fan.effect[e.b] = "completed"
AcceptsNodeFailed(e) ==
    /\ Uncancelled
    /\ ActiveAt(e)
    /\ IsEffect(KindOf(e.b)) => fan.effect[e.b] \in {"failed", "ambiguous"}
AcceptsTransition(e) ==
    /\ Uncancelled
    /\ fan.ctl[e.b] = "awaiting_transition"
    /\ e.node = fan.node[e.b] + 1
    /\ e.step = fan.last + 1
AcceptsTerminated(e) ==
    /\ Uncancelled
    /\ fan.exec[e.b] = "running"
    /\ \/ e.out = "completed" /\ fan.ctl[e.b] = "awaiting_destination" /\ KindOf(e.b) = "join"
       \/ e.out = "failed" /\ fan.ctl[e.b] = "awaiting_failure"
AcceptsCancellation(e, from) == fan.cancel = from /\ e.ids = Incomplete

\* generic_parallel_root_effect_evidence_complete
AcceptsRootCompleted == root = "active" /\ fan.began /\ Uncancelled /\ AllTerminal

Accepts(e) ==
    CASE e.t = "initialized"       -> root = "active" /\ ~fan.began
      [] e.t = "dispatched"        -> AcceptsDispatched(e)
      [] e.t = "started"           -> AcceptsStarted(e)
      [] e.t = "entered"           -> AcceptsEntered(e)
      [] e.t = "effect_dispatched" -> AcceptsEffectDispatched(e)
      [] e.t = "outcome"           -> AcceptsOutcome(e)
      [] e.t = "contributed"       -> AcceptsContribution(e)
      [] e.t = "node_completed"    -> AcceptsNodeCompleted(e)
      [] e.t = "node_failed"       -> AcceptsNodeFailed(e)
      [] e.t = "transition"        -> AcceptsTransition(e)
      [] e.t = "terminated"        -> AcceptsTerminated(e)
      [] e.t = "cancel_requested"  -> AcceptsCancellation(e, "none")
      [] e.t = "cancel_completed"  -> AcceptsCancellation(e, "requested")
      [] e.t = "root_completed"    -> AcceptsRootCompleted
      [] e.t = "join_selected"     -> root = "completed"
      [] e.t = "join_entered"      -> root = "selected"
      [] e.t = "join_initialized"  -> root = "join" /\ join = "none"
      [] e.t = "join_decided"      -> join = "waiting" /\ e.out = JoinDecision(Decisions)
      [] e.t = "merged"            -> root = "join" /\ join = "ready"
      [] e.t = "join_completed"    -> root = "join" /\ join = "ready"
      [] e.t = "next_selected"     -> root = "join_completed"
      [] e.t = "next_entered"      -> root = "next_selected"
      [] e.t = "root_failed"       -> root \in {"active", "join"}

\* Mutant: the allocator keeps its value.
AllocatedNothing(e) == fan.last

\* last_allocated_step after a branch took its step.
Allocated(e) == e.step

\* apply_parallel_branch_*: the branch's control state, the pure engine's
\* record of it, and the step allocator.
ReduceFan(e) ==
    CASE e.t = "initialized" -> [fan EXCEPT !.began = TRUE]
      [] e.t = "dispatched" ->
            [fan EXCEPT !.ctl[e.b] = "dispatched", !.exec[e.b] = "dispatched"]
      [] e.t = "started" ->
            [fan EXCEPT !.ctl[e.b] = "ready", !.exec[e.b] = "running",
                        !.step[e.b] = e.step, !.last = Allocated(e)]
      [] e.t = "entered" -> [fan EXCEPT !.ctl[e.b] = "active", !.effect[e.b] = "none"]
      [] e.t = "effect_dispatched" -> [fan EXCEPT !.effect[e.b] = "dispatched"]
      [] e.t = "outcome" -> [fan EXCEPT !.effect[e.b] = e.out]
      [] e.t = "contributed" -> [fan EXCEPT !.gave = @ \cup {e.b}]
      [] e.t = "node_completed" -> [fan EXCEPT !.ctl[e.b] = "awaiting_transition"]
      [] e.t = "node_failed" -> [fan EXCEPT !.ctl[e.b] = "awaiting_failure"]
      [] e.t = "transition" ->
            [fan EXCEPT !.ctl[e.b] = "awaiting_destination", !.node[e.b] = e.node,
                        !.step[e.b] = e.step, !.last = Allocated(e)]
      [] e.t = "terminated" ->
            [fan EXCEPT !.ctl[e.b] = "terminal", !.exec[e.b] = e.out,
                        !.order[e.b] = IF e.out = "completed" THEN NextCompletion ELSE 0]
      [] e.t = "cancel_requested" -> [fan EXCEPT !.cancel = "requested", !.asked = e.ids]
      [] e.t = "cancel_completed" ->
            [fan EXCEPT !.cancel = "completed",
                        !.ctl  = [b \in Branches |-> IF b \in e.ids THEN "terminal" ELSE @[b]],
                        !.exec = [b \in Branches |-> IF b \in e.ids THEN "cancelled" ELSE @[b]]]
      [] OTHER -> fan

ReduceRoot(e) ==
    CASE e.t = "root_completed" -> "completed"
      [] e.t = "join_selected"  -> "selected"
      [] e.t = "join_entered"   -> "join"
      [] e.t = "join_completed" -> "join_completed"
      [] e.t = "next_selected"  -> "next_selected"
      [] e.t = "next_entered"   -> "advanced"
      [] e.t = "root_failed"    -> "failed"
      [] OTHER -> root

ReduceJoin(e) ==
    CASE e.t = "join_initialized" -> "waiting"
      [] e.t = "join_decided" -> e.out
      [] OTHER -> join

\* Mutant: every contribution is merged.
ReduceMergedAll(e) == IF e.t = "merged" THEN fan.gave ELSE merged

\* ready_join_merges: the contributions of the successful members only.
ReduceMerged(e) == IF e.t = "merged" THEN Completed \cap fan.gave ELSE merged

-----------------------------------------------------------------------------
(***************************************************************************)
(* The coordinator                                                         *)
(***************************************************************************)
At(c, p) == drv[c].pc = p
Set(c, d) == drv' = [drv EXCEPT ![c] = d]

\* An append by c makes every other position stale.
SetCommitted(c, d) ==
    drv' = [x \in Coordinators |-> IF x = c THEN d ELSE [drv[x] EXCEPT !.fresh = FALSE]]

Returned(c, ret) == [Off EXCEPT !.ret = ret]
Return(c, ret) == Set(c, Returned(c, ret))

\* Planned for a commit on the head that was just loaded.
Propose(c, e) == Set(c, [drv[c] EXCEPT !.pc = "append", !.ev = e, !.fresh = TRUE, !.back = "plan"])
\* Planned for a commit on a head that is loaded afterwards.
ProposeLater(c, e) == Set(c, [drv[c] EXCEPT !.pc = "load", !.ev = e, !.back = "plan"])

OnlyDriver == UNCHANGED <<journal, world, crashes, cancels>>

\* recover_outer_control and drive_bound_join, past the fan-out itself.
OuterEvent ==
    CASE root = "completed"      -> Event("join_selected")
      [] root = "selected"       -> Event("join_entered")
      [] root = "join_completed" -> Event("next_selected")
      [] root = "next_selected"  -> Event("next_entered")

\* The destination of the root and of the join each need one more step.
OuterBudget ==
    /\ root = "selected" => fan.last + 1 <= MaxSteps
    /\ root = "next_selected" => fan.last + 2 <= MaxSteps

PlanOuter(c) ==
    /\ At(c, "plan")
    /\ root \in {"completed", "selected", "join_completed", "next_selected"}
    /\ IF OuterBudget THEN Propose(c, OuterEvent) ELSE Return(c, "error")
    /\ OnlyDriver

\* drive_join, on the join as it was loaded or has just been initialized.
DecideJoin(c) ==
    IF JoinDecision(Decisions) = "waiting"
    THEN Returned(c, "error")
    ELSE [drv[c] EXCEPT !.pc = "load", !.back = "joining",
                        !.ev = [Event("join_decided") EXCEPT !.out = JoinDecision(Decisions)]]

\* drive_bound_join; once the join is decided it runs on to its last commit.
PlanJoin(c) ==
    /\ At(c, "joining") \/ (At(c, "plan") /\ root = "join")
    /\ CASE join = "none" ->
                Set(c, [drv[c] EXCEPT !.pc = "append", !.ev = Event("join_initialized"),
                                      !.fresh = TRUE, !.back = "decide"])
         [] join = "waiting" -> Set(c, DecideJoin(c))
         [] join = "ready" /\ ~(Completed \subseteq fan.gave) -> Return(c, "error")
         [] join = "ready" /\ Completed \subseteq fan.gave /\ merged # Completed ->
                Set(c, [drv[c] EXCEPT !.pc = "load", !.ev = Event("merged"), !.back = "joining"])
         [] join = "ready" /\ Completed \subseteq fan.gave /\ merged = Completed ->
                ProposeLater(c, Event("join_completed"))
         [] join = "failed" ->
                IF c = "live"
                THEN Set(c, [drv[c] EXCEPT !.pc = "load", !.ev = Event("root_failed"),
                                           !.back = "join_failed"])
                ELSE Return(c, "join_failed")
    /\ OnlyDriver

PlanReturn(c) ==
    /\ At(c, "plan")
    /\ root \in {"advanced", "failed"}
    /\ Return(c, IF root = "advanced" THEN "advanced" ELSE "error")
    /\ OnlyDriver

PlanInitialize(c) ==
    /\ At(c, "plan") /\ root = "active" /\ ~fan.began
    /\ ProposeLater(c, Event("initialized"))
    /\ OnlyDriver

\* With a cancellation code: request, complete, then report Cancelled; the
\* live turn then fails its node (fail_generic_parallel_turn).
PlanCancel(c) ==
    /\ At(c, "plan") /\ root = "active" /\ fan.began
    /\ drv[c].code
    /\ CASE fan.cancel = "none" ->
                ProposeLater(c, [Event("cancel_requested") EXCEPT !.ids = Incomplete])
         [] fan.cancel = "requested" ->
                ProposeLater(c, [Event("cancel_completed") EXCEPT !.ids = Incomplete])
         [] fan.cancel = "completed" ->
                IF c = "live"
                THEN Set(c, [drv[c] EXCEPT !.pc = "load", !.ev = Event("root_failed"),
                                           !.back = "cancelled"])
                ELSE Return(c, "cancelled")
    /\ OnlyDriver

Driving(c) == At(c, "plan") /\ root = "active" /\ fan.began /\ ~drv[c].code

\* append_branch_recovery: a crash gap, or simply the next half of a step.
Repairable == {b \in Branches :
    fan.ctl[b] \in {"dispatched", "ready", "awaiting_transition", "awaiting_destination",
                    "awaiting_failure"}}

RepairEvent(b) ==
    CASE fan.ctl[b] = "dispatched" -> [BranchEvent("started", b) EXCEPT !.step = fan.last + 1]
      [] fan.ctl[b] = "ready" -> BranchEvent("entered", b)
      [] fan.ctl[b] = "awaiting_transition" ->
            [BranchEvent("transition", b) EXCEPT !.node = fan.node[b] + 1, !.step = fan.last + 1]
      [] fan.ctl[b] = "awaiting_destination" /\ KindOf(b) = "join" ->
            [BranchEvent("terminated", b) EXCEPT !.out = "completed"]
      [] fan.ctl[b] = "awaiting_destination" /\ KindOf(b) # "join" -> BranchEvent("entered", b)
      [] fan.ctl[b] = "awaiting_failure" -> [BranchEvent("terminated", b) EXCEPT !.out = "failed"]

\* checked_step for every event of the plan, although only the first is used.
StepsFor(S) == fan.last + Cardinality(S) <= MaxSteps

PlanRepair(c) ==
    /\ Driving(c) /\ Repairable # {}
    /\ IF StepsFor({b \in Repairable : fan.ctl[b] \in {"dispatched", "awaiting_transition"}})
       THEN ProposeLater(c, RepairEvent(First(Repairable)))
       ELSE Return(c, "error")
    /\ OnlyDriver

PlanDispatch(c) ==
    /\ Driving(c) /\ Repairable = {} /\ ReadyToDispatch # {}
    /\ IF StepsFor(ReadyToDispatch)
       THEN ProposeLater(c, BranchEvent("dispatched", First(ReadyToDispatch)))
       ELSE Return(c, "error")
    /\ OnlyDriver

ActiveBranches == {b \in Branches : fan.ctl[b] = "active"}
PureBranches == {b \in ActiveBranches : ~IsEffect(KindOf(b))}

\* apply_pure_completed_output, commit_shared_contributions: the contribution
\* of a node is committed before its completion.
Owes(b) == fan.node[b] = 1 /\ b \notin fan.gave

\* execute_pure_batch: all active pure nodes run, the first result is committed.
PlanPure(c) ==
    /\ Driving(c) /\ Repairable = {} /\ ReadyToDispatch = {} /\ PureBranches # {}
    /\ LET b == First(PureBranches)
       IN  CASE ~StepsFor({p \in PureBranches : KindOf(p) = "pure"}) -> Return(c, "error")
             [] StepsFor({p \in PureBranches : KindOf(p) = "pure"}) /\ KindOf(b) = "fail" ->
                    ProposeLater(c, BranchEvent("node_failed", b))
             [] StepsFor({p \in PureBranches : KindOf(p) = "pure"}) /\ KindOf(b) = "pure" ->
                    ProposeLater(c, BranchEvent(IF Owes(b) THEN "contributed"
                                                ELSE "node_completed", b))
    /\ OnlyDriver

PlanEffects(c) ==
    /\ Driving(c) /\ Repairable = {} /\ ReadyToDispatch = {} /\ PureBranches = {}
    /\ ActiveBranches # {}
    /\ Set(c, [drv[c] EXCEPT !.pc = "effects", !.todo = ActiveBranches, !.seen = fan.step,
                             !.moved = FALSE, !.waits = FALSE])
    /\ OnlyDriver

\* complete_parallel_root
PlanComplete(c) ==
    /\ Driving(c) /\ Repairable = {} /\ ReadyToDispatch = {} /\ ActiveBranches = {}
    /\ IF AllTerminal /\ fan.last + 1 <= MaxSteps
       THEN ProposeLater(c, Event("root_completed"))
       ELSE Return(c, "error")
    /\ OnlyDriver

Load(c) ==
    /\ At(c, "load")
    /\ Set(c, [drv[c] EXCEPT !.pc = "append", !.fresh = TRUE])
    /\ OnlyDriver

\* Where the coordinator goes on after a successful append.
Onward(c) ==
    LET d == [drv[c] EXCEPT !.ev = NoEvent, !.fresh = FALSE, !.back = "plan"]
    IN  CASE drv[c].back = "next" -> [d EXCEPT !.pc = "effects", !.todo = @ \ {First(@)}, !.moved = TRUE]
          [] drv[c].back = "decide" -> DecideJoin(c)
          [] drv[c].back \in {"plan", "effects", "dispatch", "joining"} -> [d EXCEPT !.pc = drv[c].back]
          [] OTHER -> Returned(c, drv[c].back)

\* commit_payload: reduce, then append on the loaded position.  The merge goes
\* through the variable coordinator, which reloads after a conflict.
CanAppend(c) == Accepts(drv[c].ev) /\ (drv[c].fresh \/ drv[c].ev.t = "merged")

Commit(c) ==
    /\ At(c, "append")
    /\ CanAppend(c)
    /\ root' = ReduceRoot(drv[c].ev)
    /\ fan' = ReduceFan(drv[c].ev)
    /\ join' = ReduceJoin(drv[c].ev)
    /\ merged' = ReduceMerged(drv[c].ev)
    /\ SetCommitted(c, Onward(c))
    /\ UNCHANGED <<receipt, world, crashes, cancels>>

CommitRefused(c) ==
    /\ At(c, "append")
    /\ ~CanAppend(c)
    /\ Return(c, "error")
    /\ OnlyDriver

-----------------------------------------------------------------------------
(***************************************************************************)
(* process_effect_requests                                                 *)
(***************************************************************************)
Requested(c) == First(drv[c].todo)
StillActive(c, b) == fan.ctl[b] = "active" /\ fan.step[b] = drv[c].seen[b]
Handling(c, b) == At(c, "effects") /\ drv[c].todo # {} /\ b = Requested(c) /\ StillActive(c, b)

EffectGone(c) ==
    /\ At(c, "effects") /\ drv[c].todo # {}
    /\ ~StillActive(c, Requested(c))
    /\ Return(c, "error")
    /\ OnlyDriver

\* The outbox record comes before the effect.
EffectIntend(c, b) ==
    /\ Handling(c, b) /\ fan.effect[b] = "none"
    /\ Set(c, [drv[c] EXCEPT !.pc = "append", !.ev = BranchEvent("effect_dispatched", b),
                             !.fresh = TRUE, !.back = "dispatch"])
    /\ OnlyDriver

EffectSettle(c, b) ==
    /\ Handling(c, b) /\ fan.effect[b] \in {"completed", "failed", "ambiguous"}
    /\ IF fan.effect[b] = "completed" /\ Owes(b)
       THEN Set(c, [drv[c] EXCEPT !.pc = "append", !.ev = BranchEvent("contributed", b),
                                  !.fresh = TRUE, !.back = "effects"])
       ELSE Set(c, [drv[c] EXCEPT !.pc = "load", !.back = "next",
                                  !.ev = BranchEvent(IF fan.effect[b] = "completed"
                                                     THEN "node_completed" ELSE "node_failed", b)])
    /\ OnlyDriver

\* Mutant: every missing record is a contract mismatch.
MissingReceiptError(k) == "error"

\* What recover finds for an effect whose record is missing: a tool or an
\* approval is ambiguous, a schedule is a contract mismatch.
MissingReceipt(k) == IF k = "schedule" THEN "error" ELSE "ambiguous"

\* Mutant: a recorded dispatch is taken for a finished effect.
RecoveredOptimistic(b) ==
    LET r == receipt[WorkOf(b)]
    IN  CASE r = "none" -> MissingReceipt(KindOf(b))
          [] r = "pending" -> "waiting"
          [] r \in {"resolved", "begun", "done", "approved"} -> "completed"
          [] r \in {"failed", "denied"} -> "failed"

\* recover_parallel_branch_effect: the effect's record decides, nothing is redone.
Recovered(b) ==
    LET r == receipt[WorkOf(b)]
    IN  CASE r = "none" -> MissingReceipt(KindOf(b))
          [] r \in {"resolved", "begun"} -> "ambiguous"
          [] r = "pending" -> "waiting"
          [] r \in {"done", "approved"} -> "completed"
          [] r \in {"failed", "denied"} -> "failed"

\* Mutant: the same wait again counts as progress.
WaitsOnAgain(c, b) ==
    Set(c, [drv[c] EXCEPT !.todo = @ \ {b}, !.waits = TRUE, !.moved = TRUE])

\* A wait that is still the recorded wait is no progress.
WaitsOn(c, b) ==
    Set(c, [drv[c] EXCEPT !.todo = @ \ {b}, !.waits = TRUE])

\* Mutant: an effect without a terminal record is dispatched again.
EffectRecoverRedispatch(c, b) ==
    /\ Handling(c, b) /\ fan.effect[b] \in {"dispatched", "waiting"}
    /\ CASE Recovered(b) = "ambiguous" -> Set(c, [drv[c] EXCEPT !.pc = "dispatch"])
         [] Recovered(b) = fan.effect[b] -> WaitsOn(c, b)
         [] OTHER -> Set(c, [drv[c] EXCEPT !.pc = "load", !.back = "next",
                                !.ev = [BranchEvent("outcome", b) EXCEPT !.out = Recovered(b)]])
    /\ OnlyDriver

EffectRecover(c, b) ==
    /\ Handling(c, b) /\ fan.effect[b] \in {"dispatched", "waiting"}
    /\ CASE Recovered(b) = "error" -> Return(c, "error")
         [] Recovered(b) = fan.effect[b] -> WaitsOn(c, b)
         [] OTHER -> Set(c, [drv[c] EXCEPT !.pc = "load", !.back = "next",
                                !.waits = @ \/ Recovered(b) = "waiting",
                                !.ev = [BranchEvent("outcome", b) EXCEPT !.out = Recovered(b)]])
    /\ OnlyDriver

EffectsDone(c) ==
    /\ At(c, "effects") /\ drv[c].todo = {}
    /\ CASE drv[c].moved -> Set(c, [drv[c] EXCEPT !.pc = "plan"])
         [] ~drv[c].moved /\ drv[c].waits -> Return(c, "waiting")
         [] ~drv[c].moved /\ ~drv[c].waits -> Return(c, "error")
    /\ OnlyDriver

Answer(c, b, out) ==
    [drv[c] EXCEPT !.pc = "load", !.back = "next", !.waits = @ \/ out = "waiting",
                   !.ev = [BranchEvent("outcome", b) EXCEPT !.out = out]]

\* drive_graph_schedule loads before each of its records and goes on from the
\* last one: resolved, dispatched (begun), stored (done).
ScheduleRound(c, b) ==
    CASE receipt[WorkOf(b)] \in {"none", "resolved"} -> [drv[c] EXCEPT !.pc = "begin", !.fresh = TRUE]
      [] receipt[WorkOf(b)] = "begun" -> [drv[c] EXCEPT !.pc = "act", !.fresh = TRUE]
      [] receipt[WorkOf(b)] = "done" -> Answer(c, b, "completed")

\* dispatch_parallel_branch_effect refuses a branch that is no longer active on
\* this work; a tool or an approval loads the position its records start at.
Dispatch(c) ==
    /\ At(c, "dispatch") \/ At(c, "round")
    /\ LET b == Requested(c)
       IN  CASE At(c, "dispatch") /\ ~StillActive(c, b) -> Return(c, "error")
             [] At(c, "dispatch") /\ StillActive(c, b) /\ KindOf(b) # "schedule" ->
                    Set(c, [drv[c] EXCEPT !.pc = "begin", !.fresh = TRUE])
             [] OTHER -> Set(c, ScheduleRound(c, b))
    /\ OnlyDriver

\* The effect's next record before it takes place.
BeginRecord(b) ==
    CASE KindOf(b) = "approval" -> "pending"
      [] KindOf(b) = "schedule" /\ receipt[WorkOf(b)] = "none" -> "resolved"
      [] OTHER -> "begun"

\* Mutant: the record is appended wherever the journal stands.
MayBeginAnywhere(c, b) == TRUE

\* The reducer wants the branch active for the first record, the position decides
\* whether the append succeeds.
MayBegin(c, b) == drv[c].fresh /\ (receipt[WorkOf(b)] = "none" => fan.ctl[b] = "active")

\* An approval request, a tool dispatch, a resolved or dispatched schedule.
Begin(c) ==
    /\ At(c, "begin")
    /\ LET b == Requested(c)
       IN  IF MayBegin(c, b)
           THEN /\ receipt' = [receipt EXCEPT ![WorkOf(b)] = BeginRecord(b)]
                /\ SetCommitted(c, CASE KindOf(b) = "approval" -> Answer(c, b, "waiting")
                                     [] KindOf(b) = "schedule" -> [drv[c] EXCEPT !.pc = "round"]
                                     [] KindOf(b) = "tool" -> [drv[c] EXCEPT !.pc = "act"])
           ELSE Return(c, "error") /\ UNCHANGED receipt
    /\ UNCHANGED <<root, fan, join, merged, world, crashes, cancels>>

\* The tool runs, the scheduler stores the schedule.
Act(c) ==
    /\ At(c, "act")
    /\ world' = [world EXCEPT ![WorkOf(Requested(c))] = @ + 1]
    /\ Set(c, [drv[c] EXCEPT !.pc = "finish"])
    /\ UNCHANGED <<journal, crashes, cancels>>

\* The effect's terminal record; a conflict leaves the effect without one.
Finish(c) ==
    /\ At(c, "finish")
    /\ LET b == Requested(c)
       IN  IF drv[c].fresh
           THEN \E r \in IF KindOf(b) = "tool" THEN {"done", "failed"} ELSE {"done"} :
                   /\ receipt' = [receipt EXCEPT ![WorkOf(b)] = r]
                   /\ SetCommitted(c, IF KindOf(b) = "schedule" THEN [drv[c] EXCEPT !.pc = "round"]
                                      ELSE Answer(c, b, IF r = "done" THEN "completed" ELSE "failed"))
           ELSE Return(c, "error") /\ UNCHANGED receipt
    /\ UNCHANGED <<root, fan, join, merged, world, crashes, cancels>>

-----------------------------------------------------------------------------
(***************************************************************************)
(* The surroundings                                                        *)
(***************************************************************************)
\* run_turn resumes the fan-out with the code the journal already holds.
Resume ==
    /\ At("live", "idle")
    /\ root \notin {"advanced", "failed"}
    /\ Set("live", [Off EXCEPT !.pc = "plan", !.code = fan.cancel # "none"])
    /\ OnlyDriver

\* cancel_active_parallel is reachable while the live drive is bound.
StartCancel ==
    /\ At("canceller", "idle")
    /\ ~At("live", "idle")
    /\ cancels < MaxCancels
    /\ cancels' = cancels + 1
    /\ Set("canceller", [Off EXCEPT !.pc = "plan", !.code = TRUE])
    /\ UNCHANGED <<journal, world, crashes>>

\* resolve_approval, under the session gate.
ResolveApproval(w) ==
    /\ At("live", "idle")
    /\ receipt[w] = "pending"
    /\ \E r \in {"approved", "denied"} : receipt' = [receipt EXCEPT ![w] = r]
    /\ drv' = [drv EXCEPT !["canceller"].fresh = FALSE]
    /\ UNCHANGED <<root, fan, join, merged, world, crashes, cancels>>

Crash ==
    /\ crashes < MaxCrashes
    /\ \E c \in Coordinators : ~At(c, "idle")
    /\ crashes' = crashes + 1
    /\ drv' = [c \in Coordinators |-> Off]
    /\ UNCHANGED <<journal, world, cancels>>

Plan(c) ==
    \/ PlanOuter(c) \/ PlanJoin(c) \/ PlanReturn(c) \/ PlanInitialize(c) \/ PlanCancel(c)
    \/ PlanRepair(c) \/ PlanDispatch(c) \/ PlanPure(c) \/ PlanEffects(c) \/ PlanComplete(c)

Process(c) ==
    \/ \E b \in Branches : EffectIntend(c, b) \/ EffectSettle(c, b) \/ EffectRecover(c, b)
    \/ EffectGone(c) \/ EffectsDone(c) \/ Dispatch(c) \/ Begin(c) \/ Act(c) \/ Finish(c)

Step(c) == Plan(c) \/ Load(c) \/ Commit(c) \/ CommitRefused(c) \/ Process(c)

Next ==
    \/ \E c \in Coordinators : Step(c)
    \/ Resume
    \/ StartCancel
    \/ \E w \in Works : ResolveApproval(w)
    \/ Crash

\* A spawned coordinator task keeps running, and an unfinished turn is run again.
Fairness ==
    /\ \A c \in Coordinators : WF_vars(Step(c))
    /\ WF_vars(Resume)

Spec == Init /\ [][Next]_vars
FairSpec == Spec /\ Fairness

-----------------------------------------------------------------------------
(***************************************************************************)
(* Properties                                                              *)
(***************************************************************************)
BranchControls == {"queued", "dispatched", "ready", "active", "awaiting_transition",
                   "awaiting_destination", "awaiting_failure", "terminal"}
Outcomes == {"none", "dispatched", "waiting", "completed", "failed", "ambiguous"}

\* Types, with the step budget: last_allocated_step never passes max_steps.
TypeOK ==
    /\ root \in {"active", "completed", "selected", "join", "join_completed", "next_selected",
                 "advanced", "failed"}
    /\ fan.ctl \in [Branches -> BranchControls]
    /\ fan.exec \in [Branches -> {"queued", "dispatched", "running", "completed", "failed", "cancelled"}]
    /\ \A b \in Branches : fan.node[b] \in 1..(Len(Region[b]) + 1)
    /\ fan.last \in 1..MaxSteps
    /\ fan.step \in [Branches -> 0..fan.last]
    /\ fan.effect \in [Branches -> Outcomes]
    /\ fan.order \in [Branches -> 0..Cardinality(Branches)]
    /\ fan.gave \subseteq Branches /\ fan.asked \subseteq Branches /\ merged \subseteq Branches
    /\ fan.cancel \in {"none", "requested", "completed"}
    /\ join \in {"none", "waiting", "ready", "failed"}
    /\ receipt \in [Works -> {"none", "resolved", "begun", "pending", "done", "failed", "approved", "denied"}]
    /\ world \in [Works -> Nat]
    /\ \A c \in Coordinators : drv[c].todo \subseteq Branches
    /\ crashes \in 0..MaxCrashes /\ cancels \in 0..MaxCancels

\* process_effect_requests reconciles a recorded dispatch and never repeats it:
\* the effect of a node takes place at most once, whatever crashes, resumes and
\* second coordinators there are.
EffectOnce == \A w \in Works : world[w] <= 1

\* recover_parallel_branch_effect: a branch that ended as completed has the
\* evidence of every effect on its way, and the effects did take place.
CompletedHappened ==
    \A b \in Completed : \A n \in DOMAIN Region[b] :
        /\ Region[b][n] \in {"tool", "schedule"} => receipt[<<b, n>>] = "done" /\ world[<<b, n>>] = 1
        /\ Region[b][n] = "approval" => receipt[<<b, n>>] = "approved"

Phase ==
    IF fan.cancel = "completed" THEN "cancelled"
    ELSE IF join = "ready" THEN "joined" ELSE IF join = "failed" THEN "failed" ELSE "running"

FJ == INSTANCE ForkJoin WITH
    decided <- Decisions, phase <- Phase, handed <- merged, Verdict <- JoinDecision

\* The journalled fan-out with its two coordinators implements the fork and
\* join of ForkJoin: one decision per branch, one verdict, the contributions of
\* the successful branches handed on once, and nothing after a cancellation.
ImplementsForkJoin == FJ!Spec

\* drive_on_fresh_task: every drive comes to an end; a wait that is still the
\* recorded wait does not count as progress, so the loop cannot spin on it.
DriveReturns == \A c \in Coordinators : drv[c].pc # "idle" ~> drv[c].pc = "idle"

\* The journal always leads on: a fan-out that is resumed reaches the node
\* behind its join or fails, unless it waits for an approval.
Settles == []<>(root \in {"advanced", "failed"} \/ \E w \in Works : receipt[w] = "pending")

\* "Canonical cancellation won and no further branch effect was dispatched": a
\* completed cancellation is not followed by the record that an effect was begun,
\* although the live coordinator may be anywhere inside a dispatch.
CancelledDispatchesNothing ==
    [][fan.cancel = "completed" =>
          \A w \in Works : receipt'[w] \in {"begun", "pending"} => receipt[w] = receipt'[w]]_vars
=============================================================================
