# Verification of the AgentMod runtime

AgentMod runs language-model agents on the user's machine. A *runtime daemon*
owns the sessions; it talks over stdio or local sockets to worker processes
(scheduler, provider harness, plugin host, tool hosts) and to front ends. There
is no database: every durable fact is a file, and two files agree only because
they were written in a certain order. This project models that order, the
processes that may die between two writes, and the recoveries that clean up, in
TLA+; TLC checks small instances, and TLAPS proves the safety properties of every
modelled component for all instances.

Paths below are relative to `src/`.

## 1. The system

### Components, their state and their operations

| Component | State | Operations | Hard because |
|---|---|---|---|
| session journal `apps/runtime/{dependency,data}/src/journal.rs`, `logic/src/persistence.rs` | `events.jsonl`, one checksummed frame per line; a file lock | load (verified scan), append at expected head, compare-append at expected sequence, tail recovery | writers in several tasks and processes; a crash between write, sync and answer; power loss |
| session reducer `logic/src/session.rs` | the session state folded from the events | one `apply_*` per event, each with its refusals | an event that was committed and does not replay locks the session for ever |
| continuation store `continuation.rs` in all four layers | a checksummed file and a lock file per continuation | create, resolve approval, wake, cancel a turn's continuations, terminal transition | decisions are taken after the lock was released |
| resume-once gate | (the promise of the store) | pending, then one terminal state, one winner | everyone races for it |
| tool dispatch, approval, recovery `logic/src/turn.rs`, `dependency/src/{supervised,receipt}.rs` | journal events, receipts, approvals | propose, ask, dispatch, execute, project the stream, repair, recover at startup | four stores, no common transaction, an external effect that cannot be undone |
| scheduler worker `apps/scheduler` | schedule, claim and marker files under one lock | upsert, remove, claim_due, fire_runtime_event, fire_process_output, complete, list_pending | replacement of files by backup and rename; an answer lost with what was claimed |
| scheduled delivery `service/src/turn.rs`, `logic/src/turn.rs` | claims held by the poller and the observer; session gate | poll, observe committed events, deliver, classify and reconcile after a restart | at-most-once delivery out of claims, journal and continuations |
| parallel branches `logic/src/parallel_{turn,driver,execution}.rs` | the fan-out, its branches, its join and the records of its effects, all folded from the journal | plan the next event, dispatch effects, recover them, cancel, join | two coordinators drive one fan-out, one without the session gate; a crash inside an effect |
| plugin host `apps/plugin-host`, and the runtime's side of it | one state document per plugin, nonces, cancellation receipts; in memory the status, the running invocations, the observer queue | load, observe, invoke, read and write node state, cancel, disable, enable, quarantine, unquarantine | every frame is a task of its own; the document is rewritten whole; the runtime repeats what timed out |
| child graphs `logic/src/child_graph_*.rs`, `child_session.rs` | a record per task, the wait projection and the cancellation outbox in the parent's journal; a continuation per approval and one for the wait; the children's own journals | propose, approve, dispatch, create, reconcile, observe, project, cancel | two journals without a common transaction; children end while they are cancelled; approvals and timeouts come late |
| turn executor, graph engine, event pipeline | turn state, traversal state | run a turn, select edges | re-entrancy |
| canonical variables, memory outbox | records and outboxes per session | request, compare-and-set, write, recover | a retry after a crash |
| process tool host, provider harness | worker processes, restart budgets, live processes, streams | start, restart, reconcile, stream | processes that outlive or predecease their owner |
| policy (permissions, interception, information flow), expression engine, protocols | none | pure functions | boundaries only |
| compaction, artifacts, snapshots, registries; front ends; kits and tooling | content-addressed files or none | read and write | little |

`PROJECT.json` lists the same parts with every source file and its status.

### How they interact

* The turn executor commits every fact to the session journal before it acts on
  it (*dispatch outbox*): `ToolExecutionDispatched` precedes the host's effect,
  `scheduler.fired` precedes a scheduled turn.
* A tool call that needs consent creates a continuation first and requests the
  approval in the journal afterwards. The decision moves the continuation, and
  only then is committed as `ApprovalResolved`.
* A host's complete stream is stored as a receipt before it is projected event by
  event into the journal, so that an interrupted projection can be resumed.
* The poller and the observer of committed events ask the scheduler worker for
  claims, deliver them as turns or triggers, and mark them completed. A daemon
  that starts lists the unfinished claims and decides from the journal whether
  to run, to reconcile or to leave each.
* One session gate (a mutex in the daemon) serialises the handlers of a session.
  It does not bind a second daemon, which performs its whole startup recovery
  before it finds the endpoint taken. It does not bind `cancel_turn` either, which
  drives the same fan-out as the turn it cancels.
* A coordinator of a fan-out keeps nothing but what it loaded: it plans an event,
  loads again, has the reducer judge the event and appends it if the journal has
  not grown since. The effects of branches (tools, schedules, approvals) keep
  records of their own in the same journal.
* A spawn node makes child sessions, which the front ends run like any session.
  The parent learns of their ends only when its wait node is driven again, and cancels them by
  appending to their journals.
* The runtime sends frames to the plugin host and may send one again after a
  timeout or a restart of the host. The host serves 32 frames at a time, each in
  a task; a frame over the limit is answered `host_overloaded`.

### What makes each part correct

* journal: the chain of frames verifies after every history; what was
  acknowledged as synced is never lost; two writers never both build on one head.
* continuations: one terminal state, one caller told that it won, and the
  operation that resumes a record is the one its kind allows.
* tools: the effect of a call happens at most once, never before its dispatch is
  durable, never without consent; what is committed replays; every stream is
  projected exactly once; the conversation holds a call and its result once.
* scheduling: no occurrence is skipped, none is dispatched twice, a claim marked
  successful has evidence in the journal, and two recoveries of one claim agree.
* parallel branches: each branch is decided once, no effect is repeated, a
  completed cancellation is final, the join is taken once from the contributions
  of the successful branches, and every fan-out settles.
* plugin host: a delivery is run once and answered alike by every attempt, no
  task loses another's update of the document, a disabled plugin keeps no
  invocation uncancelled, an invocation answered as signalled does not run on, and
  journal, document and memory agree on the lifecycle.
* child graphs: one child per task, made behind a durable dispatch and with
  consent; what the parent records of its children is true of them; a child that
  ended is not ended again; the wait is left once its outcome is decided.

The hazards behind these properties are listed in `PROJECT.json`, at the lines
where they bite.

## 2. Modules

| Module | Models | Uses |
|---|---|---|
| `Journal` | the journal and its writers | |
| `JournalProofs` | theorems about it | `Journal`, `TLAPS` |
| `ResumeOnce` | abstract specification of a resume-once record | |
| `Continuation` | the file store with locks, stale decisions and crashes | implements `ResumeOnce` |
| `ContinuationProofs` | theorems about it | `Continuation`, `TLAPS` |
| `ToolDispatch` | a batch of tool calls over journal, approvals, receipts and hosts | |
| `ToolDispatchProofs` | theorems about it | `ToolDispatch`, `TLAPS` |
| `Scheduler` | the worker: files, claims, markers, the request being served | |
| `SchedulerProofs` | lemmas about the worker alone | `Scheduler`, `TLAPS` |
| `ScheduledDelivery` | daemon, poller, observer and recovery | extends `Scheduler` |
| `ScheduledDeliveryProofs` | theorems about worker and delivery | `ScheduledDelivery`, `SchedulerProofs`, `TLAPS` |
| `ForkJoin` | abstract specification of a fan-out | |
| `Parallel` | the journalled fan-out, its effects, its coordinator and its canceller | implements `ForkJoin` |
| `ParallelProofs` | theorems about it, the refinement included | `Parallel`, `TLAPS` |
| `PluginHost` | one plugin in the host, and what the runtime sends to it | |
| `PluginHostProofs` | theorems about it | `PluginHost`, `TLAPS` |
| `ChildGraph` | a spawn and a wait node, the children and the cancellation outbox | |
| `ChildGraphProofs` | theorems about it | `ChildGraph`, `TLAPS` |
| `MC*` | symmetry sets, regions of a graph and other values for TLC | |

### Journal

`file` is the sequence of frames, `torn` an incomplete last line, `synced` the
length known to be on the medium, `view[w]` what writer `w` loaded, `req[w]` the
event it appends. `BeginAppend` is the locked scan with its checks, `WriteFrame`
and `FailWrite` the write, `FinishAppend` and `FailSync` the synchronisation and
the answer; `compare` selects between `commit_event`, which expects a sequence
number, and `compare_append_event`, which expects the event at the head as well. `RecoverTail` quarantines
and truncates an invalid tail. `CrashWriter` kills a writer between any two steps,
`PowerLoss` keeps any prefix not shorter than `synced` and may garble what follows.
A checksum is the sequence of everything hashed, so two checksums are equal
exactly when the hashed histories are. Event payloads are identities.
`recover_session_journal` has no caller in the daemon: recovery is an operation
the code offers, and the model lets it happen between any two appends.

### Continuation and ResumeOnce

`rec[c]` is the record file ("torn" between `create_new` and the end of the
write), `lock[c]` its lock file. A caller reads and decides (`ResolveApproval`,
`WakeContinuation`, `CancelTurn`, `TransitionTerminal`: pc "decided"), later takes
the lock and replaces the record if it is still pending (`ReplaceRecord`), and
last answers (`ReplyTransitioned`, `ReplyNotTransitioned`). `told[c]` is the
sequence of all answers "you moved it", with the state each reports; the gate's
`winners` admits one, so a second caller, or a retry of the first, that is told the
same is no step of the gate. `Crash` ends a caller anywhere; the operating system
frees its lock. The refinement maps a torn record to an absent one and `told` to
`winners`.

### ToolDispatch

One provider batch. `head` counts the session's commits, so a handler commits only when the
sequence number it holds is still current: the compare-append of `Journal`,
taken as one step because the journal's own properties are shown there. `exec[c]`
is the reducer's state of a call, `poisoned` becomes true when an event that does
not replay has been committed. Each handler `h[r]` walks through the code of
`resolve_tool_calls`, `execute_authorized_tool`, the approval handler or
`recover_startup_tools`; every pc is a point where the daemon may die (`Kill`) or
an error return is taken (`Fail`). Policy outcomes are constants per call
(`AskCalls`, `RejectCalls`); tool output is a position in the stream.

The session's style is bound to a legacy adapter, because nothing else reaches
`resolve_tool_calls`: generic styles take another path, which is not modelled
(`turn.rs:9594-9665`), and sessions without a binding are refused
(`service/src/turn.rs:1651`, `turn.rs:9754`, `21565`). `active` is the tool gate
node of that adapter. While it is active a repeated decision goes on with the
remaining calls, whether they were proposed before or not (`turn.rs:17896`);
`proposals[c]` counts the `ToolCallProposed` events of a call. Once a call has
been proposed a second time the code keeps few promises about it, so
`ProposalRunsOnce`, `StreamProjectedOnce` and `ConversationPaired` speak of calls
proposed once, and `JournalReplays` says that nothing else makes a session
unreadable. `EffectOnlyWithConsent` and `DecisionMatchesGate` hold without that
condition. The run `tool_legacy` shows the other side.

### Scheduler and ScheduledDelivery

`sched[s]` is a schedule file ("swapped" between moving the old file to its
backup and renaming the new one in), `claim[x]` the execution file of an occurrence ("torn"
before it is filled), `marker[x]` its terminal markers, `w` the worker and the
one request it serves. In `ScheduledDelivery`, `hist` holds the session's events
that matter to deliveries in commit order, `gate` the continuation of a deferred
turn (with the transitions of `ResumeOnce`), `turn` the holder of the session
gate, and `task` the three tasks: startup recovery, poller and observer. The
observer asks the worker for each committed event and collects claims of several
before delivering them. `Classify` is
`classify_scheduled_recovery` over the window of the journal that belongs to a
claim. A turn counts as a success whenever it returns `Ok` without a continuation to
wait for (`TurnSucceeds`, `service/src/turn.rs:1090`): also when the provider
reported a failure, when the graph committed the session as failed
(`turn.rs:11451`, `11540`, `11618`), and when no model was asked.

### ForkJoin and Parallel

The journal is kept as the state its events fold to: `root` (control of the graph
from the parallel node to the node behind the join), `fan` (control, execution,
node, step and effect of each branch, cancellation), `join`, `merged` (branches
in the committed merge) and `receipt` (the own record of each effect). `world`
counts the effects that really took place. `drv[c]` is a coordinator: `live` (a
turn or a resumed approval, under the session gate) or `canceller`
(`cancel_turn`). It plans (`Plan*`, in the order of the driver's checks), loads
(`Load`), and appends (`Commit`), or is refused by the reducer or because the
journal has grown (`CommitRefused`). `Effect*`, `Dispatch`, `Begin`, `Act` and `Finish`
are the effect port, with its own records between them. `Crash` ends both coordinators,
`Resume` runs an unfinished turn again. The refinement maps the dispositions of
the branches to ForkJoin's decisions, join and cancellation to its phase and
`merged` to what is handed on.

### PluginHost

`disk` is the plugin's state document (lifecycle, observer deliveries, node
state, read receipts), or `Torn`; `nonces` and `filed` are the other two
files. `tasks[s]` is what permit `s` serves; its pc names the await at which the
task stands, and a task that writes holds `lock` and the new document in `buf`,
so that a persist may fail (`PersistFails`) or be cut off (`Crash`, which leaves
the old document, the new one or an unreadable one). `registered[i]` names the task whose
cancellation token stands under an id: `Orphan` when a second request with that id
has replaced it. `queue` and `working` are the observer channel and its
worker, `canonical` the runtime's journalled lifecycle record, whose number stands
for the identity of a change: each change has a fresh cancellation identity, and
only the receipt of the last one is in the document. A pending change is sent again
as often as its callers time out, and the frames of earlier attempts stay at the
host (`SendLifecycle`). `filed` and `receipts` are the
cancellation receipts on disk and in memory; a spent nonce is forgotten when its
grant expires (`ExpireNonce`), and the runtime seals the same nonce again, so a
cancellation may be carried out twice (`WriteReceipt`, `CancelFails`). Nonces other
than those of cancellations are left out because every frame carries a fresh
grant. The status `Failed` is left out because `run_once` never returns the definite
error that sets it. The frames are those of one session, whose journal holds the
lifecycle record. Torn nonce and receipt files are left out: the host does not start
with one.

### ChildGraph

`style` is what the bound style fixes (`max_concurrent`, `minimum_successes`,
the cancellation mode). `rec`, `wait` and `canc` are the records folded from the
parent's journal, `gate`, `cgate` and `timer` the continuations of the
approvals and of the wait node, `child` and `born` the child sessions. `drv` is a
drive of the active node by `ChildGraphTurnCoordinator`: each append to the parent's journal, each
call of the effect port and each child looked at is a step, so that a crash, a child's own end, `cancel_turn`
or the timeout can fall between any two. `Propose` to `RecordCreated` are
`coordinate_spawn`, `Observe` to `ConcludeCancellation` are `coordinate_wait` with
the outbox behind it, `Return` is the turn loop. `fresh` is the set of dispatches
this drive appended itself: only these may create (`Make`); others are looked up in the
catalog (`ReconcileCreation`).

Abstractions. The nodes belong to the root graph, so every drive holds the
session gate and the parent's journal has a single writer: append conflicts and
replanning are left out. `ApprovalRequested` and `ApprovalResolved`, which accompany the
continuation, are left out because a drive looks only at the continuation. The
load of the wait's continuation and its wake or expiry are one step. Policy outcomes are free choices within
what the continuation's state allows (`Verdicts`); the digests and hashes that
bind them are equal by construction. The record `completed` is never met by a
drive of this instance, because it finds the cancelled children first.

## 3. Model checking

Every run explores its instance completely. Twelve runs:

| Run | Instance | Result |
|---|---|---|
| `journal` | 2 writers, 4 events, 2 quarantine labels, 4 frames, durabilities buffered and data | 5 properties hold |
| `continuation` | an approval, a deferred turn and a graph wait; 2 callers; lookup limit 2 | 3 properties hold, among them the refinement of `ResumeOnce` |
| `tool_dispatch` | 2 daemons; a batch of one call that asks, one rejected, one allowed; streams of 3 events; up to 2 proposals of a call | 7 properties hold |
| `scheduled_delivery` | an interval graph trigger and an observed deferred turn; users' turns that respond | 5 properties hold |
| `parallel` | three branches (a tool; an approval behind a pure node; a failing node), one of them required; two in flight at once; one crash, one cancel request | 7 properties hold, among them the refinement of `ForkJoin` and two liveness properties |
| `plugin_host` | 2 permits, 2 deliveries, 1 invocation, 2 chained writes and 1 read of node state, a queue of 1; any 4 frames; a crash or a failed write | 7 properties hold |
| `child_graph` | 2 tasks, `max_concurrent` 1 or 2, `minimum_successes` 1 or 2, three cancellation modes, one crash or failed creation | 6 properties hold, among them a liveness property |
| `tool_legacy`, `scheduled_deferred`, `parallel_cancel`, `plugin_lifecycle`, `child_cancel` | small instances of the same modules | violated: see Findings |

### What the properties say

* `ChainIntact`, `DurableAcksSurvive`, `NoLostUpdate`, `OnlyPowerLossRemovesFrames`:
  the journal's three promises, and that no step of the program itself, recovery
  included, removes a stored frame.
* `ImplementsResumeOnce`, `ResumedByItsOwnKind`: continuations, with the answers
  counted over all callers and retries.
* `ProposalRunsOnce`, `EffectOnlyWithConsent`: the host, the outbox before it included.
  `JournalReplays`: as long as no call is proposed twice no committed event is refused
  by the reducer, so no interleaving with a second daemon's recovery can lock a session.
  `StreamProjectedOnce`, `ConversationPaired`: recovery resumes a projection and
  repairs a conversation without repeating or losing a part.
  `DecisionMatchesGate`: what the journal says about an approval is what the
  continuation store says.
* `NoOccurrenceSkipped`, `DispatchedOnce`, `ReconciliationsAgree`: scheduling.
  `SuccessHasEvidence`: a success marker stands for a dispatch in the journal, not
  for a good end of the turn, since the code marks more than that as a success; the
  success a recovery records needs a model response.
* `EffectOnce`, `CompletedHappened`: the effects of branches against the world.
  `CancelledDispatchesNothing`: the live coordinator may be anywhere when the
  canceller completes the cancellation. `ImplementsForkJoin`: the whole promise,
  with a completed cancellation final and no decided branch decided again.
  `DriveReturns`, `Settles`: no drive spins, and what the journal holds can
  always be led on.
* `ObservedOnce`, `ObserverReceiptTrue`, `AnswersAgree`: repeated frames. `StateUpdatesKept`: the document
  rewritten by several tasks. `InactivePreempts`: a lifecycle change among running
  invocations. `SignalledIsCancelled`: cancellations repeated beyond the life of their
  nonces, through failed writes and restarts.
* `OneSessionPerTask`, `InFlightBounded`: creation across crashes, approvals and
  drives. `VerdictsTrue`: the parent's journal against the children's.
  `ChildEndsOnce`: a cancellation that races the child's own end. `Settles`
  (of `ChildGraph`): without faults, with room for all children and no question
  about the cancellation, the parent leaves the wait node; each condition is needed (see below).

Each property has a mutant in `PROJECT.json`: a plausible error in the code (a
check dropped, a stale value used, two writes swapped) under which TLC reports
that property violated.

### Bounds

* `MaxFrames` = 4: two writers can each append, lose a race, crash and append
  again after a recovery. A third writer adds no new relation between a view and
  the head: a writer only ever compares with the file.
* `LookupLimit` = 2 with three continuations, so that a cancellation meets both a
  complete lookup and one that is refused (4096 in the code). Two callers already give every race for
  one record, because a record's lock admits one.
* `BatchSize` = 3 has every policy outcome, with a call after the suspended one;
  `StreamLength` = 3 has a first, a middle and a terminal event; `MaxProposals` = 2 lets
  every call after the suspended one be proposed again; `MaxAsks` = 1 since the call that
  asks is the first, which a repeated decision does not propose again; `MaxHead` = 40 exceeds
  what any behaviour of the instance commits before it stops, except by repeated
  failures, which it cuts.
* `MaxTime` = 1, `MaxEvents` = 2, `MaxUpserts` = 1, `PollLimit` = 1: a due interval
  occurrence competes with two observed events, and the limit is met by one
  claim. `MaxHistory` = 4 holds a fired claim, its outcome and two
  foreign events in the recovery window; `UserOutcomes` names how turns of
  users between them end. `MaxHistory` 5 (4.1 million states) gave the same result.
* `MaxSteps` = 9 lets every branch end within the step budget and no further,
  `MaxParallelism` = 2 makes one of the three branches wait; one crash and one
  cancel request fall on every step of either coordinator.
* `Permits` = 2 and `MaxFrames` = 4: two requests interleave at every await, each
  can be sent again, and a crash can fall between the two sendings; `QueueCapacity` = 1
  fills with one delivery while another is running; `MaxAttempts` = 2 has a
  retry with its backoff. Five frames (5.1 million states) gave the same result.
* Two tasks are enough for one child to end while its sibling is being cancelled, to
  be missing or to hold the only place; one fault falls on every step of a drive.

Writers, callers, daemons and permits are interchangeable, and TLC uses their
symmetry in the passing runs whose properties it preserves. A fan-out ends, so
deadlock is not checked in the runs of `Parallel`, and a parent that left its wait node
stops too, so neither in those of `ChildGraph`; it is checked in all others.

### Fairness

`Parallel` assumes weak fairness of each coordinator's step (a spawned task keeps
running until it returns) and of `Resume` (an unfinished turn is run again: by
the next request on the session or by startup recovery). Crashes and cancel
requests are finitely many and not fair. The approval of a branch is a human's
answer and not fair either, so `Settles` allows a fan-out that waits for one.

`ChildGraph` assumes weak fairness of the coordinator's steps. The rest is the
callers' part and is stated as such: the turn is driven again (weak fairness of
`Drive`), each child ends (weak fairness), and questions are answered (strong
fairness: an answer queues for the session gate, a mutex that serves in order, so
it gets its turn between two drives). Timeouts, cancel requests and crashes are not fair.

The other modules assume none: their properties are safety properties, and hold
even when a process stops for ever.

### Findings

1. `scheduled_deferred`: startup recovery wakes with permission to replay resumed
   records, so two claims of one deferred turn, both left by a crash, fire the
   turn twice. `docs/architecture/scheduling.md` says that only the transition
   winner commits `scheduler.fired`.
2. `tool_legacy`: a repeated decision runs all remaining calls of the batch again,
   those already executed included. On the same path the second
   `ToolExecutionDispatched` is committed, which replay answers with
   `DuplicateToolExecution`: the session never loads again. And the conversation gets the
   entries of that call twice. Without the condition "proposed once",
   `JournalReplays` and `ConversationPaired` fail there as `EffectAtMostOnce` does.
   `docs/architecture/persistence.md` calls a terminal dispatch idempotent.
3. `plugin_lifecycle`: a disable is sent again, after a timeout or by a second caller,
   and concluded; then the plugin is enabled. One of the two frames, delayed at the
   host, finds the plugin active and no receipt of its own any more (`lib.rs:1565` compares with the
   last one), so it is applied: the journal says active, the host disabled.
   `docs/guides/creating-a-plugin.md` calls same-identity retries receipt-only.
4. `parallel_cancel`: `drive_graph_schedule` does not look at the branch again
   between its records, so a schedule is recorded as dispatched and stored after
   the cancellation of its fan-out was completed. `parallel_turn.rs` documents
   the outcome `Cancelled` as "no further branch effect was dispatched".
5. `child_cancel`: the daemon dies behind `GenericChildCancellationDispatched` and a
   named child has ended. The next drive observes that child and records its
   end before it looks at the outbox; the drive after that computes a failed
   projection with other children (or another code), which `plan_wait` refuses
   because a terminal one is committed. Every later drive fails there: the
   cancellation stays dispatched, neither completed nor ambiguous, and
   the parent never leaves the node. `docs/architecture/generic-child-graph-turn.md`
   says that recovery completes from an exact receipt. The same happens without a
   crash when a child ends while the cancellation waits for its approval.

The path of finding 4 breaks `Settles` of `Parallel` when a branch has a schedule and the daemon dies
between `GraphScheduleDispatched` and `GraphScheduleResolved` (`turn.rs:4630`,
`4833`, `4874`): the effect is neither reconciled nor repeated. The region of the
passing run therefore has no schedule.

### Observed while modelling, without a run

* Scheduler: an execution record is created and then filled
  (`scheduler/dependency/src/lib.rs:237`). A crash in between leaves a file that counts
  as claimed but cannot be listed, and the listing stops with a corruption error at
  every start, while ADR 0019 says that safe pre-dispatch work is not lost. The model has
  the torn claim; the passing run shows only that no occurrence is skipped over it.
* `docs/architecture/scheduling.md:29` says that failed turns receive a failure
  marker; a turn that returned `Ok` after its provider or its graph failed is
  marked as succeeded.
* A cancellation of a turn reads at most 4096 continuation records of all sessions,
  and fails for every session when there is one more, or a torn one anywhere
  (`dependency/src/continuation.rs:344`; `DecideCancel`).
* A creation of a continuation that is repeated after the record was torn by a crash or
  became terminal is refused (`dependency/src/continuation.rs:275`), while ADR 0018 calls
  exact creation retries idempotent. A receipt that is corrupt or cannot be read during reconciliation becomes
  a retryable host failure (`data/src/tool.rs:291`), while
  `docs/architecture/persistence.md` has it fail closed as ambiguous.
* Child graphs: `coordinate_spawn` never observes ends, so that with more proposals than
  `max_concurrent` the queued children are never dispatched and the node never
  completes; a creation that failed or was cut off behind its dispatch waits for ever with
  `child_creation_receipt_missing`, and keeps the receipts of its siblings from being
  recorded; `cancel_turn` is an error once the wait's continuation was resumed or expired
  (`turn.rs:15804`), which the first recorded end brings about. `Settles` excludes
  the first two by its conditions.
* The timeout of a join never elapses: the coordinator always passes a deadline
  in the future. The step budget is checked against the whole plan
  of a round, not per branch (`parallel_driver.rs:1243`).
* Plugin host: an unreadable newest generation is never replaced by the older
  one beside it (`lib.rs:5018`); a cancellation whose nonce was spent before a crash lost its
  receipt is answered as a replay until the grant expires (`1375`, `3165`); one that is
  carried out again then may replace the receipt in memory by one with another
  status, which the file does not get (`3205`), so that answers to one cancellation may
  differ; one that overtakes
  the registration of its invocation answers `already_terminal`; a backoff starts
  one more worker after cancellation (`1484`); a second request with a running id
  takes its token out of reach (`1450`); deliveries queued before a disable still run;
  the 32 permits are shared, so that a cancellation or a disable is refused by a
  host busy with what it should stop.
* `recover_session_journal` has no caller, so a torn tail stays
  (`persistence.rs:288`); a starting scheduler worker restores backups without the
  lock (`scheduler/dependency/src/lib.rs:726`); the connection to a dead scheduler
  worker is never replaced (`dependency/src/scheduler.rs:358`); recovery of memory
  writes may end a scheduled turn before `scheduler.fired` (`turn.rs:8373`).

## 4. Proofs

TLAPS checks these for every value of the constants: any number of writers,
callers, calls, daemons, branches, slots, frames, tasks, schedules and crashes. Every
invariant was first checked by TLC on the instance of its run or, where that takes too
long, with smaller bounds, then proved inductive with one lemma per action.

* `JournalProofs`: `TypeCorrectness`, `JournalChain`, `JournalDurability`,
  `JournalOptimisticConcurrency`, `JournalAppendOnly`.
  Assumed: `JournalAssumption` (the absent event and the free lock are no members
  of their sets, durabilities are among the three levels) and
  `GarbageAssumption` (an undecodable line is not a frame).
  `ChainIntact` and the others are not inductive: an append is checked in one
  step and written in another. `IInv` adds that the lock is held exactly by the
  writer in the middle of an append (`LockDiscipline`), that its checks therefore
  still hold when it writes (`ChecksStillHold`), that the frame to be synchronised is the
  last (`FrameWritten`), that a loaded view names a frame still in the file
  (`ViewCurrent`) and that acknowledged frames lie within `synced`
  (`AcksSynced`), which is what power loss spares. One lemma per action shows
  that `IInv` is preserved.
* `ContinuationProofs`: `TypeCorrectness`, `StoreImplementsGate`,
  `StoreResumesOwnKind`. Assumed: `ContinuationAssumption` (the kinds are
  disjoint sets of continuations, idle and free markers are outside). The
  refinement needs that a lock is held exactly by the caller writing behind it,
  that between rename and answer nobody else was told (`WriteInProgress`), that a
  decision to resume is made only by the operation of the kind (`DecisionSound`)
  and that what was told is what the record says (`ToldTruth`).

* `ToolDispatchProofs`: `TypeCorrect`, `EffectsHappenOnce`, `EffectsNeedConsent`,
  `UnloadableOnlyAfterRepeat`, `StreamsCommitOnce`, `ConversationStaysPaired`,
  `DecisionsFollowGate`, without a hypothesis on the session. Assumed:
  `ToolDispatchAssumption` (positive bounds; asking and rejected calls are disjoint
  subsets of the batch). `IInv` is a rely-guarantee argument. What the stores hold agrees (`StoresAgree`: journal, approvals, continuation, receipts and effects of
  one call tell one story as long as it was proposed once; consent and decisions
  agree in any case), and each handler's control point says what its last
  read still guarantees (`HandlerKnows`). A handler may rely on it because the endpoint
  admits one serving daemon, startup recovery touches only calls that were
  dispatched, and every other commit is protected by the comparison with the head
  it was prepared on.
* `ParallelProofs`: `TypeCorrect`, `EffectsHappenOnce`, `CompletionsHappened`,
  `CancellationIsFinal` and the refinement `RefinesForkJoin`. `IInv` says that the
  journal is a legal history (`JournalOK`: what a branch has passed has its
  evidence, what it has not reached has no record, and the ledger of receipts
  agrees with the world) and that what each coordinator has read is still true,
  but for a cancellation that has ended the branch meanwhile (`Knows`). An effect
  begins only for a node without a record, and every later drive finds the record.
  For the refinement, a terminated branch is a decision, a completed cancellation
  cancels all, a decided join takes the verdict, the merge hands on, and every
  other step stutters. `CancellationIsFinal` assumes a region without `schedule`
  nodes; the run `parallel_cancel` shows that the code does not keep the promise
  with one.
* `PluginHostProofs`: `TypeCorrect`, `DeliveriesRunOnce`, `ReceiptsAreTrue`,
  `AnswersAlwaysAgree`, `InactivityPreempts`, `SignalsAreKept` and the action
  property `UpdatesAreKept`. Assumed: `HostAssumption` (markers are no members of
  the sets, the queue and the attempts are not empty, invocation ids of executors
  and of state operations differ, being fresh identifiers) and `TornAssumption`
  (an unreadable file is not a document). `IInv` relates every slot to the shared
  state (`SlotOK`) and every two slots to each other (`Apart`). The holder of
  `state_writes` has the only document that may replace the file, and it is one
  legal update ahead of it (`Edit`); a delivery is claimed in the file before it is
  queued, an invocation is in the map before it looks at the status again. So of the tasks about one identity at most
  one is past the point that decides. `InactivityPreempts` and `SignalsAreKept` need
  more (`TokensOK`): an invocation that runs is listed under its own token, because it is
  dispatched once, and whoever is to answer "signalled", or finds a receipt that says
  so in memory or in the file, does so of an invocation whose token is cancelled or that
  is gone.
* `ChildGraphProofs`: `TypeCorrect`, `SessionsAreSingle`, `ConcurrencyIsBounded`,
  `ConclusionsAreTrue` and the action property `EndsAreFinal`. Assumed:
  `ChildGraphAssumption` (finitely many numbered tasks, positive limits). `IInv`
  says that what the drive took from the parent's records is still so when it acts
  (`Working`: what it means to approve is proposed and has consent, what it means
  to dispatch is approved and fits under the limit beside everything in flight,
  what it means to record is dispatched, what it observed of a child is still the
  child's end), and that a record never runs ahead of its child (`Creation`,
  `Verdict`). That no more than `n` tasks are the first `n` is a lemma of its own
  (`FirstFewAreFew`).
* `SchedulerProofs` and `ScheduledDeliveryProofs`: `WorkerConsistent`,
  `NothingSkipped`, `StoresConsistent`, `DeliveryTypeCorrect`, `DispatchIsSingle`,
  `SuccessIsEvident`, `RecoveriesAgree`. Assumed: `SchedulerAssumption` and
  `DeliveryAssumption` (kinds of schedules are disjoint, bounds are numbers, nobody
  is none of the tasks). The worker's part (`WorkerOK`) holds whatever its clients
  do: every occurrence behind the `next` of a schedule file, of its backup or of the
  document about to be written has an execution record, because the record is
  created first. The rest (`Delivers`) relates the stores and the tasks. `JournalOK`: an
  occurrence named in the journal is claimed and was dispatched once; a
  reconciliation says what every later scan says, because the occurrence is then
  *settled* (triggered, reconciled inside its window, or its window closed by the next
  `scheduler.fired`); a marker has its evidence and agrees with the reconciliations.
  `TaskOK`: what a task holds is claimed, unmarked and in nobody else's hands, and
  what it has not dispatched is not named in the journal (`HoldingOK`); at each
  control point what it is about to commit is still justified (`ExecutionOK`).
  `System`: no occurrence is held by two tasks or by a task and an answer under way,
  and for a resumed continuation there is a claim that won it and does not race for
  it again (`Won`), which is the evidence of a successful no-op. Growth of the journal is the
  hard part: the lemmas `GrownWindow`, `GrownSettled` and `GrownEvidence` say which
  results of a scan an append leaves alone.

Every invariant, action property and refinement of a passing run is the statement of a
theorem. Outside the prover's reach, and so left to TLC: liveness (`DriveReturns`,
`Settles`) and ENABLED. The runs that expect a violation show what does not hold,
so no theorem states their properties without what excludes the case (calls proposed
once, no `schedule` nodes).

For the proofs, conditions of `CASE` expressions in the models are written so that
no two of them hold at once (`Continuation`, `ToolDispatch`, `Parallel`,
`ScheduledDelivery`), which is what the code's `if` chains and `match` arms do.

## 5. Not modelled

* Tool dispatch: reconciliation of long-running processes, the path of generic
  styles, and plugin node actions, a second *serving* daemon (the endpoint admits one).
* Scheduling: scheduled wakes of graph nodes, a second poller, a worker that
  outlives its daemon and finishes the request, the removal of the backup file
  as a step of its own.
* Parallel branches: emit, plugin, child graph, child message and artifact nodes,
  regions inside a region, join timeouts.
* Child graphs: review nodes, child messages, child nodes inside a parallel branch,
  workspaces and the handoff of artifacts.
* Plugin host: the memory, context and compaction workers (the registration of
  `invoke`, one attempt), migration, concurrent loads, rate limits, audits, health
  and teardown, torn nonce and receipt files, frames of several sessions; plugins that
  register tools. Plugin
  runtime: its journalled protocol of invocations and deliveries.
* Continuation: payloads and their checksums beyond "complete or torn".
* The components marked `not_modelled` in `PROJECT.json`, with the reasons.

## 6. Plan

Order of the remaining work, the most consequential first.

1. Graph engine: traversal of a style graph. Event pipeline: order of handlers,
   short circuit, observer queues.
2. Process host: processes that survive their host; the flow-control window of the
   local connection as a bounded buffer.
3. Canonical variables (compare-and-set), memory outbox (written once across a
   crash), child messages and child nodes inside a parallel branch.
4. Expression engine: its evaluator as recursive functions against a reference
   definition.
5. Liveness of scheduled delivery and of the approval handler under weak fairness
   of the daemon's tasks, with finitely many crashes.
