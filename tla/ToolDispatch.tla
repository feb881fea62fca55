---------------------------- MODULE ToolDispatch ----------------------------
(***************************************************************************)
(* How one provider batch of tool calls is executed, approved, interrupted *)
(* and recovered.  Four stores take part, and no step writes two of them:  *)
(*                                                                         *)
(*   the session journal      the dispatch outbox (Journal: compare on the *)
(*                            sequence number, one event per commit)       *)
(*   the continuation store   resume-once approvals (Continuation)         *)
(*   the receipt store        terminal streams of the tool hosts           *)
(*   the tool host            the effect itself                            *)
(*                                                                         *)
(*   apps/runtime/logic/src/turn.rs     resolve_tool_calls,                *)
(*        execute_tool_call, execute_authorized_tool, resolve approval,    *)
(*        repair_terminal_tool_conversation, recover_startup_tools         *)
(*   apps/runtime/logic/src/session.rs  the reducer of the tool events     *)
(*   apps/runtime/dependency/src/supervised.rs, receipt.rs                 *)
(*                                                                         *)
(* The session's style is bound with a legacy adapter: resolve_tool_calls  *)
(* serves no other binding.  Bound generic styles execute their tools as   *)
(* graph nodes, and a session without a binding is refused.                *)
(*                                                                         *)
(* A runtime serialises the handlers of one session by its session gate,   *)
(* so a runtime has one handler here.  One daemon serves the endpoint; but *)
(* a second one is turned away only after its startup recovery, which runs *)
(* beside the first.                                                       *)
(***************************************************************************)
EXTENDS Naturals, FiniteSets

CONSTANTS
    Runtimes,     \* daemons on the same sessions root
    BatchSize,    \* number of calls the provider proposed
    AskCalls,     \* the calls whose policy outcome is ApprovalRequired
    RejectCalls,  \* the calls the policy rejects
    StreamLength, \* events of a tool stream: Started, outputs, one terminal
    MaxAsks,      \* bound: approvals requested for one call
    MaxProposals, \* bound: proposals committed of one call
    MaxHead       \* bound: committed events

Calls == 1..BatchSize
Asks == Calls \X (1..MaxAsks)

ASSUME ToolDispatchAssumption ==
    /\ BatchSize \in Nat \ {0}
    /\ AskCalls \subseteq Calls
    /\ RejectCalls \subseteq Calls \ AskCalls
    /\ StreamLength \in Nat \ {0, 1}
    /\ MaxAsks \in Nat \ {0}
    /\ MaxProposals \in Nat \ {0}
    /\ MaxHead \in Nat

VARIABLES
    head,     \* sequence of the last committed event
    exec,     \* tool_executions: the reducer's record of each call
    appr,     \* approvals: the reducer's record of each approval
    conv,     \* conversation entries of each call
    active,   \* the tool gate node of the legacy adapter is active
    proposals, \* ToolCallProposed events of each call
    poisoned, \* an event was committed that the reducer rejects
    cont,     \* state of each approval's continuation record
    receipt,  \* whether the terminal receipt of a call is stored
    effects,  \* number of times the host executed a call
    h         \* the handler of each runtime

journal == <<head, exec, appr, conv, active, proposals, poisoned>>
vars == <<journal, cont, receipt, effects, h>>

NoExecution == [state |-> "none", observed |-> 0, outcome |-> "none"]
Idle == [pc |-> "idle", kind |-> "none", call |-> 1, ask |-> 1, pos |-> 0, mode |-> "none",
         skip |-> 0, approved |-> FALSE, resume |-> FALSE, moved |-> FALSE, todo |-> {}]
Down == [Idle EXCEPT !.pc = "down"]

Init ==
    /\ head = 0
    /\ exec = [c \in Calls |-> NoExecution]
    /\ appr = [a \in Asks |-> "none"]
    /\ conv = [c \in Calls |-> [calls |-> 0, results |-> 0]]
    /\ active = FALSE
    /\ proposals = [c \in Calls |-> 0]
    /\ poisoned = FALSE
    /\ cont = [a \in Asks |-> "absent"]
    /\ receipt = [c \in Calls |-> FALSE]
    /\ effects = [c \in Calls |-> 0]
    /\ h = [r \in Runtimes |-> Down]

At(r, p) == h[r].pc = p
Goto(r, p) == h' = [h EXCEPT ![r].pc = p]
\* The handler returns; an error in startup recovery stops the daemon.
Finish(r) == h' = [h EXCEPT ![r] = IF h[r].kind = "startup" THEN Down ELSE Idle]

\* commit_next: the event is appended when nobody committed since the handler's
\* position; the reducer does not see it before it is durable.
Commit(r, next) ==
    /\ h[r].pos = head
    /\ head < MaxHead
    /\ head' = head + 1
    /\ h' = [h EXCEPT ![r] = [next EXCEPT !.pos = head + 1]]

-----------------------------------------------------------------------------
(***************************************************************************)
(* The reducer: a rejected event stays in the journal, and from then on    *)
(* load_session fails.                                                     *)
(***************************************************************************)
ApplyToolDispatch(c) ==
    IF exec[c].state # "none"
    THEN poisoned' = TRUE /\ UNCHANGED exec
    ELSE /\ exec' = [exec EXCEPT ![c].state = "dispatched"]
         /\ UNCHANGED poisoned

ApplyStarted(c) ==
    IF exec[c].state \in {"started", "terminal"}
    THEN poisoned' = TRUE /\ UNCHANGED exec
    ELSE /\ exec' = IF exec[c].state = "none" THEN exec
                    ELSE [exec EXCEPT ![c].state = "started", ![c].observed = @ + 1]
         /\ UNCHANGED poisoned

IncrementToolEventCount(c) ==
    IF exec[c].state = "terminal"
    THEN poisoned' = TRUE /\ UNCHANGED exec
    ELSE /\ exec' = IF exec[c].state = "none" THEN exec ELSE [exec EXCEPT ![c].observed = @ + 1]
         /\ UNCHANGED poisoned

MarkToolTerminal(c, outcome) ==
    IF exec[c].state = "terminal"
    THEN poisoned' = TRUE /\ UNCHANGED exec
    ELSE /\ exec' = [exec EXCEPT ![c] = [state |-> "terminal", observed |-> @.observed + 1,
                                         outcome |-> outcome]]
         /\ UNCHANGED poisoned

ApplyApprovalResolved(a, approved) ==
    IF appr[a] # "pending"
    THEN poisoned' = TRUE /\ UNCHANGED appr
    ELSE /\ appr' = [appr EXCEPT ![a] = IF approved THEN "approved" ELSE "denied"]
         /\ UNCHANGED poisoned

-----------------------------------------------------------------------------
(***************************************************************************)
(* resolve_tool_calls: the calls of the batch, in order                    *)
(***************************************************************************)
\* The model answered with the batch; its tool gate node is entered.
StartTurn(r) ==
    /\ At(r, "idle")
    /\ head = 0
    /\ Commit(r, [Idle EXCEPT !.pc = "propose", !.kind = "turn"])
    /\ active' = TRUE
    /\ UNCHANGED <<exec, appr, conv, proposals, poisoned, cont, receipt, effects>>

\* execute_tool_call: the session is loaded, ToolCallProposed is committed, and
\* the policy decides.
AfterProposal(c) ==
    CASE c \in AskCalls -> "create"
      [] c \in RejectCalls -> "reject"
      [] OTHER -> "approve"

ProposeCall(r) ==
    /\ At(r, "propose")
    /\ ~poisoned
    /\ proposals[h[r].call] < MaxProposals
    /\ Commit(r, [h[r] EXCEPT !.pc = AfterProposal(h[r].call), !.mode = "fresh", !.skip = 0])
    /\ proposals' = [proposals EXCEPT ![h[r].call] = @ + 1]
    /\ UNCHANGED <<exec, appr, conv, active, poisoned, cont, receipt, effects>>

\* The identity of the continuation is that of the proposal: never used before.
CreateContinuation(r) ==
    /\ At(r, "create")
    /\ \E k \in 1..MaxAsks :
          /\ cont[<<h[r].call, k>>] = "absent"
          /\ \A j \in 1..(k-1) : cont[<<h[r].call, j>>] # "absent"
          /\ cont' = [cont EXCEPT ![<<h[r].call, k>>] = "pending"]
          /\ h' = [h EXCEPT ![r].pc = "request", ![r].ask = k]
    /\ UNCHANGED <<journal, receipt, effects>>

RequestApproval(r) ==
    /\ At(r, "request")
    /\ Commit(r, Idle)
    /\ appr' = [appr EXCEPT ![<<h[r].call, h[r].ask>>] = "pending"]
    /\ UNCHANGED <<exec, conv, active, proposals, poisoned, cont, receipt, effects>>

RejectCall(r) ==
    /\ At(r, "reject")
    /\ Commit(r, [h[r] EXCEPT !.pc = "convCall"])
    /\ MarkToolTerminal(h[r].call, "authorization")
    /\ UNCHANGED <<appr, conv, active, proposals, cont, receipt, effects>>

-----------------------------------------------------------------------------
(***************************************************************************)
(* execute_authorized_tool and the supervised dependency                   *)
(***************************************************************************)
ApproveCall(r) ==
    /\ At(r, "approve")
    /\ Commit(r, [h[r] EXCEPT !.pc = "dispatch"])
    /\ UNCHANGED <<exec, appr, conv, active, proposals, poisoned, cont, receipt, effects>>

DispatchCall(r) ==
    /\ At(r, "dispatch")
    /\ Commit(r, [h[r] EXCEPT !.pc = "receipt"])
    /\ ApplyToolDispatch(h[r].call)
    /\ UNCHANGED <<appr, conv, active, proposals, cont, receipt, effects>>

\* Mutant: a reconciliation without a receipt falls through to the host.
WithoutReceiptRedispatch(r) == Goto(r, "host")

\* A reconciliation never reaches the host: AmbiguousToolExecution.
WithoutReceipt(r) ==
    IF h[r].mode = "reconcile" THEN Finish(r) ELSE Goto(r, "host")

\* receipts.load: a verified receipt, no receipt, or a receipt that cannot be
\* read or verified, which the data layer reports as an unavailable host.
LoadReceipt(r) ==
    /\ At(r, "receipt")
    /\ \/ receipt[h[r].call] /\ Goto(r, "project")
       \/ ~receipt[h[r].call] /\ WithoutReceipt(r)
       \/ receipt[h[r].call] /\ Goto(r, "unavailable")
    /\ UNCHANGED <<journal, cont, receipt, effects>>

\* The isolated host executes the call; it may die before or after the effect.
HostExecutes(r) ==
    /\ At(r, "host")
    /\ \/ /\ effects' = [effects EXCEPT ![h[r].call] = @ + 1]
          /\ Goto(r, "persist") \/ Goto(r, "unavailable")
       \/ Goto(r, "unavailable") /\ UNCHANGED effects
    /\ UNCHANGED <<journal, cont, receipt>>

\* receipts.persist: written beside and renamed.  An existing receipt of another
\* stream is a conflict; the directory sync may fail after the rename.
PersistReceipt(r) ==
    /\ At(r, "persist")
    /\ \/ receipt' = [receipt EXCEPT ![h[r].call] = TRUE] /\ Goto(r, "project")
       \/ receipt' = [receipt EXCEPT ![h[r].call] = TRUE] /\ Goto(r, "unavailable")
       \/ UNCHANGED receipt /\ Goto(r, "unavailable")
    /\ UNCHANGED <<journal, cont, effects>>

\* Every other tool error is committed as a retryable host failure.
CommitHostUnavailable(r) ==
    /\ At(r, "unavailable")
    /\ Commit(r, [h[r] EXCEPT !.pc = "convCall"])
    /\ MarkToolTerminal(h[r].call, "host_unavailable")
    /\ UNCHANGED <<appr, conv, active, proposals, cont, receipt, effects>>

\* Mutant: a reconciliation commits the stream from its beginning.
FirstEventFromStart(c) == 0

\* The prefix that an earlier handler committed is skipped.
FirstEvent(c) == exec[c].observed

\* The last event of a stream is its result, its failure or its cancellation.
ProjectEvent(r) ==
    LET c == h[r].call
        i == h[r].skip + 1
    IN  /\ At(r, "project")
        /\ Commit(r, [h[r] EXCEPT !.skip = i,
                                  !.pc = IF i = StreamLength THEN "convCall" ELSE "project"])
        /\ \/ i = StreamLength /\ \E outcome \in {"stream", "cancelled"} :
                                      MarkToolTerminal(c, outcome)
           \/ i = 1 /\ ApplyStarted(c)
           \/ i \notin {1, StreamLength} /\ IncrementToolEventCount(c)
        /\ UNCHANGED <<appr, conv, active, proposals, cont, receipt, effects>>

-----------------------------------------------------------------------------
(***************************************************************************)
(* commit_tool_conversation, commit_tool_result_conversation               *)
(***************************************************************************)
\* Mutant: the batch is left one call too late.
NextCallPastEnd(r) ==
    IF h[r].call <= BatchSize
    THEN [h[r] EXCEPT !.pc = "propose", !.call = @ + 1]
    ELSE [h[r] EXCEPT !.pc = "model"]

\* The next call of the batch, or its end.
NextCall(r) ==
    IF h[r].call < BatchSize
    THEN [h[r] EXCEPT !.pc = "propose", !.call = @ + 1,
                      !.kind = IF @ = "turn" THEN "turn" ELSE "loop"]
    ELSE [h[r] EXCEPT !.pc = "model"]

\* A handler that committed the cancellation of its call gives up the batch.
AfterConversation(r) ==
    IF h[r].kind = "startup" THEN [h[r] EXCEPT !.pc = "scanning"]
    ELSE IF exec[h[r].call].outcome = "cancelled" /\ h[r].skip = StreamLength
    THEN [h[r] EXCEPT !.pc = "model"]
    ELSE IF h[r].kind = "approval" THEN [h[r] EXCEPT !.pc = "repair"]
    ELSE NextCall(r)

CommitToolCall(r) ==
    /\ At(r, "convCall")
    /\ Commit(r, [h[r] EXCEPT !.pc = "convResult"])
    /\ conv' = [conv EXCEPT ![h[r].call].calls = @ + 1]
    /\ UNCHANGED <<exec, appr, active, proposals, poisoned, cont, receipt, effects>>

CommitToolResult(r) ==
    /\ At(r, "convResult")
    /\ Commit(r, AfterConversation(r))
    /\ conv' = [conv EXCEPT ![h[r].call].results = @ + 1]
    /\ UNCHANGED <<exec, appr, active, proposals, poisoned, cont, receipt, effects>>

\* Mutant: the repair does not look at what an earlier handler committed.
RepairNeedsBlind(c) == "convCall"

\* repair_terminal_tool_conversation: the missing suffix of the two entries.
RepairNeeds(c) ==
    CASE conv[c] = [calls |-> 0, results |-> 0] -> "convCall"
      [] conv[c] = [calls |-> 1, results |-> 0] -> "convResult"
      [] conv[c] = [calls |-> 1, results |-> 1] -> "nothing"
      [] OTHER -> "conflict"

RepairConversation(r) ==
    LET c == h[r].call
        needs == RepairNeeds(c)
    IN  /\ At(r, "repair")
        /\ IF poisoned \/ exec[c].state # "terminal" \/ needs = "conflict"
           THEN Finish(r)
           ELSE h' = [h EXCEPT ![r] =
                         IF needs # "nothing" THEN [h[r] EXCEPT !.pc = needs]
                         ELSE IF h[r].resume THEN NextCall(r)
                         ELSE [h[r] EXCEPT !.pc = "model"]]
        /\ UNCHANGED <<journal, cont, receipt, effects>>

\* The batch is complete, was cancelled, or was denied without a resume: the next
\* model request or the cancellation is committed, which ends the tool gate.
LeaveToolGate(r) ==
    /\ At(r, "model")
    /\ ~poisoned
    /\ Commit(r, Idle)
    /\ active' = FALSE
    /\ UNCHANGED <<exec, appr, conv, proposals, poisoned, cont, receipt, effects>>

-----------------------------------------------------------------------------
(***************************************************************************)
(* Resolution of an approval                                               *)
(***************************************************************************)
\* Mutant: the opposite decision is not refused once the gate was left.
ClaimApprovalAnyState(r, a, approved, resume) ==
    LET target == IF approved THEN "resumed" ELSE "cancelled"
    IN  /\ At(r, "idle")
        /\ approved => resume
        /\ cont[a] # "absent"
        /\ cont' = [cont EXCEPT ![a] = IF @ = "pending" THEN target ELSE @]
        /\ h' = [h EXCEPT ![r] = [Idle EXCEPT !.pc = "decide", !.kind = "approval",
                                     !.call = a[1], !.ask = a[2], !.approved = approved,
                                     !.resume = resume, !.moved = (cont[a] = "pending")]]
        /\ UNCHANGED <<journal, receipt, effects>>

\* resolve_approval: the resume-once gate.  A caller that comes second is
\* answered with moved = FALSE, and the opposite decision is an error.
ClaimApproval(r, a, approved, resume) ==
    LET target == IF approved THEN "resumed" ELSE "cancelled"
    IN  /\ At(r, "idle")
        /\ approved => resume
        /\ cont[a] \in {"pending", target}
        /\ cont' = [cont EXCEPT ![a] = target]
        /\ h' = [h EXCEPT ![r] = [Idle EXCEPT !.pc = "decide", !.kind = "approval",
                                     !.call = a[1], !.ask = a[2], !.approved = approved,
                                     !.resume = resume, !.moved = (cont[a] = "pending")]]
        /\ UNCHANGED <<journal, receipt, effects>>

\* Mutant: a repeated decision on a dispatched call starts it afresh.
ApprovalRecoveryFresh(moved, approved, approval, execution) ==
    IF moved \/ approval = "pending" THEN "commit"
    ELSE IF approval # (IF approved THEN "approved" ELSE "denied") THEN "invalid"
    ELSE IF execution = "terminal" THEN "idempotent"
    ELSE "resume"

\* approval_recovery_action, in the code's order.
ApprovalRecoveryAction(moved, approved, approval, execution) ==
    IF moved \/ approval = "pending" THEN "commit"
    ELSE IF approval # (IF approved THEN "approved" ELSE "denied") THEN "invalid"
    ELSE CASE execution = "none" -> "resume"
           [] execution = "terminal" -> "idempotent"
           [] OTHER -> IF approved THEN "reconcile" ELSE "invalid"

\* Mutant: the call is executed whatever was decided.
AfterResolutionAlways(r) ==
    IF exec[h[r].call].state = "terminal" THEN "repair" ELSE "approve"

\* What follows the resolution: the call, its refusal, or only the repair.
AfterResolution(r) ==
    IF exec[h[r].call].state = "terminal" THEN "repair"
    ELSE IF h[r].approved THEN "approve" ELSE "deny"

\* The session is loaded and the next step chosen.  A terminal call whose tool
\* gate is still active has its model resume pending, and is resumed.
DecideApproval(r) ==
    LET c == h[r].call
        a == <<c, h[r].ask>>
        action == ApprovalRecoveryAction(h[r].moved, h[r].approved, appr[a], exec[c].state)
        resumed == action = "idempotent" /\ h[r].resume /\ active
        fresh == [h[r] EXCEPT !.pos = head, !.mode = "fresh"]
    IN  /\ At(r, "decide")
        /\ IF poisoned \/ appr[a] = "none" THEN Finish(r)
           ELSE h' = [h EXCEPT ![r] =
                  CASE action = "commit" -> [fresh EXCEPT !.pc = "resolution"]
                    [] action = "resume" \/ resumed -> [fresh EXCEPT !.pc = AfterResolution(r)]
                    [] action = "reconcile" -> [fresh EXCEPT !.pc = "receipt", !.mode = "reconcile",
                                                             !.skip = FirstEvent(c)]
                    [] OTHER -> Idle]
        /\ UNCHANGED <<journal, cont, receipt, effects>>

CommitResolution(r) ==
    /\ At(r, "resolution")
    /\ Commit(r, [h[r] EXCEPT !.pc = AfterResolution(r)])
    /\ ApplyApprovalResolved(<<h[r].call, h[r].ask>>, h[r].approved)
    /\ UNCHANGED <<exec, conv, active, proposals, cont, receipt, effects>>

DenyCall(r) ==
    /\ At(r, "deny")
    /\ Commit(r, [h[r] EXCEPT !.pc = "repair"])
    /\ MarkToolTerminal(h[r].call, "permission_denied")
    /\ UNCHANGED <<appr, conv, active, proposals, cont, receipt, effects>>

-----------------------------------------------------------------------------
(***************************************************************************)
(* Startup: recover_startup_tools runs before the daemon serves requests   *)
(***************************************************************************)
ListReceipts(r) ==
    /\ At(r, "down")
    /\ h' = [h EXCEPT ![r] = [Idle EXCEPT !.pc = "scanning", !.kind = "startup",
                                          !.todo = {c \in Calls : receipt[c]}]]
    /\ UNCHANGED <<journal, cont, receipt, effects>>

ApprovalOwned(c) ==
    \E a \in Asks : a[1] = c /\ appr[a] = "approved"

ReconcileReceipt(r, c) ==
    /\ At(r, "scanning")
    /\ c \in h[r].todo
    /\ LET rest == [h[r] EXCEPT !.todo = @ \ {c}]
       IN  h' = [h EXCEPT ![r] =
                   IF poisoned THEN Down
                   ELSE IF exec[c].state \in {"none", "terminal"} \/ ApprovalOwned(c) THEN rest
                   ELSE [rest EXCEPT !.pc = "receipt", !.call = c, !.pos = head,
                                     !.mode = "reconcile", !.skip = FirstEvent(c)]]
    /\ UNCHANGED <<journal, cont, receipt, effects>>

Serving(r) == h[r].pc # "down" /\ h[r].kind # "startup"

\* prepare_local_endpoint: the daemon stops when another one answers.
Serve(r) ==
    /\ At(r, "scanning")
    /\ h[r].todo = {}
    /\ h' = [h EXCEPT ![r] = IF \E q \in Runtimes : Serving(q) THEN Down ELSE Idle]
    /\ UNCHANGED <<journal, cont, receipt, effects>>

-----------------------------------------------------------------------------
Committing == {"propose", "request", "reject", "approve", "dispatch", "unavailable", "project",
               "convCall", "convResult", "resolution", "deny", "model"}

\* An error ends the handler: a lost race for the next sequence, a session that
\* does not load, or a failed append.  A turn closes its tool gate, an approval
\* does not, and startup stops the daemon.
Fail(r) ==
    /\ h[r].pc \in Committing
    /\ LET closes == h[r].kind = "turn" /\ active /\ ~poisoned
       IN  /\ closes => head < MaxHead
           /\ active' = (active /\ ~closes)
           /\ head' = IF closes THEN head + 1 ELSE head
    /\ Finish(r)
    /\ UNCHANGED <<exec, appr, conv, proposals, poisoned, cont, receipt, effects>>

\* The daemon is killed; a host that was executing may still finish.
Kill(r) ==
    /\ h[r].pc # "down"
    /\ effects' \in {effects} \cup
                   (IF At(r, "host") THEN {[effects EXCEPT ![h[r].call] = @ + 1]} ELSE {})
    /\ h' = [h EXCEPT ![r] = Down]
    /\ UNCHANGED <<journal, cont, receipt>>

HandlerStep(r) ==
    \/ ProposeCall(r) \/ CreateContinuation(r) \/ RequestApproval(r) \/ RejectCall(r)
    \/ ApproveCall(r) \/ DispatchCall(r) \/ LoadReceipt(r) \/ HostExecutes(r)
    \/ PersistReceipt(r) \/ CommitHostUnavailable(r) \/ ProjectEvent(r)
    \/ CommitToolCall(r) \/ CommitToolResult(r) \/ RepairConversation(r) \/ LeaveToolGate(r)
    \/ DecideApproval(r) \/ CommitResolution(r) \/ DenyCall(r)
    \/ (\E c \in Calls : ReconcileReceipt(r, c)) \/ Serve(r) \/ Fail(r)

Next ==
    \E r \in Runtimes :
        \/ StartTurn(r)
        \/ \E a \in Asks, approved \in BOOLEAN, resume \in BOOLEAN :
              ClaimApproval(r, a, approved, resume)
        \/ ListReceipts(r)
        \/ HandlerStep(r)
        \/ Kill(r)

Spec == Init /\ [][Next]_vars

-----------------------------------------------------------------------------
(***************************************************************************)
(* Correctness                                                             *)
(***************************************************************************)
Handlers ==
    [pc : Committing \cup {"idle", "down", "create", "receipt", "host", "persist", "repair",
                           "decide", "scanning"},
     kind : {"none", "turn", "loop", "approval", "startup"},
     call : Calls, ask : 1..MaxAsks, pos : 0..MaxHead,
     mode : {"none", "fresh", "reconcile"}, skip : Nat,
     approved : BOOLEAN, resume : BOOLEAN, moved : BOOLEAN, todo : SUBSET Calls]

Executions ==
    [state : {"none", "dispatched", "started", "terminal"}, observed : Nat,
     outcome : {"none", "stream", "cancelled", "host_unavailable", "authorization",
                "permission_denied"}]

\* Every variable has the shape the code gives it.
TypeOK ==
    /\ head \in 0..MaxHead
    /\ exec \in [Calls -> Executions]
    /\ appr \in [Asks -> {"none", "pending", "approved", "denied"}]
    /\ conv \in [Calls -> [calls : Nat, results : Nat]]
    /\ active \in BOOLEAN
    /\ proposals \in [Calls -> 0..MaxProposals]
    /\ poisoned \in BOOLEAN
    /\ cont \in [Asks -> {"absent", "pending", "resumed", "cancelled"}]
    /\ receipt \in [Calls -> BOOLEAN]
    /\ effects \in [Calls -> Nat]
    /\ h \in [Runtimes -> Handlers]

\* A repeated decision on an approval goes on with the rest of the batch while the
\* tool gate is active, whether or not those calls were proposed before.  What
\* the other properties promise of a call is promised until that happens to it.
ProposedOnce(c) == proposals[c] <= 1

\* docs/architecture/persistence.md:54: receipt_only recovery "must not call a
\* host when the receipt is absent", and a repeated decision is idempotent: no
\* call is executed twice.
EffectAtMostOnce ==
    \A c \in Calls : effects[c] <= 1

\* A proposal is executed at most once: not twice by two daemons, a repeated
\* approval, a crash at any point, or startup recovery, as long as no handler
\* proposes its call again.
ProposalRunsOnce ==
    \A c \in Calls : ProposedOnce(c) => effects[c] <= 1

\* Nothing the policy asks about runs without a durable approval, both in the
\* continuation store and in the journal, nothing it rejects runs at all, and
\* whatever reached the host is in the outbox.
EffectOnlyWithConsent ==
    \A c \in Calls : effects[c] > 0 =>
        /\ exec[c].state # "none"
        /\ c \notin RejectCalls
        /\ c \in AskCalls => \E a \in Asks : /\ a[1] = c
                                            /\ appr[a] = "approved"
                                            /\ cont[a] = "resumed"

\* commit_next appends without asking the reducer: an event that replay rejects,
\* after which the session never loads again, is committed only after a handler
\* has proposed some call a second time, and by no interleaving of other steps.
JournalReplays ==
    poisoned => \E c \in Calls : ~ProposedOnce(c)

\* The stream of a host is committed completely and once, however many handlers
\* took part, and only when its receipt is durable.
StreamProjectedOnce ==
    \A c \in Calls : ProposedOnce(c) =>
        /\ exec[c].outcome \in {"stream", "cancelled"} =>
              exec[c].observed = StreamLength /\ receipt[c]
        /\ exec[c].state # "terminal" => exec[c].observed < StreamLength
        /\ exec[c].observed <= StreamLength

\* The conversation gets at most one call and one result entry per tool call,
\* in that order and only for a call that has ended.
ConversationPaired ==
    \A c \in Calls : ProposedOnce(c) =>
        /\ conv[c].results <= conv[c].calls
        /\ conv[c].calls <= 1
        /\ conv[c].calls > 0 => exec[c].state = "terminal"

\* The journal never records another decision than the one that won the gate.
DecisionMatchesGate ==
    \A a \in Asks :
        /\ appr[a] = "approved" => cont[a] = "resumed"
        /\ appr[a] = "denied" => cont[a] = "cancelled"

=============================================================================
