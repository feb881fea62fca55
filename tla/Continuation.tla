---------------------------- MODULE Continuation ----------------------------
(***************************************************************************)
(* Durable continuations: one checksummed JSON file per continuation and   *)
(* one lock file beside it.  Approvals, deferred turns and waiting graph   *)
(* nodes are resumed, cancelled or expired through this store, by callers  *)
(* in any number of runtime tasks and processes.                           *)
(*                                                                         *)
(*   apps/runtime/dependency/src/continuation.rs   FileContinuation...     *)
(*   apps/runtime/data/src/continuation.rs         resolve, ...            *)
(*   apps/runtime/logic/src/continuation.rs        ContinuationLogic       *)
(*                                                                         *)
(* The business operations read the record under its lock, release the    *)
(* lock, decide, and take it again for the transition: the decision may be *)
(* stale.  A write is several steps; the process may die between them.     *)
(***************************************************************************)
EXTENDS Naturals, FiniteSets, Sequences

CONSTANTS
    Conts,      \* continuation identities
    Callers,    \* tasks that operate on them
    Approvals,  \* the continuations that wait for a manual decision
    Deferred,   \* the continuations of deferred turns; the rest are graph waits
    LookupLimit, \* records one cancellation lookup may read (4096 in the code)
    NoCont,     \* a caller that is idle
    NoCaller    \* the lock is free

ASSUME ContinuationAssumption ==
    /\ Approvals \subseteq Conts
    /\ Deferred \subseteq Conts
    /\ Approvals \cap Deferred = {}
    /\ LookupLimit \in Nat
    /\ NoCont \notin Conts
    /\ NoCaller \notin Callers

GraphWaits == Conts \ (Approvals \cup Deferred)

Terminal == {"resumed", "cancelled", "expired"}
\* "torn": the file exists and its content is not a complete record.
RecordStates == {"absent", "torn", "pending"} \cup Terminal

Operations == {"none", "create", "resolve", "wake", "cancel", "terminate"}

VARIABLES
    rec,     \* the record file of each continuation
    lock,    \* holder of each lock file
    pc,      \* where each caller is
    on,      \* the continuation each caller operates on
    op,      \* the operation it performs
    target,  \* the state it wants the continuation to reach
    told     \* per continuation, every answer "transitioned": the states reported

vars == <<rec, lock, pc, on, op, target, told>>

Init ==
    /\ rec = [c \in Conts |-> "absent"]
    /\ lock = [c \in Conts |-> NoCaller]
    /\ pc = [u \in Callers |-> "idle"]
    /\ on = [u \in Callers |-> NoCont]
    /\ op = [u \in Callers |-> "none"]
    /\ target = [u \in Callers |-> "none"]
    /\ told = [c \in Conts |-> <<>>]

-----------------------------------------------------------------------------
\* The operation of caller u ends, by an answer, an error or a crash.
Return(u) ==
    /\ pc' = [pc EXCEPT ![u] = "idle"]
    /\ on' = [on EXCEPT ![u] = NoCont]
    /\ op' = [op EXCEPT ![u] = "none"]
    /\ target' = [target EXCEPT ![u] = "none"]

(***************************************************************************)
(* create_continuation.  An exact retry is accepted while the record still *)
(* equals the request, that is while it is pending, and refused after it;  *)
(* both leave the record alone.  The file is created empty and then        *)
(* filled: write_new.                                                      *)
(***************************************************************************)
CreateExisting(u, c) ==
    /\ pc[u] = "idle"
    /\ lock[c] = NoCaller
    /\ rec[c] # "absent"
    /\ UNCHANGED vars

CreateFile(u, c) ==
    /\ pc[u] = "idle"
    /\ lock[c] = NoCaller
    /\ rec[c] = "absent"
    /\ rec' = [rec EXCEPT ![c] = "torn"]
    /\ lock' = [lock EXCEPT ![c] = u]
    /\ pc' = [pc EXCEPT ![u] = "filling"]
    /\ on' = [on EXCEPT ![u] = c]
    /\ op' = [op EXCEPT ![u] = "create"]
    /\ UNCHANGED <<target, told>>

FillFile(u) ==
    /\ pc[u] = "filling"
    /\ rec' = [rec EXCEPT ![on[u]] = "pending"]
    /\ lock' = [lock EXCEPT ![on[u]] = NoCaller]
    /\ Return(u)
    /\ UNCHANGED <<told>>

-----------------------------------------------------------------------------
(***************************************************************************)
(* The first half of an operation: load_continuation and the decision.     *)
(* The decision is the state to ask for, or "refused" or "replayed", which *)
(* end the operation with an error or an answer that nothing was moved.    *)
(***************************************************************************)

\* resolve_approval: only a manual continuation; the state is not looked at.
DecideResolve(c, t) ==
    IF c \in Approvals /\ rec[c] \in {"pending"} \cup Terminal THEN t ELSE "refused"

\* wake_continuation: a claim later than the expiry is refused and leaves the
\* record pending; a resumed continuation is answered as a replay.
DecideWakeDeferred(c, late) ==
    IF late \/ rec[c] \in {"absent", "torn", "cancelled", "expired"} THEN "refused"
    ELSE IF rec[c] = "resumed" THEN "replayed" ELSE "resumed"

\* wake_graph_node: a late claim expires the wait.
DecideWakeGraph(c, late) ==
    CASE rec[c] \in {"absent", "torn", "cancelled"} -> "refused"
      [] rec[c] = "expired" -> IF late THEN "expired" ELSE "refused"
      [] rec[c] = "resumed" -> IF late THEN "refused" ELSE "replayed"
      [] rec[c] = "pending" -> IF late THEN "expired" ELSE "resumed"

\* Mutant: the decision does not look at what kind of work is waiting.
DecideWakeAnyKind(c, late) == DecideWakeDeferred(c, late)

\* The payload must be of the operation's own kind.
DecideWake(c, late) ==
    CASE c \in Deferred -> DecideWakeDeferred(c, late)
      [] c \in GraphWaits -> DecideWakeGraph(c, late)
      [] OTHER -> "refused"

\* Mutant: the early returns after the load are missing.
DecidedAlways(u, c, o, t) ==
    /\ pc[u] = "idle"
    /\ pc' = [pc EXCEPT ![u] = "decided"]
    /\ on' = [on EXCEPT ![u] = c]
    /\ op' = [op EXCEPT ![u] = o]
    /\ target' = [target EXCEPT ![u] = t]
    /\ UNCHANGED <<rec, lock, told>>

Decided(u, c, o, t) ==
    /\ pc[u] = "idle"
    /\ IF t \in Terminal
       THEN /\ pc' = [pc EXCEPT ![u] = "decided"]
            /\ on' = [on EXCEPT ![u] = c]
            /\ op' = [op EXCEPT ![u] = o]
            /\ target' = [target EXCEPT ![u] = t]
       ELSE UNCHANGED <<pc, on, op, target>>
    /\ UNCHANGED <<rec, lock, told>>

ResolveApproval(u, c, approved) ==
    /\ lock[c] = NoCaller
    /\ Decided(u, c, "resolve",
               DecideResolve(c, IF approved THEN "resumed" ELSE "cancelled"))

WakeContinuation(u, c, late) ==
    /\ lock[c] = NoCaller
    /\ Decided(u, c, "wake", DecideWake(c, late))

\* cancel_turn looks its graph wait up by token: it reads every record of every
\* session without a lock, and one that does not decode, or one too many,
\* fails the lookup for all of them.
DecideCancel(c) ==
    IF \/ \E d \in Conts : rec[d] = "torn"
       \/ Cardinality({d \in Conts : rec[d] # "absent"}) > LookupLimit
    THEN "refused"
    ELSE CASE rec[c] = "pending" -> "cancelled"
           [] rec[c] = "cancelled" -> "replayed"
           [] OTHER -> "refused"

CancelTurn(u, c) ==
    /\ c \in GraphWaits
    /\ Decided(u, c, "cancel", DecideCancel(c))

\* transition_terminal does not read the record first.
TransitionTerminal(u, c, t) ==
    /\ t \in {"cancelled", "expired"}
    /\ c \notin Deferred
    /\ Decided(u, c, "terminate", t)

-----------------------------------------------------------------------------
(***************************************************************************)
(* The second half: transition_continuation, under the lock.               *)
(***************************************************************************)

MayReplace(c) == rec[c] = "pending"

\* The temporary file is complete and synced; the rename makes it the record.
ReplaceRecord(u) ==
    LET c == on[u] IN
    /\ pc[u] = "decided"
    /\ lock[c] = NoCaller
    /\ rec[c] # target[u]
    /\ MayReplace(c)
    /\ rec' = [rec EXCEPT ![c] = target[u]]
    /\ lock' = [lock EXCEPT ![c] = u]
    /\ pc' = [pc EXCEPT ![u] = "renamed"]
    /\ UNCHANGED <<on, op, target, told>>

\* The directory is synced and the caller is told that it won, except that a
\* wake that expired its graph wait reports the expiry as an error.
ReplyTransitioned(u) ==
    /\ pc[u] = "renamed"
    /\ lock' = [lock EXCEPT ![on[u]] = NoCaller]
    /\ told' = IF op[u] = "wake" /\ target[u] = "expired" THEN told
               ELSE [told EXCEPT ![on[u]] = Append(@, target[u])]
    /\ Return(u)
    /\ UNCHANGED <<rec>>

\* Mutant: a caller whose state is already there is told that it won as well.
ReplyAlwaysTransitioned(u) ==
    /\ pc[u] = "decided"
    /\ lock[on[u]] = NoCaller
    /\ rec[on[u]] = target[u] \/ ~MayReplace(on[u])
    /\ told' = IF rec[on[u]] = target[u] THEN [told EXCEPT ![on[u]] = Append(@, target[u])]
               ELSE told
    /\ Return(u)
    /\ UNCHANGED <<rec, lock>>

\* The record is already where the caller wants it, or somewhere else for good:
\* the answer is that nothing was moved, or a state conflict.
ReplyNotTransitioned(u) ==
    /\ pc[u] = "decided"
    /\ lock[on[u]] = NoCaller
    /\ rec[on[u]] = target[u] \/ ~MayReplace(on[u])
    /\ Return(u)
    /\ UNCHANGED <<rec, lock, told>>

-----------------------------------------------------------------------------
\* The process of a caller dies: nothing is answered, the lock is released, and
\* the file stays as it is.
Crash(u) ==
    /\ pc[u] # "idle"
    /\ lock' = [c \in Conts |-> IF lock[c] = u THEN NoCaller ELSE lock[c]]
    /\ Return(u)
    /\ UNCHANGED <<rec, told>>

CallerStep(u) ==
    \/ \E c \in Conts :
          \/ CreateExisting(u, c)
          \/ CreateFile(u, c)
          \/ \E flag \in BOOLEAN : ResolveApproval(u, c, flag) \/ WakeContinuation(u, c, flag)
          \/ CancelTurn(u, c)
          \/ \E t \in Terminal : TransitionTerminal(u, c, t)
    \/ FillFile(u)
    \/ ReplaceRecord(u)
    \/ ReplyTransitioned(u)
    \/ ReplyNotTransitioned(u)
    \/ Crash(u)

Next == \E u \in Callers : CallerStep(u)

Spec == Init /\ [][Next]_vars

-----------------------------------------------------------------------------
(***************************************************************************)
(* Correctness                                                             *)
(***************************************************************************)

\* Every variable has the shape the code gives it.
TypeOK ==
    /\ rec \in [Conts -> RecordStates]
    /\ lock \in [Conts -> Callers \cup {NoCaller}]
    /\ pc \in [Callers -> {"idle", "filling", "decided", "renamed"}]
    /\ on \in [Callers -> Conts \cup {NoCont}]
    /\ op \in [Callers -> Operations]
    /\ target \in [Callers -> Terminal \cup {"none"}]
    /\ told \in [Conts -> Seq(Terminal)]

\* The gate as the callers can see it: a file that is not filled is no record.
GateOf == [c \in Conts |-> IF rec[c] = "torn" THEN "absent" ELSE rec[c]]

Gate == INSTANCE ResumeOnce WITH gate <- GateOf, winners <- told

\* The file store implements the resume-once gate: with decisions taken outside
\* the lock, torn files, lost answers and any interleaving, a continuation
\* leaves the pending state at most once, and one answer at most, counted over
\* all callers and all their retries, says that the caller moved it.
ImplementsResumeOnce == Gate!GateSpec

\* Work is resumed only by the operation that may decide it: an approval by
\* resolve_approval, scheduled work by a wake, never by a cancellation.
ResumedByItsOwnKind ==
    [][\A c \in Conts : rec[c] # "resumed" /\ rec'[c] = "resumed" =>
          \E u \in Callers :
             /\ on[u] = c
             /\ op[u] = IF c \in Approvals THEN "resolve" ELSE "wake"]_vars

=============================================================================
