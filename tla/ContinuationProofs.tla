------------------------- MODULE ContinuationProofs -------------------------
(***************************************************************************)
(* The continuation store implements the resume-once gate, for any number  *)
(* of continuations and callers.  The refinement needs to know who may     *)
(* touch a record between the rename and the answer.                       *)
(***************************************************************************)
EXTENDS Continuation, TLAPS

\* A lock is held exactly by the caller that is writing the record behind it.
LockDiscipline ==
    /\ \A u \in Callers : pc[u] \in {"filling", "renamed"} =>
          on[u] \in Conts /\ lock[on[u]] = u
    /\ \A c \in Conts, u \in Callers : lock[c] = u =>
          on[u] = c /\ pc[u] \in {"filling", "renamed"}

\* A file that is being filled is still torn; a record that was renamed is what
\* the caller asked for and nobody has been told about it.
WriteInProgress ==
    \A u \in Callers :
        /\ pc[u] = "filling" => rec[on[u]] = "torn"
        /\ pc[u] = "renamed" => /\ rec[on[u]] = target[u]
                                /\ told[on[u]] = <<>>

\* A caller that has decided asks for a terminal state of a continuation, and
\* for "resumed" only by the operation that may resume it.
DecisionSound ==
    \A u \in Callers : pc[u] \in {"decided", "renamed"} =>
        /\ on[u] \in Conts
        /\ target[u] \in Terminal
        /\ target[u] = "resumed" => op[u] = IF on[u] \in Approvals THEN "resolve" ELSE "wake"

\* One answer at most was given, and the record still says what it said.
ToldTruth ==
    \A c \in Conts : told[c] # <<>> => told[c] = <<rec[c]>> /\ rec[c] \in Terminal

IInv ==
    /\ TypeOK
    /\ LockDiscipline
    /\ WriteInProgress
    /\ DecisionSound
    /\ ToldTruth

\* A step of caller u in terms of the abstract gate: it leaves the gate alone,
\* opens it, moves it to a terminal state, or tells the winner.
GateStep == Gate!GateNext \/ UNCHANGED Gate!gateVars

\* A record becomes "resumed" only in the hands of the operation of its kind.
OwnKindStep ==
    \A c \in Conts : rec[c] # "resumed" /\ rec'[c] = "resumed" =>
        \E u \in Callers :
            /\ on[u] = c
            /\ op[u] = IF c \in Approvals THEN "resolve" ELSE "wake"

-----------------------------------------------------------------------------
\* No continuation, no caller at work.
LEMMA InitIInv == Init => IInv /\ Gate!GateInit
<1> SUFFICES ASSUME Init PROVE IInv /\ Gate!GateInit
  OBVIOUS
<1> USE ContinuationAssumption DEF Init
<1>1. TypeOK
  BY DEF TypeOK, RecordStates, Operations, Terminal
<1>2. LockDiscipline /\ WriteInProgress /\ DecisionSound /\ ToldTruth
  BY DEF LockDiscipline, WriteInProgress, DecisionSound, ToldTruth
<1>3. Gate!GateInit
  BY DEF Gate!GateInit, GateOf
<1> QED
  BY <1>1, <1>2, <1>3 DEF IInv

\* A step that changes no record and tells nobody is invisible at the gate.
LEMMA InvisibleStep ==
    ASSUME UNCHANGED <<rec, told>>
    PROVE  GateStep /\ OwnKindStep
BY DEF GateStep, OwnKindStep, GateOf, Gate!gateVars

\* The gate a record shows.
LEMMA GateAt ==
    ASSUME NEW c \in Conts
    PROVE  GateOf[c] = IF rec[c] = "torn" THEN "absent" ELSE rec[c]
BY DEF GateOf

\* A refused or accepted retry of create changes no record.
LEMMA CreateExistingStep ==
    ASSUME IInv, NEW u \in Callers, NEW c \in Conts, CreateExisting(u, c)
    PROVE  IInv' /\ GateStep /\ OwnKindStep
<1> USE DEF IInv, CreateExisting, vars
<1>1. TypeOK'
  BY DEF TypeOK
<1>2. LockDiscipline' /\ WriteInProgress' /\ DecisionSound' /\ ToldTruth'
  BY DEF LockDiscipline, WriteInProgress, DecisionSound, ToldTruth
<1> QED
  BY <1>1, <1>2, InvisibleStep

\* The empty file is not yet a record.
LEMMA CreateFileStep ==
    ASSUME IInv, NEW u \in Callers, NEW c \in Conts, CreateFile(u, c)
    PROVE  IInv' /\ GateStep /\ OwnKindStep
<1> USE ContinuationAssumption DEF IInv, CreateFile
<1>1. TypeOK'
  BY DEF TypeOK, RecordStates, Operations
<1>0. /\ lock \in [Conts -> Callers \cup {NoCaller}]
      /\ pc \in [Callers -> {"idle", "filling", "decided", "renamed"}]
      /\ on \in [Callers -> Conts \cup {NoCont}]
  BY DEF TypeOK
<1>2. LockDiscipline'
  BY <1>0 DEF LockDiscipline
<1>3. WriteInProgress' /\ DecisionSound'
  BY DEF TypeOK, LockDiscipline, WriteInProgress, DecisionSound
<1>4. ToldTruth'
  BY DEF TypeOK, ToldTruth, Terminal
<1>5. OwnKindStep
  BY DEF OwnKindStep, TypeOK
<1>6. GateStep
  <2>1. GateOf' = GateOf
    BY DEF GateOf, TypeOK
  <2> QED
    BY <2>1 DEF GateStep, Gate!gateVars
<1> QED
  BY <1>1, <1>2, <1>3, <1>4, <1>5, <1>6

\* Filling the file opens the gate.
LEMMA FillFileStep ==
    ASSUME IInv, NEW u \in Callers, FillFile(u)
    PROVE  IInv' /\ GateStep /\ OwnKindStep
<1> USE ContinuationAssumption DEF IInv, FillFile, Return
<1> DEFINE c == on[u]
<1>1. c \in Conts /\ lock[c] = u /\ rec[c] = "torn" /\ told[c] = <<>>
  BY DEF LockDiscipline, WriteInProgress, ToldTruth, TypeOK, Terminal
<1>2. TypeOK'
  BY <1>1 DEF TypeOK, RecordStates, Operations, Terminal
<1>3. LockDiscipline'
  BY <1>1 DEF TypeOK, LockDiscipline
<1>4. WriteInProgress' /\ DecisionSound' /\ ToldTruth'
  BY <1>1 DEF TypeOK, LockDiscipline, WriteInProgress, DecisionSound, ToldTruth
<1>5. OwnKindStep
  BY <1>1 DEF OwnKindStep, TypeOK
<1>6. Gate!Open(c)
  BY <1>1 DEF Gate!Open, GateOf, TypeOK
<1> QED
  BY <1>1, <1>2, <1>3, <1>4, <1>5, <1>6 DEF GateStep, Gate!GateNext

\* A decision is taken without touching the record.
LEMMA DecidedStep ==
    ASSUME IInv, NEW u \in Callers, NEW c \in Conts,
           NEW o \in Operations, NEW t, Decided(u, c, o, t),
           t = "resumed" => o = IF c \in Approvals THEN "resolve" ELSE "wake"
    PROVE  IInv' /\ GateStep /\ OwnKindStep
<1> USE ContinuationAssumption DEF IInv, Decided
<1>0. /\ pc \in [Callers -> {"idle", "filling", "decided", "renamed"}]
      /\ on \in [Callers -> Conts \cup {NoCont}]
      /\ op \in [Callers -> Operations]
      /\ target \in [Callers -> Terminal \cup {"none"}]
  BY DEF TypeOK
<1>1. TypeOK'
  <2>1. /\ pc' \in [Callers -> {"idle", "filling", "decided", "renamed"}]
        /\ on' \in [Callers -> Conts \cup {NoCont}]
        /\ op' \in [Callers -> Operations]
        /\ target' \in [Callers -> Terminal \cup {"none"}]
    BY <1>0
  <2> QED
    BY <2>1 DEF TypeOK
<1>2. LockDiscipline' /\ WriteInProgress'
  BY <1>0 DEF LockDiscipline, WriteInProgress
<1>3. DecisionSound' /\ ToldTruth'
  BY DEF TypeOK, DecisionSound, ToldTruth
<1> QED
  BY <1>1, <1>2, <1>3, InvisibleStep

\* Every decision to resume is taken by the operation of the waiting work.
LEMMA DecisionStep ==
    ASSUME IInv, NEW u \in Callers, NEW c \in Conts,
           \/ \E flag \in BOOLEAN : ResolveApproval(u, c, flag) \/ WakeContinuation(u, c, flag)
           \/ CancelTurn(u, c)
           \/ \E t \in Terminal : TransitionTerminal(u, c, t)
    PROVE  IInv' /\ GateStep /\ OwnKindStep
<1> USE ContinuationAssumption
<1> {"resolve", "wake", "cancel", "terminate"} \subseteq Operations
  BY DEF Operations
<1>1. ASSUME NEW flag \in BOOLEAN, ResolveApproval(u, c, flag)
      PROVE  IInv' /\ GateStep /\ OwnKindStep
  <2> DEFINE t == DecideResolve(c, IF flag THEN "resumed" ELSE "cancelled")
  <2>1. t = "resumed" => c \in Approvals
    BY DEF DecideResolve
  <2>2. Decided(u, c, "resolve", t)
    BY <1>1 DEF ResolveApproval
  <2> HIDE DEF t
  <2> QED
    BY <2>1, <2>2, DecidedStep
<1>2. ASSUME NEW flag \in BOOLEAN, WakeContinuation(u, c, flag)
      PROVE  IInv' /\ GateStep /\ OwnKindStep
  <2> DEFINE t == DecideWake(c, flag)
  <2>1. t = "resumed" => c \notin Approvals
    BY DEF DecideWake, GraphWaits
  <2>2. Decided(u, c, "wake", t)
    BY <1>2 DEF WakeContinuation
  <2> HIDE DEF t
  <2> QED
    BY <2>1, <2>2, DecidedStep
<1>3. CASE CancelTurn(u, c)
  <2> DEFINE t == DecideCancel(c)
  <2>1. t # "resumed"
    BY DEF DecideCancel
  <2>2. Decided(u, c, "cancel", t)
    BY <1>3 DEF CancelTurn
  <2> HIDE DEF t
  <2> QED
    BY <2>1, <2>2, DecidedStep
<1>4. ASSUME NEW t \in Terminal, TransitionTerminal(u, c, t)
      PROVE  IInv' /\ GateStep /\ OwnKindStep
  <2>1. t # "resumed" /\ Decided(u, c, "terminate", t)
    BY <1>4 DEF TransitionTerminal
  <2> QED
    BY <2>1, DecidedStep
<1> QED
  BY <1>1, <1>2, <1>3, <1>4

\* The rename moves the gate once: only a pending record is replaced.
LEMMA ReplaceRecordStep ==
    ASSUME IInv, NEW u \in Callers, ReplaceRecord(u)
    PROVE  IInv' /\ GateStep /\ OwnKindStep
<1> USE ContinuationAssumption DEF IInv
<1> DEFINE c == on[u]
<1>1. /\ c \in Conts
      /\ target[u] \in Terminal
      /\ rec[c] = "pending"
      /\ told[c] = <<>>
      /\ pc[u] = "decided"
      /\ lock[c] = NoCaller
  BY DEF ReplaceRecord, MayReplace, DecisionSound, ToldTruth, TypeOK, Terminal
<1>2. /\ rec' = [rec EXCEPT ![c] = target[u]]
      /\ lock' = [lock EXCEPT ![c] = u]
      /\ pc' = [pc EXCEPT ![u] = "renamed"]
      /\ UNCHANGED <<on, op, target, told>>
  BY DEF ReplaceRecord
<1>3. TypeOK'
  BY <1>1, <1>2 DEF TypeOK, RecordStates
<1>4. LockDiscipline'
  BY <1>1, <1>2 DEF TypeOK, LockDiscipline
<1>5. WriteInProgress'
  BY <1>1, <1>2 DEF TypeOK, LockDiscipline, WriteInProgress
<1>6. DecisionSound' /\ ToldTruth'
  BY <1>1, <1>2 DEF TypeOK, DecisionSound, ToldTruth
<1>7. OwnKindStep
  BY <1>1, <1>2 DEF OwnKindStep, DecisionSound, TypeOK
<1>8. Gate!Transition(c, target[u])
  <2>1. GateOf[c] = "pending"
    BY <1>1, GateAt
  <2>2. GateOf' = [GateOf EXCEPT ![c] = target[u]]
    BY <1>1, <1>2 DEF GateOf, TypeOK, Terminal
  <2> QED
    BY <1>2, <2>1, <2>2 DEF Gate!Transition
<1> QED
  BY <1>1, <1>3, <1>4, <1>5, <1>6, <1>7, <1>8
     DEF GateStep, Gate!GateNext, Gate!TerminalStates, Terminal

\* The answer tells one caller, and no other caller was told before.
LEMMA ReplyTransitionedStep ==
    ASSUME IInv, NEW u \in Callers, ReplyTransitioned(u)
    PROVE  IInv' /\ GateStep /\ OwnKindStep
<1> USE ContinuationAssumption DEF IInv, ReplyTransitioned, Return
<1> DEFINE c == on[u]
<1>1. /\ c \in Conts
      /\ lock[c] = u
      /\ target[u] \in Terminal
      /\ rec[c] = target[u]
      /\ told[c] = <<>>
  BY DEF LockDiscipline, WriteInProgress, DecisionSound
<1>2. told' = told \/ told' = [told EXCEPT ![c] = <<rec[c]>>]
  BY <1>1
<1>3. TypeOK'
  BY <1>1, <1>2 DEF TypeOK, RecordStates, Operations, Terminal
<1>4. LockDiscipline'
  BY <1>1 DEF TypeOK, LockDiscipline
<1>5. WriteInProgress'
  BY <1>1, <1>2 DEF TypeOK, LockDiscipline, WriteInProgress
<1>6. DecisionSound' /\ ToldTruth'
  BY <1>1, <1>2 DEF TypeOK, DecisionSound, ToldTruth
<1>7. OwnKindStep
  BY DEF OwnKindStep
<1>8. GateStep
  <2>1. GateOf' = GateOf /\ GateOf[c] = rec[c] /\ rec[c] \in Gate!TerminalStates
    BY <1>1 DEF GateOf, Gate!TerminalStates, Terminal
  <2>2. CASE told' = told
    BY <2>1, <2>2 DEF GateStep, Gate!gateVars
  <2>3. CASE told' = [told EXCEPT ![c] = <<rec[c]>>]
    BY <2>1, <2>3, <1>1 DEF GateStep, Gate!GateNext, Gate!TellWinner
  <2> QED
    BY <1>2, <2>2, <2>3
<1> QED
  BY <1>3, <1>4, <1>5, <1>6, <1>7, <1>8

\* A caller that lost, and a caller that died, leave the record alone.
LEMMA LeaveStep ==
    ASSUME IInv, NEW u \in Callers, ReplyNotTransitioned(u) \/ Crash(u)
    PROVE  IInv' /\ GateStep /\ OwnKindStep
<1> USE ContinuationAssumption DEF IInv
<1>1. /\ Return(u)
      /\ UNCHANGED <<rec, told>>
  BY DEF ReplyNotTransitioned, Crash
<1>2. lock' = [c \in Conts |-> IF lock[c] = u THEN NoCaller ELSE lock[c]]
  <2>1. CASE ReplyNotTransitioned(u)
    BY <2>1 DEF ReplyNotTransitioned, TypeOK, LockDiscipline
  <2>2. CASE Crash(u)
    BY <2>2 DEF Crash
  <2> QED
    BY <2>1, <2>2
<1>3. TypeOK'
  BY <1>1, <1>2 DEF TypeOK, Return, Operations
<1>4. LockDiscipline'
  BY <1>1, <1>2 DEF TypeOK, LockDiscipline, Return
<1>5. WriteInProgress' /\ DecisionSound' /\ ToldTruth'
  BY <1>1 DEF TypeOK, WriteInProgress, DecisionSound, ToldTruth, Return
<1> QED
  BY <1>1, <1>3, <1>4, <1>5, InvisibleStep

-----------------------------------------------------------------------------
\* Every step keeps the inductive invariant and is a step of the gate.
LEMMA NextStep ==
    ASSUME IInv, [Next]_vars
    PROVE  IInv' /\ GateStep /\ OwnKindStep
<1>1. CASE UNCHANGED vars
  <2> USE <1>1 DEF vars, IInv
  <2>1. TypeOK' /\ LockDiscipline'
    BY DEF TypeOK, LockDiscipline
  <2>2. WriteInProgress' /\ DecisionSound' /\ ToldTruth'
    BY DEF WriteInProgress, DecisionSound, ToldTruth
  <2> QED
    BY <2>1, <2>2, InvisibleStep
<1>2. ASSUME NEW u \in Callers, CallerStep(u)
      PROVE  IInv' /\ GateStep /\ OwnKindStep
  <2>1. ASSUME NEW c \in Conts, CreateExisting(u, c) \/ CreateFile(u, c)
        PROVE  IInv' /\ GateStep /\ OwnKindStep
    BY <2>1, CreateExistingStep, CreateFileStep
  <2>2. ASSUME NEW c \in Conts,
               \/ \E flag \in BOOLEAN : ResolveApproval(u, c, flag) \/ WakeContinuation(u, c, flag)
               \/ CancelTurn(u, c)
               \/ \E t \in Terminal : TransitionTerminal(u, c, t)
        PROVE  IInv' /\ GateStep /\ OwnKindStep
    BY <2>2, DecisionStep
  <2>3. CASE FillFile(u) \/ ReplaceRecord(u) \/ ReplyTransitioned(u)
    BY <2>3, FillFileStep, ReplaceRecordStep, ReplyTransitionedStep
  <2>4. CASE ReplyNotTransitioned(u) \/ Crash(u)
    BY <2>4, LeaveStep
  <2> QED
    BY <1>2, <2>1, <2>2, <2>3, <2>4 DEF CallerStep
<1> QED
  BY <1>1, <1>2 DEF Next

\* Who holds a lock, what a decision may ask for and what was told.
THEOREM InductiveInvariant == Spec => []IInv
<1>1. Init => IInv
  BY InitIInv
<1>2. IInv /\ [Next]_vars => IInv'
  BY NextStep
<1> QED
  BY <1>1, <1>2, PTL DEF Spec

\* Every variable of the store keeps its type.
THEOREM TypeCorrectness == Spec => []TypeOK
<1>1. IInv => TypeOK
  BY DEF IInv
<1> QED
  BY InductiveInvariant, <1>1, PTL

\* The file store implements the resume-once gate: a continuation leaves the
\* pending state at most once and at most one caller is told that it did it.
THEOREM StoreImplementsGate == Spec => ImplementsResumeOnce
<1>1. Init => Gate!GateInit
  BY InitIInv
<1>2. IInv /\ [Next]_vars => [Gate!GateNext]_(Gate!gateVars)
  BY NextStep DEF GateStep
<1> QED
  BY InductiveInvariant, <1>1, <1>2, PTL DEF Spec, ImplementsResumeOnce, Gate!GateSpec

\* An approval is resumed only by resolve_approval, scheduled work only by a
\* wake: no cancellation and no expiry ever releases work.
THEOREM StoreResumesOwnKind == Spec => ResumedByItsOwnKind
<1>1. IInv /\ [Next]_vars => [OwnKindStep]_vars
  BY NextStep
<1> QED
  BY InductiveInvariant, <1>1, PTL DEF Spec, ResumedByItsOwnKind, OwnKindStep
=============================================================================
