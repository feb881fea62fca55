--------------------------- MODULE ParallelProofs ---------------------------
(***************************************************************************)
(* What a fan-out promises, for any graph region, join policy and step     *)
(* budget, and any number of crashes and cancel requests.                  *)
(*                                                                         *)
(* The argument.  Only the live coordinator drives branches; the canceller *)
(* commits cancellations and drives the join.  So whatever the live one    *)
(* read about a branch it works on stays true, but for a cancellation that *)
(* ends the branch.  The effect's own records (receipt) say how far the    *)
(* effect of a node got, and a coordinator begins an effect only for a     *)
(* node that has no record at all.                                         *)
(***************************************************************************)
EXTENDS Parallel, FiniteSetTheorems, WellFoundedInduction, TLAPS

Executions == {"queued", "dispatched", "running", "completed", "failed", "cancelled"}
Running == {"ready", "active", "awaiting_transition", "awaiting_destination", "awaiting_failure"}

Fans ==
    [began : BOOLEAN, ctl : [Branches -> BranchControls], exec : [Branches -> Executions],
     node : [Branches -> Nat], step : [Branches -> Nat], effect : [Branches -> Outcomes],
     order : [Branches -> Nat], gave : SUBSET Branches, last : Nat,
     cancel : {"none", "requested", "completed"}, asked : SUBSET Branches]

RootEvents == {"initialized", "cancel_requested", "cancel_completed", "join_selected",
               "join_entered", "join_initialized", "join_decided", "merged", "join_completed",
               "next_selected", "next_entered"}
EffectEvents == {"effect_dispatched", "outcome", "contributed", "node_completed", "node_failed"}
EventTypes == RootEvents \cup EffectEvents \cup
    {"none", "dispatched", "started", "entered", "transition", "terminated", "root_completed",
     "root_failed"}

Events == [t : EventTypes, b : Branches, node : Nat, step : Nat,
           out : Outcomes \cup {"ready"}, ids : SUBSET Branches]

Working == {"dispatch", "begin", "act", "finish", "round"}
Drivers ==
    [pc : Working \cup {"idle", "plan", "load", "append", "joining", "effects"},
     code : BOOLEAN, ev : Events, fresh : BOOLEAN,
     back : {"plan", "joining", "decide", "next", "effects", "dispatch", "join_failed", "cancelled"},
     todo : SUBSET Branches, seen : [Branches -> Nat], moved : BOOLEAN, waits : BOOLEAN,
     ret : {"none", "error", "advanced", "join_failed", "cancelled", "waiting"}]

Receipts == {"none", "resolved", "begun", "pending", "done", "failed", "approved", "denied"}
Roots == {"active", "completed", "selected", "join", "join_completed", "next_selected",
          "advanced", "failed"}

\* The fan-out keeps its step budget and its completion sequence.
FanTyped ==
    /\ fan \in Fans
    /\ fan.last \in 1..MaxSteps
    /\ \A b \in Branches : /\ fan.node[b] \in 1..(Len(Region[b]) + 1)
                           /\ fan.step[b] <= fan.last
                           /\ fan.order[b] <= Cardinality(Branches)

JournalTyped ==
    /\ FanTyped
    /\ root \in Roots
    /\ join \in {"none", "waiting", "ready", "failed"}
    /\ merged \subseteq Branches
    /\ receipt \in [Works -> Receipts]
    /\ world \in [Works -> Nat]

DriversTyped ==
    /\ drv \in [Coordinators -> Drivers]
    /\ crashes \in 0..MaxCrashes /\ cancels \in 0..MaxCancels

-----------------------------------------------------------------------------
(***************************************************************************)
(* The journal                                                             *)
(***************************************************************************)
\* The control state and the pure engine's record of a branch agree.
ControlAgrees(b) ==
    /\ fan.ctl[b] = "queued" <=> fan.exec[b] = "queued"
    /\ fan.ctl[b] = "dispatched" <=> fan.exec[b] = "dispatched"
    /\ fan.ctl[b] \in Running <=> fan.exec[b] = "running"

\* A branch works on nodes of its region, and has passed them all when it completed.
OnItsWay(b) ==
    /\ fan.ctl[b] \in {"active", "awaiting_transition"} => fan.node[b] \in DOMAIN Region[b]
    /\ fan.exec[b] = "completed" => fan.node[b] = Len(Region[b]) + 1

\* How far the effect of a node got, in the effect's own record.
LedgerAt(b, n) ==
    LET w == <<b, n>>
    IN  /\ Region[b][n] \in {"pure", "fail"} => receipt[w] = "none"
        /\ Region[b][n] = "tool" => receipt[w] \in {"none", "begun", "done", "failed"}
        /\ Region[b][n] = "schedule" => receipt[w] \in {"none", "resolved", "begun", "done"}
        /\ Region[b][n] = "approval" => receipt[w] \in {"none", "pending", "approved", "denied"}
        /\ receipt[w] = "begun" => world[w] \in {0, 1}
        /\ receipt[w] \in {"done", "failed"} => world[w] = 1
        /\ receipt[w] \notin {"begun", "done", "failed"} => world[w] = 0

Ledger == \A b \in Branches : \A n \in DOMAIN Region[b] : LedgerAt(b, n)

\* A node has no record before its effect is in the outbox of its branch.
Untried(b, n) ==
    \/ n > fan.node[b]
    \/ n = fan.node[b] /\ fan.ctl[b] \in {"queued", "dispatched", "ready", "awaiting_destination"}
    \/ n = fan.node[b] /\ fan.ctl[b] = "active" /\ fan.effect[b] = "none"

NotYet(b) == \A n \in DOMAIN Region[b] : Untried(b, n) => receipt[<<b, n>>] = "none"

\* The effect of a node took place and ended well.
Evidence(b, n) ==
    n \in DOMAIN Region[b] =>
        /\ Region[b][n] \in {"tool", "schedule"} => receipt[<<b, n>>] = "done"
        /\ Region[b][n] = "approval" => receipt[<<b, n>>] = "approved"

Passed(b) ==
    /\ \A n \in DOMAIN Region[b] : n < fan.node[b] => Evidence(b, n)
    /\ \/ fan.ctl[b] = "awaiting_transition"
       \/ fan.ctl[b] = "active" /\ fan.effect[b] = "completed"
       => Evidence(b, fan.node[b])

BranchOK(b) == ControlAgrees(b) /\ OnItsWay(b) /\ NotYet(b) /\ Passed(b)

\* The fan-out was cancelled before it reached its join.
Abandoned == fan.cancel # "none" /\ root \in {"active", "failed"} /\ join = "none"

MergeReady == join = "ready" /\ Completed \subseteq fan.gave

Rooted ==
    /\ root \notin {"active", "failed"} => AllTerminal
    /\ join # "none" => AllTerminal /\ root \notin {"active", "completed", "selected"}
    /\ fan.cancel = "completed" => AllTerminal /\ Abandoned
    /\ merged # {} => join = "ready" /\ merged = Completed

JournalOK == JournalTyped /\ Ledger /\ Rooted /\ \A b \in Branches : BranchOK(b)

-----------------------------------------------------------------------------
(***************************************************************************)
(* The coordinators                                                        *)
(***************************************************************************)
\* What a planned event rests on, until it is appended or refused.
EventKnown(e) ==
    /\ e.t = "outcome" =>
          /\ e.out \in {"waiting", "completed", "failed", "ambiguous"}
          /\ e.out = "completed" => Evidence(e.b, fan.node[e.b])
    /\ e.t \in {"started", "transition"} => e.step <= MaxSteps
    /\ e.t = "join_decided" => e.out \in {"ready", "failed"}
    /\ e.t = "merged" => MergeReady
    /\ e.t = "cancel_completed" => Abandoned

Committing(d) == d.pc \in {"load", "append"}
\* The coordinator is inside process_effect_requests.
InEffect(d) == Committing(d) /\ d.back \in {"next", "effects", "dispatch"}
Busy(d) == d.pc \in Working \cup {"effects"} \/ InEffect(d)

\* The record of the effect that the live coordinator is dispatching.
RecordKnown(d) ==
    LET b == First(d.todo)
        w == WorkOf(b)
    IN  /\ d.pc \in Working => fan.effect[b] # "none"
        /\ d.pc = "dispatch" \/ (InEffect(d) /\ d.back = "dispatch") => receipt[w] = "none"
        /\ d.pc = "begin" => receipt[w] = "none" \/ (KindOf(b) = "schedule" /\ receipt[w] = "resolved")
        /\ d.pc = "act" => KindOf(b) # "approval" /\ receipt[w] = "begun" /\ world[w] = 0
        /\ d.pc = "finish" => KindOf(b) # "approval" /\ receipt[w] = "begun" /\ world[w] = 1
        /\ d.pc = "round" =>
              /\ KindOf(b) = "schedule"
              /\ receipt[w] \in {"resolved", "done"} \/ (receipt[w] = "begun" /\ world[w] = 0)

LiveKnows(d) ==
    /\ Busy(d) => \A b \in d.todo : IsEffect(KindOf(b)) /\ fan.ctl[b] \in {"active", "terminal"}
    /\ d.pc \in Working \/ InEffect(d) => d.todo # {} /\ RecordKnown(d)
    /\ InEffect(d) =>
          /\ d.ev.b = First(d.todo) /\ d.ev.t \in EffectEvents
          /\ d.back = "dispatch" => d.ev.t = "effect_dispatched"
          /\ d.back = "effects" => d.ev.t = "contributed"

CancellerKnows(d) ==
    /\ d.pc \in {"idle", "plan", "load", "append", "joining"}
    /\ d.pc # "idle" => d.code
    /\ Committing(d) => d.ev.t \in RootEvents /\ d.back \in {"plan", "joining", "decide"}

Knows(c, d) ==
    /\ Committing(d) => EventKnown(d.ev)
    /\ c = "live" => LiveKnows(d)
    /\ c = "canceller" => CancellerKnows(d)

IInv == JournalOK /\ DriversTyped /\ \A c \in Coordinators : Knows(c, drv[c])

-----------------------------------------------------------------------------
(***************************************************************************)
(* What the reducer does to the fields of the fan-out                      *)
(***************************************************************************)
\* The first member in dispatch order exists.
LEMMA FirstIsIn ==
    ASSUME NEW S, S \subseteq Nat, S # {}
    PROVE  First(S) \in S /\ \A x \in S : First(S) <= x
<1> DEFINE R == {ss \in Nat \X Nat : ss[1] < ss[2]}
<1>1. IsWellFoundedOn(R, Nat)
  BY NatLessThanWellFounded, Zenon DEF OpToRel
<1>2. \A x, y \in Nat : <<x, y>> \in R <=> x < y
  OBVIOUS
<1> HIDE DEF R
<1>3. PICK x \in S : \A y \in S : ~(<<y, x>> \in R)
  BY <1>1, WFMin
<1>4. \A y \in S : x <= y
  <2> TAKE y \in S
  <2>1. x \in Nat /\ y \in Nat /\ ~(y < x)
    BY <1>2, <1>3
  <2> QED
    BY <2>1
<1> QED
  BY <1>4 DEF First

\* Branches and nodes are numbered from one.
LEMMA Numbering ==
    /\ Branches = 1..Len(Region) /\ Len(Region) \in Nat /\ Branches \subseteq Nat /\ 1 \in Branches
    /\ IsFiniteSet(Branches)
    /\ \A b \in Branches : /\ Region[b] \in Seq(Kinds) /\ Len(Region[b]) \in Nat \ {0}
                           /\ DOMAIN Region[b] = 1..Len(Region[b])
                           /\ \A n \in DOMAIN Region[b] : Region[b][n] \in Kinds /\ <<b, n>> \in Works
<1>1. Branches = 1..Len(Region) /\ Len(Region) \in Nat /\ 1 \in Branches
  BY ParallelAssumption DEF Branches
<1>2. IsFiniteSet(Branches)
  BY <1>1, FS_Interval
<1>3. ASSUME NEW b \in Branches
      PROVE  /\ Region[b] \in Seq(Kinds) /\ Len(Region[b]) \in Nat \ {0}
             /\ DOMAIN Region[b] = 1..Len(Region[b])
             /\ \A n \in DOMAIN Region[b] : Region[b][n] \in Kinds /\ <<b, n>> \in Works
  <2>1. Region[b] \in Seq(Kinds) /\ Region[b] # <<>>
    BY ParallelAssumption DEF Branches
  <2>2. \A n \in DOMAIN Region[b] : <<b, n>> \in Works
    BY DEF Works
  <2> QED
    BY <2>1, <2>2
<1> QED
  BY <1>1, <1>2, <1>3

\* What each event about the fan-out changes, field by field.
LEMMA FieldsInitialized ==
    ASSUME fan \in Fans, NEW e \in Events, e.t = "initialized", fan' = ReduceFan(e)
    PROVE  /\ fan' \in Fans
           /\ fan'.began = TRUE
           /\ fan'.ctl = fan.ctl /\ fan'.exec = fan.exec /\ fan'.node = fan.node
           /\ fan'.step = fan.step /\ fan'.effect = fan.effect /\ fan'.order = fan.order
           /\ fan'.gave = fan.gave /\ fan'.last = fan.last /\ fan'.cancel = fan.cancel
           /\ fan'.asked = fan.asked
<1> DEFINE B == TRUE
<1>1. fan' = [fan EXCEPT !.began = B]
  BY DEF ReduceFan, Fans, Allocated
<1>2. B \in BOOLEAN
  BY DEF Fans, Events, BranchControls, Executions, Outcomes
<1> HIDE DEF B
<1>3. fan' \in Fans /\ fan'.began = B
  BY <1>1, <1>2 DEF Fans
<1>4. fan'.ctl = fan.ctl /\ fan'.exec = fan.exec /\ fan'.node = fan.node /\ fan'.step = fan.step /\ fan'.effect = fan.effect /\ fan'.order = fan.order /\ fan'.gave = fan.gave /\ fan'.last = fan.last /\ fan'.cancel = fan.cancel /\ fan'.asked = fan.asked
  BY <1>1 DEF Fans
<1> QED
  BY <1>3, <1>4 DEF B

LEMMA FieldsDispatched ==
    ASSUME fan \in Fans, NEW e \in Events, e.t = "dispatched", fan' = ReduceFan(e)
    PROVE  /\ fan' \in Fans
           /\ fan'.ctl = [fan.ctl EXCEPT ![e.b] = "dispatched"]
           /\ fan'.exec = [fan.exec EXCEPT ![e.b] = "dispatched"]
           /\ fan'.began = fan.began /\ fan'.node = fan.node /\ fan'.step = fan.step
           /\ fan'.effect = fan.effect /\ fan'.order = fan.order /\ fan'.gave = fan.gave
           /\ fan'.last = fan.last /\ fan'.cancel = fan.cancel /\ fan'.asked = fan.asked
<1> DEFINE C == [fan.ctl EXCEPT ![e.b] = "dispatched"]
           X == [fan.exec EXCEPT ![e.b] = "dispatched"]
<1>1. fan' = [fan EXCEPT !.ctl = C, !.exec = X]
  BY DEF ReduceFan, Fans, Allocated
<1>2. C \in [Branches -> BranchControls] /\ X \in [Branches -> Executions]
  BY DEF Fans, Events, BranchControls, Executions, Outcomes
<1> HIDE DEF C, X
<1>3. fan' \in Fans /\ fan'.ctl = C /\ fan'.exec = X
  BY <1>1, <1>2 DEF Fans
<1>4. fan'.began = fan.began /\ fan'.node = fan.node /\ fan'.step = fan.step /\ fan'.effect = fan.effect /\ fan'.order = fan.order /\ fan'.gave = fan.gave /\ fan'.last = fan.last /\ fan'.cancel = fan.cancel /\ fan'.asked = fan.asked
  BY <1>1 DEF Fans
<1> QED
  BY <1>3, <1>4 DEF C, X

LEMMA FieldsStarted ==
    ASSUME fan \in Fans, NEW e \in Events, e.t = "started", fan' = ReduceFan(e)
    PROVE  /\ fan' \in Fans
           /\ fan'.ctl = [fan.ctl EXCEPT ![e.b] = "ready"]
           /\ fan'.exec = [fan.exec EXCEPT ![e.b] = "running"]
           /\ fan'.step = [fan.step EXCEPT ![e.b] = e.step]
           /\ fan'.last = e.step
           /\ fan'.began = fan.began /\ fan'.node = fan.node /\ fan'.effect = fan.effect
           /\ fan'.order = fan.order /\ fan'.gave = fan.gave /\ fan'.cancel = fan.cancel
           /\ fan'.asked = fan.asked
<1> DEFINE C == [fan.ctl EXCEPT ![e.b] = "ready"]
           X == [fan.exec EXCEPT ![e.b] = "running"]
           S == [fan.step EXCEPT ![e.b] = e.step]
           L == e.step
<1>1. fan' = [fan EXCEPT !.ctl = C, !.exec = X, !.step = S, !.last = L]
  BY DEF ReduceFan, Fans, Allocated
<1>2. C \in [Branches -> BranchControls] /\ X \in [Branches -> Executions] /\ S \in [Branches -> Nat] /\ L \in Nat
  BY DEF Fans, Events, BranchControls, Executions, Outcomes
<1> HIDE DEF C, X, S, L
<1>3. fan' \in Fans /\ fan'.ctl = C /\ fan'.exec = X /\ fan'.step = S /\ fan'.last = L
  BY <1>1, <1>2 DEF Fans
<1>4. fan'.began = fan.began /\ fan'.node = fan.node /\ fan'.effect = fan.effect /\ fan'.order = fan.order /\ fan'.gave = fan.gave /\ fan'.cancel = fan.cancel /\ fan'.asked = fan.asked
  BY <1>1 DEF Fans
<1> QED
  BY <1>3, <1>4 DEF C, X, S, L

LEMMA FieldsEntered ==
    ASSUME fan \in Fans, NEW e \in Events, e.t = "entered", fan' = ReduceFan(e)
    PROVE  /\ fan' \in Fans
           /\ fan'.ctl = [fan.ctl EXCEPT ![e.b] = "active"]
           /\ fan'.effect = [fan.effect EXCEPT ![e.b] = "none"]
           /\ fan'.began = fan.began /\ fan'.exec = fan.exec /\ fan'.node = fan.node
           /\ fan'.step = fan.step /\ fan'.order = fan.order /\ fan'.gave = fan.gave
           /\ fan'.last = fan.last /\ fan'.cancel = fan.cancel /\ fan'.asked = fan.asked
<1> DEFINE C == [fan.ctl EXCEPT ![e.b] = "active"]
           F == [fan.effect EXCEPT ![e.b] = "none"]
<1>1. fan' = [fan EXCEPT !.ctl = C, !.effect = F]
  BY DEF ReduceFan, Fans, Allocated
<1>2. C \in [Branches -> BranchControls] /\ F \in [Branches -> Outcomes]
  BY DEF Fans, Events, BranchControls, Executions, Outcomes
<1> HIDE DEF C, F
<1>3. fan' \in Fans /\ fan'.ctl = C /\ fan'.effect = F
  BY <1>1, <1>2 DEF Fans
<1>4. fan'.began = fan.began /\ fan'.exec = fan.exec /\ fan'.node = fan.node /\ fan'.step = fan.step /\ fan'.order = fan.order /\ fan'.gave = fan.gave /\ fan'.last = fan.last /\ fan'.cancel = fan.cancel /\ fan'.asked = fan.asked
  BY <1>1 DEF Fans
<1> QED
  BY <1>3, <1>4 DEF C, F

LEMMA FieldsEffectDispatched ==
    ASSUME fan \in Fans, NEW e \in Events, e.t = "effect_dispatched", fan' = ReduceFan(e)
    PROVE  /\ fan' \in Fans
           /\ fan'.effect = [fan.effect EXCEPT ![e.b] = "dispatched"]
           /\ fan'.began = fan.began /\ fan'.ctl = fan.ctl /\ fan'.exec = fan.exec
           /\ fan'.node = fan.node /\ fan'.step = fan.step /\ fan'.order = fan.order
           /\ fan'.gave = fan.gave /\ fan'.last = fan.last /\ fan'.cancel = fan.cancel
           /\ fan'.asked = fan.asked
<1> DEFINE F == [fan.effect EXCEPT ![e.b] = "dispatched"]
<1>1. fan' = [fan EXCEPT !.effect = F]
  BY DEF ReduceFan, Fans, Allocated
<1>2. F \in [Branches -> Outcomes]
  BY DEF Fans, Events, BranchControls, Executions, Outcomes
<1> HIDE DEF F
<1>3. fan' \in Fans /\ fan'.effect = F
  BY <1>1, <1>2 DEF Fans
<1>4. fan'.began = fan.began /\ fan'.ctl = fan.ctl /\ fan'.exec = fan.exec /\ fan'.node = fan.node /\ fan'.step = fan.step /\ fan'.order = fan.order /\ fan'.gave = fan.gave /\ fan'.last = fan.last /\ fan'.cancel = fan.cancel /\ fan'.asked = fan.asked
  BY <1>1 DEF Fans
<1> QED
  BY <1>3, <1>4 DEF F

LEMMA FieldsOutcome ==
    ASSUME fan \in Fans, NEW e \in Events, e.t = "outcome", fan' = ReduceFan(e),
           e.out \in Outcomes
    PROVE  /\ fan' \in Fans
           /\ fan'.effect = [fan.effect EXCEPT ![e.b] = e.out]
           /\ fan'.began = fan.began /\ fan'.ctl = fan.ctl /\ fan'.exec = fan.exec
           /\ fan'.node = fan.node /\ fan'.step = fan.step /\ fan'.order = fan.order
           /\ fan'.gave = fan.gave /\ fan'.last = fan.last /\ fan'.cancel = fan.cancel
           /\ fan'.asked = fan.asked
<1> DEFINE F == [fan.effect EXCEPT ![e.b] = e.out]
<1>1. fan' = [fan EXCEPT !.effect = F]
  BY DEF ReduceFan, Fans, Allocated
<1>2. F \in [Branches -> Outcomes]
  BY DEF Fans, Events, BranchControls, Executions, Outcomes
<1> HIDE DEF F
<1>3. fan' \in Fans /\ fan'.effect = F
  BY <1>1, <1>2 DEF Fans
<1>4. fan'.began = fan.began /\ fan'.ctl = fan.ctl /\ fan'.exec = fan.exec /\ fan'.node = fan.node /\ fan'.step = fan.step /\ fan'.order = fan.order /\ fan'.gave = fan.gave /\ fan'.last = fan.last /\ fan'.cancel = fan.cancel /\ fan'.asked = fan.asked
  BY <1>1 DEF Fans
<1> QED
  BY <1>3, <1>4 DEF F

LEMMA FieldsContributed ==
    ASSUME fan \in Fans, NEW e \in Events, e.t = "contributed", fan' = ReduceFan(e)
    PROVE  /\ fan' \in Fans
           /\ fan'.gave = fan.gave \cup {e.b}
           /\ fan'.began = fan.began /\ fan'.ctl = fan.ctl /\ fan'.exec = fan.exec
           /\ fan'.node = fan.node /\ fan'.step = fan.step /\ fan'.effect = fan.effect
           /\ fan'.order = fan.order /\ fan'.last = fan.last /\ fan'.cancel = fan.cancel
           /\ fan'.asked = fan.asked
<1> DEFINE G == fan.gave \cup {e.b}
<1>1. fan' = [fan EXCEPT !.gave = G]
  BY DEF ReduceFan, Fans, Allocated
<1>2. G \in SUBSET Branches
  BY DEF Fans, Events, BranchControls, Executions, Outcomes
<1> HIDE DEF G
<1>3. fan' \in Fans /\ fan'.gave = G
  BY <1>1, <1>2 DEF Fans
<1>4. fan'.began = fan.began /\ fan'.ctl = fan.ctl /\ fan'.exec = fan.exec /\ fan'.node = fan.node /\ fan'.step = fan.step /\ fan'.effect = fan.effect /\ fan'.order = fan.order /\ fan'.last = fan.last /\ fan'.cancel = fan.cancel /\ fan'.asked = fan.asked
  BY <1>1 DEF Fans
<1> QED
  BY <1>3, <1>4 DEF G

LEMMA FieldsNodeCompleted ==
    ASSUME fan \in Fans, NEW e \in Events, e.t = "node_completed", fan' = ReduceFan(e)
    PROVE  /\ fan' \in Fans
           /\ fan'.ctl = [fan.ctl EXCEPT ![e.b] = "awaiting_transition"]
           /\ fan'.began = fan.began /\ fan'.exec = fan.exec /\ fan'.node = fan.node
           /\ fan'.step = fan.step /\ fan'.effect = fan.effect /\ fan'.order = fan.order
           /\ fan'.gave = fan.gave /\ fan'.last = fan.last /\ fan'.cancel = fan.cancel
           /\ fan'.asked = fan.asked
<1> DEFINE C == [fan.ctl EXCEPT ![e.b] = "awaiting_transition"]
<1>1. fan' = [fan EXCEPT !.ctl = C]
  BY DEF ReduceFan, Fans, Allocated
<1>2. C \in [Branches -> BranchControls]
  BY DEF Fans, Events, BranchControls, Executions, Outcomes
<1> HIDE DEF C
<1>3. fan' \in Fans /\ fan'.ctl = C
  BY <1>1, <1>2 DEF Fans
<1>4. fan'.began = fan.began /\ fan'.exec = fan.exec /\ fan'.node = fan.node /\ fan'.step = fan.step /\ fan'.effect = fan.effect /\ fan'.order = fan.order /\ fan'.gave = fan.gave /\ fan'.last = fan.last /\ fan'.cancel = fan.cancel /\ fan'.asked = fan.asked
  BY <1>1 DEF Fans
<1> QED
  BY <1>3, <1>4 DEF C

LEMMA FieldsNodeFailed ==
    ASSUME fan \in Fans, NEW e \in Events, e.t = "node_failed", fan' = ReduceFan(e)
    PROVE  /\ fan' \in Fans
           /\ fan'.ctl = [fan.ctl EXCEPT ![e.b] = "awaiting_failure"]
           /\ fan'.began = fan.began /\ fan'.exec = fan.exec /\ fan'.node = fan.node
           /\ fan'.step = fan.step /\ fan'.effect = fan.effect /\ fan'.order = fan.order
           /\ fan'.gave = fan.gave /\ fan'.last = fan.last /\ fan'.cancel = fan.cancel
           /\ fan'.asked = fan.asked
<1> DEFINE C == [fan.ctl EXCEPT ![e.b] = "awaiting_failure"]
<1>1. fan' = [fan EXCEPT !.ctl = C]
  BY DEF ReduceFan, Fans, Allocated
<1>2. C \in [Branches -> BranchControls]
  BY DEF Fans, Events, BranchControls, Executions, Outcomes
<1> HIDE DEF C
<1>3. fan' \in Fans /\ fan'.ctl = C
  BY <1>1, <1>2 DEF Fans
<1>4. fan'.began = fan.began /\ fan'.exec = fan.exec /\ fan'.node = fan.node /\ fan'.step = fan.step /\ fan'.effect = fan.effect /\ fan'.order = fan.order /\ fan'.gave = fan.gave /\ fan'.last = fan.last /\ fan'.cancel = fan.cancel /\ fan'.asked = fan.asked
  BY <1>1 DEF Fans
<1> QED
  BY <1>3, <1>4 DEF C

LEMMA FieldsTransition ==
    ASSUME fan \in Fans, NEW e \in Events, e.t = "transition", fan' = ReduceFan(e)
    PROVE  /\ fan' \in Fans
           /\ fan'.ctl = [fan.ctl EXCEPT ![e.b] = "awaiting_destination"]
           /\ fan'.node = [fan.node EXCEPT ![e.b] = e.node]
           /\ fan'.step = [fan.step EXCEPT ![e.b] = e.step]
           /\ fan'.last = e.step
           /\ fan'.began = fan.began /\ fan'.exec = fan.exec /\ fan'.effect = fan.effect
           /\ fan'.order = fan.order /\ fan'.gave = fan.gave /\ fan'.cancel = fan.cancel
           /\ fan'.asked = fan.asked
<1> DEFINE C == [fan.ctl EXCEPT ![e.b] = "awaiting_destination"]
           N == [fan.node EXCEPT ![e.b] = e.node]
           S == [fan.step EXCEPT ![e.b] = e.step]
           L == e.step
<1>1. fan' = [fan EXCEPT !.ctl = C, !.node = N, !.step = S, !.last = L]
  BY DEF ReduceFan, Fans, Allocated
<1>2. C \in [Branches -> BranchControls] /\ N \in [Branches -> Nat] /\ S \in [Branches -> Nat] /\ L \in Nat
  BY DEF Fans, Events, BranchControls, Executions, Outcomes
<1> HIDE DEF C, N, S, L
<1>3. fan' \in Fans /\ fan'.ctl = C /\ fan'.node = N /\ fan'.step = S /\ fan'.last = L
  BY <1>1, <1>2 DEF Fans
<1>4. fan'.began = fan.began /\ fan'.exec = fan.exec /\ fan'.effect = fan.effect /\ fan'.order = fan.order /\ fan'.gave = fan.gave /\ fan'.cancel = fan.cancel /\ fan'.asked = fan.asked
  BY <1>1 DEF Fans
<1> QED
  BY <1>3, <1>4 DEF C, N, S, L

LEMMA FieldsTerminated ==
    ASSUME fan \in Fans, NEW e \in Events, e.t = "terminated", fan' = ReduceFan(e),
           e.out \in Executions, NEW k \in Nat, k = (IF e.out = "completed" THEN NextCompletion ELSE 0)
    PROVE  /\ fan' \in Fans
           /\ fan'.ctl = [fan.ctl EXCEPT ![e.b] = "terminal"]
           /\ fan'.exec = [fan.exec EXCEPT ![e.b] = e.out]
           /\ fan'.order = [fan.order EXCEPT ![e.b] = k]
           /\ fan'.began = fan.began /\ fan'.node = fan.node /\ fan'.step = fan.step
           /\ fan'.effect = fan.effect /\ fan'.gave = fan.gave /\ fan'.last = fan.last
           /\ fan'.cancel = fan.cancel /\ fan'.asked = fan.asked
<1> DEFINE C == [fan.ctl EXCEPT ![e.b] = "terminal"]
           X == [fan.exec EXCEPT ![e.b] = e.out]
           O == [fan.order EXCEPT ![e.b] = k]
<1>1. fan' = [fan EXCEPT !.ctl = C, !.exec = X, !.order = O]
  BY DEF ReduceFan, Fans, Allocated
<1>2. C \in [Branches -> BranchControls] /\ X \in [Branches -> Executions] /\ O \in [Branches -> Nat]
  BY DEF Fans, Events, BranchControls, Executions, Outcomes
<1> HIDE DEF C, X, O
<1>3. fan' \in Fans /\ fan'.ctl = C /\ fan'.exec = X /\ fan'.order = O
  BY <1>1, <1>2 DEF Fans
<1>4. fan'.began = fan.began /\ fan'.node = fan.node /\ fan'.step = fan.step /\ fan'.effect = fan.effect /\ fan'.gave = fan.gave /\ fan'.last = fan.last /\ fan'.cancel = fan.cancel /\ fan'.asked = fan.asked
  BY <1>1 DEF Fans
<1> QED
  BY <1>3, <1>4 DEF C, X, O

LEMMA FieldsCancelRequested ==
    ASSUME fan \in Fans, NEW e \in Events, e.t = "cancel_requested", fan' = ReduceFan(e)
    PROVE  /\ fan' \in Fans
           /\ fan'.cancel = "requested"
           /\ fan'.asked = e.ids
           /\ fan'.began = fan.began /\ fan'.ctl = fan.ctl /\ fan'.exec = fan.exec
           /\ fan'.node = fan.node /\ fan'.step = fan.step /\ fan'.effect = fan.effect
           /\ fan'.order = fan.order /\ fan'.gave = fan.gave /\ fan'.last = fan.last
<1> DEFINE K == "requested"
           A == e.ids
<1>1. fan' = [fan EXCEPT !.cancel = K, !.asked = A]
  BY DEF ReduceFan, Fans, Allocated
<1>2. K \in {"none", "requested", "completed"} /\ A \in SUBSET Branches
  BY DEF Fans, Events, BranchControls, Executions, Outcomes
<1> HIDE DEF K, A
<1>3. fan' \in Fans /\ fan'.cancel = K /\ fan'.asked = A
  BY <1>1, <1>2 DEF Fans
<1>4. fan'.began = fan.began /\ fan'.ctl = fan.ctl /\ fan'.exec = fan.exec /\ fan'.node = fan.node /\ fan'.step = fan.step /\ fan'.effect = fan.effect /\ fan'.order = fan.order /\ fan'.gave = fan.gave /\ fan'.last = fan.last
  BY <1>1 DEF Fans
<1> QED
  BY <1>3, <1>4 DEF K, A

LEMMA FieldsCancelCompleted ==
    ASSUME fan \in Fans, NEW e \in Events, e.t = "cancel_completed", fan' = ReduceFan(e)
    PROVE  /\ fan' \in Fans
           /\ fan'.cancel = "completed"
           /\ fan'.ctl = [b \in Branches |-> IF b \in e.ids THEN "terminal" ELSE fan.ctl[b]]
           /\ fan'.exec = [b \in Branches |-> IF b \in e.ids THEN "cancelled" ELSE fan.exec[b]]
           /\ fan'.began = fan.began /\ fan'.node = fan.node /\ fan'.step = fan.step
           /\ fan'.effect = fan.effect /\ fan'.order = fan.order /\ fan'.gave = fan.gave
           /\ fan'.last = fan.last /\ fan'.asked = fan.asked
<1> DEFINE K == "completed"
           C == [b \in Branches |-> IF b \in e.ids THEN "terminal" ELSE fan.ctl[b]]
           X == [b \in Branches |-> IF b \in e.ids THEN "cancelled" ELSE fan.exec[b]]
<1>1. fan' = [fan EXCEPT !.cancel = K, !.ctl = C, !.exec = X]
  BY DEF ReduceFan, Fans, Allocated
<1>2. K \in {"none", "requested", "completed"} /\ C \in [Branches -> BranchControls] /\ X \in [Branches -> Executions]
  BY DEF Fans, Events, BranchControls, Executions, Outcomes
<1> HIDE DEF K, C, X
<1>3. fan' \in Fans /\ fan'.cancel = K /\ fan'.ctl = C /\ fan'.exec = X
  BY <1>1, <1>2 DEF Fans
<1>4. fan'.began = fan.began /\ fan'.node = fan.node /\ fan'.step = fan.step /\ fan'.effect = fan.effect /\ fan'.order = fan.order /\ fan'.gave = fan.gave /\ fan'.last = fan.last /\ fan'.asked = fan.asked
  BY <1>1 DEF Fans
<1> QED
  BY <1>3, <1>4 DEF K, C, X

-----------------------------------------------------------------------------
(***************************************************************************)
(* Steps that leave the journal alone                                      *)
(***************************************************************************)
\* What a coordinator knows depends on the journal and the world only.
LEMMA KnowsSame ==
    ASSUME NEW c, NEW d, UNCHANGED <<journal, world>>, Knows(c, d)
    PROVE  Knows(c, d)'
<1>1. root' = root /\ fan' = fan /\ join' = join /\ receipt' = receipt /\ world' = world
  BY DEF journal
<1>2. \A b, n : Evidence(b, n)' <=> Evidence(b, n)
  BY <1>1 DEF Evidence
<1>3. (MergeReady' <=> MergeReady) /\ (Abandoned' <=> Abandoned)
  BY <1>1 DEF MergeReady, Abandoned, Completed
<1>4. EventKnown(d.ev) => EventKnown(d.ev)'
  BY <1>1, <1>2, <1>3 DEF EventKnown
<1>5. \A b : KindOf(b)' = KindOf(b) /\ WorkOf(b)' = WorkOf(b)
  BY <1>1 DEF KindOf, WorkOf
<1>6. RecordKnown(d) => RecordKnown(d)'
  BY <1>1, <1>5 DEF RecordKnown, InEffect, Committing
<1>7. LiveKnows(d) => LiveKnows(d)'
  BY <1>1, <1>5, <1>6 DEF LiveKnows, Busy, InEffect, Committing, IsEffect
<1> QED
  BY <1>4, <1>7 DEF Knows, CancellerKnows, Committing

LEMMA JournalSame ==
    ASSUME UNCHANGED <<journal, world>>, JournalOK
    PROVE  JournalOK'
<1>1. root' = root /\ fan' = fan /\ join' = join /\ merged' = merged /\ receipt' = receipt
      /\ world' = world
  BY DEF journal
<1>2. JournalTyped'
  BY <1>1 DEF JournalOK, JournalTyped, FanTyped
<1>3. Ledger'
  BY <1>1 DEF JournalOK, Ledger, LedgerAt
<1>4. Rooted'
  BY <1>1 DEF JournalOK, Rooted, Abandoned, AllTerminal, Completed
<1>5. \A b \in Branches : BranchOK(b)'
  BY <1>1 DEF JournalOK, BranchOK, ControlAgrees, OnItsWay, NotYet, Untried, Passed, Evidence
<1> QED
  BY <1>2, <1>3, <1>4, <1>5 DEF JournalOK

\* A coordinator moves to d and nothing else happens.
LEMMA Moves ==
    ASSUME IInv, NEW c \in Coordinators, NEW d \in Drivers, Knows(c, d), OnlyDriver, Set(c, d)
    PROVE  IInv'
<1>1. JournalOK'
  BY JournalSame DEF OnlyDriver, IInv
<1>2. DriversTyped'
  BY DEF OnlyDriver, Set, IInv, DriversTyped
<1>3. ASSUME NEW x \in Coordinators
      PROVE  Knows(x, drv[x])'
  <2> PICK y : y = drv'[x]
    OBVIOUS
  <2>1. y = IF x = c THEN d ELSE drv[x]
    BY DEF Set, IInv, DriversTyped
  <2>2. Knows(x, y)
    BY <2>1 DEF IInv
  <2>3. Knows(x, y)'
    BY <2>2, KnowsSame DEF OnlyDriver
  <2> QED
    BY <2>3 DEF Knows
<1> QED
  BY <1>1, <1>2, <1>3 DEF IInv

\* A coordinator that returned knows nothing.
LEMMA OffKnows ==
    ASSUME NEW c \in Coordinators, NEW r \in {"none", "error", "advanced", "join_failed", "cancelled", "waiting"},
           NEW d, d = Returned(c, r)
    PROVE  d \in Drivers /\ d.pc = "idle" /\ Knows(c, d)
<1>1. NoEvent \in Events /\ NoEvent.t = "none"
  BY Numbering DEF NoEvent, Events, EventTypes, Outcomes
<1>2. [b \in Branches |-> 0] \in [Branches -> Nat]
  OBVIOUS
<1>3. Off \in Drivers /\ Off.pc = "idle"
  BY <1>1, <1>2 DEF Off, Drivers
<1>4. d \in Drivers /\ d.pc = "idle"
  BY <1>3 DEF Returned, Drivers
<1> QED
  BY <1>4 DEF Knows, LiveKnows, CancellerKnows, RecordKnown, Busy, InEffect, Committing, Working

LEMMA Returns ==
    ASSUME IInv, NEW c \in Coordinators, OnlyDriver,
           NEW r \in {"none", "error", "advanced", "join_failed", "cancelled", "waiting"}, Return(c, r)
    PROVE  IInv'
<1> PICK d : d = Returned(c, r)
  OBVIOUS
<1>1. d \in Drivers /\ Knows(c, d)
  BY OffKnows
<1> QED
  BY <1>1, Moves DEF Return

\* A planned event outside of process_effect_requests.
LEMMA PlannedKnows ==
    ASSUME NEW c \in Coordinators, NEW d \in Drivers, d.pc \in {"load", "append"},
           d.back \in {"plan", "joining", "decide", "join_failed", "cancelled"}, EventKnown(d.ev),
           c = "canceller" =>
               d.code /\ d.ev.t \in RootEvents /\ d.back \in {"plan", "joining", "decide"}
    PROVE  Knows(c, d)
BY DEF Knows, LiveKnows, CancellerKnows, RecordKnown, Busy, InEffect, Committing, Working

LEMMA Plans ==
    ASSUME IInv, NEW c \in Coordinators, NEW e \in Events, EventKnown(e), OnlyDriver,
           drv[c].pc # "idle", c = "canceller" => e.t \in RootEvents,
           \/ Propose(c, e)
           \/ ProposeLater(c, e)
           \/ /\ e.t \in RootEvents
              /\ \E k \in {"joining", "decide"} :
                    \/ Set(c, [drv[c] EXCEPT !.pc = "load", !.ev = e, !.back = k])
                    \/ Set(c, [drv[c] EXCEPT !.pc = "append", !.ev = e, !.fresh = TRUE, !.back = k])
           \/ /\ c = "live"
              /\ \E k \in {"join_failed", "cancelled"} :
                    Set(c, [drv[c] EXCEPT !.pc = "load", !.ev = e, !.back = k])
    PROVE  IInv'
<1>1. PICK p \in {"load", "append"}, k \in {"plan", "joining", "decide", "join_failed", "cancelled"} :
           /\ c = "canceller" => k \in {"plan", "joining", "decide"}
           /\ \E y : /\ Set(c, y)
                     /\ \/ y = [drv[c] EXCEPT !.pc = p, !.ev = e, !.fresh = TRUE, !.back = k]
                        \/ y = [drv[c] EXCEPT !.pc = p, !.ev = e, !.back = k]
  <2>1. CASE Propose(c, e)
    BY <2>1 DEF Propose
  <2>2. CASE ProposeLater(c, e)
    BY <2>2 DEF ProposeLater
  <2> QED
    BY <2>1, <2>2 DEF Coordinators
<1>2. PICK y : /\ Set(c, y)
               /\ \/ y = [drv[c] EXCEPT !.pc = p, !.ev = e, !.fresh = TRUE, !.back = k]
                  \/ y = [drv[c] EXCEPT !.pc = p, !.ev = e, !.back = k]
  BY <1>1
<1>3. drv[c] \in Drivers
  BY DEF IInv, DriversTyped
<1>4. y \in Drivers /\ y.pc = p /\ y.ev = e /\ y.back = k /\ y.code = drv[c].code
  <2>2. CASE y = [drv[c] EXCEPT !.pc = p, !.ev = e, !.fresh = TRUE, !.back = k]
    BY <1>3, <2>2 DEF Drivers
  <2>3. CASE y = [drv[c] EXCEPT !.pc = p, !.ev = e, !.back = k]
    BY <1>3, <2>3 DEF Drivers
  <2> QED
    BY <1>2, <2>2, <2>3
<1>5. c = "canceller" => drv[c].code
  BY DEF IInv, Knows, CancellerKnows
<1>6. Knows(c, y)
  BY <1>1, <1>4, <1>5, PlannedKnows
<1> QED
  BY <1>2, <1>4, <1>6, Moves

LEMMA EventTyped ==
    ASSUME NEW t \in EventTypes
    PROVE  Event(t) \in Events /\ Event(t).t = t
BY Numbering DEF Event, NoEvent, Events, Outcomes

LEMMA BranchEventTyped ==
    ASSUME fan \in Fans, NEW b \in Branches, NEW t \in EventTypes
    PROVE  /\ BranchEvent(t, b) \in Events
           /\ BranchEvent(t, b).t = t /\ BranchEvent(t, b).b = b
           /\ BranchEvent(t, b).node = fan.node[b] /\ BranchEvent(t, b).step = fan.step[b]
<1>1. fan.node[b] \in Nat /\ fan.step[b] \in Nat
  BY DEF Fans
<1> QED
  BY <1>1, Numbering DEF BranchEvent, NoEvent, Events, Outcomes

\* An event of these kinds rests on nothing.
LEMMA PlainEvent ==
    ASSUME NEW e, e.t \notin {"outcome", "started", "transition", "join_decided", "merged", "cancel_completed"}
    PROVE  EventKnown(e)
BY DEF EventKnown

LEMMA PlanOuterKeeps ==
    ASSUME IInv, NEW c \in Coordinators, PlanOuter(c)
    PROVE  IInv'
<1>0. drv[c].pc # "idle" /\ OnlyDriver
  BY DEF PlanOuter, At
<1>1. CASE OuterBudget
  <2> PICK e : e = OuterEvent
    OBVIOUS
  <2>1. Propose(c, e)
    BY <1>1 DEF PlanOuter
  <2>2. \E t \in {"join_selected", "join_entered", "next_selected", "next_entered"} : e = Event(t)
    BY DEF PlanOuter, OuterEvent
  <2>3. e \in Events /\ e.t \in {"join_selected", "join_entered", "next_selected", "next_entered"}
    BY <2>2, EventTyped DEF EventTypes, RootEvents
  <2>4. EventKnown(e) /\ e.t \in RootEvents
    BY <2>3, PlainEvent DEF RootEvents
  <2> QED
    BY <1>0, <2>1, <2>3, <2>4, Plans
<1>2. CASE ~OuterBudget
  BY <1>0, <1>2, Returns DEF PlanOuter
<1> QED
  BY <1>1, <1>2

LEMMA PlanReturnKeeps ==
    ASSUME IInv, NEW c \in Coordinators, PlanReturn(c)
    PROVE  IInv'
BY Returns DEF PlanReturn

LEMMA PlanInitializeKeeps ==
    ASSUME IInv, NEW c \in Coordinators, PlanInitialize(c)
    PROVE  IInv'
<1> PICK e : e = Event("initialized")
  OBVIOUS
<1>1. e \in Events /\ e.t = "initialized"
  BY EventTyped DEF EventTypes, RootEvents
<1>2. EventKnown(e) /\ e.t \in RootEvents
  BY <1>1, PlainEvent DEF RootEvents
<1> QED
  BY <1>1, <1>2, Plans DEF PlanInitialize, At

\* The verdict of the join as an event.
LEMMA Decided ==
    ASSUME NEW e, JoinDecision(Decisions) # "waiting",
           e = [Event("join_decided") EXCEPT !.out = JoinDecision(Decisions)]
    PROVE  e \in Events /\ e.t = "join_decided" /\ EventKnown(e) /\ e.t \in RootEvents
<1> PICK j : j = JoinDecision(Decisions)
  OBVIOUS
<1>1. j \in {"ready", "failed"}
  <2> PICK D : D = Decisions
    OBVIOUS
  <2>1. JoinDecision(D) \in {"failed", "ready", "waiting"}
    BY DEF JoinDecision
  <2> QED
    BY <2>1
<1>2. Event("join_decided") \in Events /\ Event("join_decided").t = "join_decided"
  BY EventTyped DEF EventTypes, RootEvents
<1>3. e \in Events /\ e.t = "join_decided" /\ e.out = j
  BY <1>1, <1>2 DEF Events, Outcomes
<1> QED
  BY <1>1, <1>3 DEF EventKnown, RootEvents

LEMMA PlanJoinKeeps ==
    ASSUME IInv, NEW c \in Coordinators, PlanJoin(c)
    PROVE  IInv'
<1>0. drv[c].pc # "idle" /\ OnlyDriver
  BY DEF PlanJoin, At
<1>a. join \in {"none", "waiting", "ready", "failed"}
  BY DEF IInv, JournalOK, JournalTyped
<1>1. CASE join = "none"
  <2> PICK e : e = Event("join_initialized")
    OBVIOUS
  <2>1. e \in Events /\ e.t = "join_initialized"
    BY EventTyped DEF EventTypes, RootEvents
  <2>2. EventKnown(e) /\ e.t \in RootEvents
    BY <2>1, PlainEvent DEF RootEvents
  <2>3. Set(c, [drv[c] EXCEPT !.pc = "append", !.ev = e, !.fresh = TRUE, !.back = "decide"])
    BY <1>1 DEF PlanJoin
  <2> QED
    BY <1>0, <2>1, <2>2, <2>3, Plans
<1>2. CASE join = "waiting"
  <2>0. Set(c, DecideJoin(c))
    BY <1>2 DEF PlanJoin
  <2>1. CASE JoinDecision(Decisions) = "waiting"
    BY <1>0, <2>0, <2>1, Returns DEF DecideJoin, Return
  <2>2. CASE JoinDecision(Decisions) # "waiting"
    <3> PICK e : e = [Event("join_decided") EXCEPT !.out = JoinDecision(Decisions)]
      OBVIOUS
    <3>1. e \in Events /\ EventKnown(e) /\ e.t \in RootEvents
      BY <2>2, Decided
    <3>2. Set(c, [drv[c] EXCEPT !.pc = "load", !.ev = e, !.back = "joining"])
      BY <2>0, <2>2 DEF DecideJoin, Set
    <3> QED
      BY <1>0, <3>1, <3>2, Plans
  <2> QED
    BY <2>1, <2>2
<1>3. CASE join = "ready" /\ ~(Completed \subseteq fan.gave)
  BY <1>0, <1>3, Returns DEF PlanJoin
<1>4. CASE join = "ready" /\ Completed \subseteq fan.gave /\ merged # Completed
  <2> PICK e : e = Event("merged")
    OBVIOUS
  <2>1. e \in Events /\ e.t = "merged" /\ e.t \in RootEvents
    BY EventTyped DEF EventTypes, RootEvents
  <2>2. EventKnown(e)
    BY <1>4, <2>1 DEF EventKnown, MergeReady
  <2>3. Set(c, [drv[c] EXCEPT !.pc = "load", !.ev = e, !.back = "joining"])
    BY <1>4 DEF PlanJoin
  <2> QED
    BY <1>0, <2>1, <2>2, <2>3, Plans
<1>5. CASE join = "ready" /\ Completed \subseteq fan.gave /\ merged = Completed
  <2> PICK e : e = Event("join_completed")
    OBVIOUS
  <2>1. e \in Events /\ e.t = "join_completed" /\ e.t \in RootEvents
    BY EventTyped DEF EventTypes, RootEvents
  <2>2. EventKnown(e)
    BY <2>1, PlainEvent
  <2>3. ProposeLater(c, e)
    BY <1>5 DEF PlanJoin
  <2> QED
    BY <1>0, <2>1, <2>2, <2>3, Plans
<1>6. CASE join = "failed" /\ c = "live"
  <2> PICK e : e = Event("root_failed")
    OBVIOUS
  <2>1. e \in Events /\ e.t = "root_failed"
    BY EventTyped DEF EventTypes
  <2>2. EventKnown(e)
    BY <2>1, PlainEvent
  <2>3. Set(c, [drv[c] EXCEPT !.pc = "load", !.ev = e, !.back = "join_failed"])
    BY <1>6 DEF PlanJoin
  <2> QED
    BY <1>0, <1>6, <2>1, <2>2, <2>3, Plans
<1>7. CASE join = "failed" /\ c # "live"
  BY <1>0, <1>7, Returns DEF PlanJoin
<1> QED
  BY <1>a, <1>1, <1>2, <1>3, <1>4, <1>5, <1>6, <1>7

LEMMA PlanCancelKeeps ==
    ASSUME IInv, NEW c \in Coordinators, PlanCancel(c)
    PROVE  IInv'
<1>0. drv[c].pc # "idle" /\ OnlyDriver /\ root = "active"
  BY DEF PlanCancel, At
<1>a. fan.cancel \in {"none", "requested", "completed"} /\ Rooted
  BY DEF IInv, JournalOK, JournalTyped, FanTyped, Fans
<1>b. Incomplete \subseteq Branches
  BY DEF Incomplete
<1>1. ASSUME NEW t \in {"cancel_requested", "cancel_completed"}, NEW e,
             e = [Event(t) EXCEPT !.ids = Incomplete]
      PROVE  e \in Events /\ e.t = t /\ e.t \in RootEvents
  <2>1. Event(t) \in Events /\ Event(t).t = t
    BY EventTyped DEF EventTypes, RootEvents
  <2> QED
    BY <1>1, <1>b, <2>1 DEF Events, RootEvents
<1>2. CASE fan.cancel = "none"
  <2> PICK e : e = [Event("cancel_requested") EXCEPT !.ids = Incomplete]
    OBVIOUS
  <2>1. e \in Events /\ e.t = "cancel_requested" /\ e.t \in RootEvents
    BY <1>1
  <2>2. EventKnown(e) /\ ProposeLater(c, e)
    BY <1>2, <2>1, PlainEvent DEF PlanCancel
  <2> QED
    BY <1>0, <2>1, <2>2, Plans
<1>3. CASE fan.cancel = "requested"
  <2> PICK e : e = [Event("cancel_completed") EXCEPT !.ids = Incomplete]
    OBVIOUS
  <2>1. e \in Events /\ e.t = "cancel_completed" /\ e.t \in RootEvents
    BY <1>1
  <2>2. Abandoned
    BY <1>0, <1>a, <1>3 DEF Abandoned, Rooted
  <2>3. EventKnown(e) /\ ProposeLater(c, e)
    BY <1>3, <2>1, <2>2 DEF PlanCancel, EventKnown
  <2> QED
    BY <1>0, <2>1, <2>3, Plans
<1>4. CASE fan.cancel = "completed" /\ c = "live"
  <2> PICK e : e = Event("root_failed")
    OBVIOUS
  <2>1. e \in Events /\ e.t = "root_failed"
    BY EventTyped DEF EventTypes
  <2>2. EventKnown(e)
    BY <2>1, PlainEvent
  <2>3. Set(c, [drv[c] EXCEPT !.pc = "load", !.ev = e, !.back = "cancelled"])
    BY <1>4 DEF PlanCancel
  <2> QED
    BY <1>0, <1>4, <2>1, <2>2, <2>3, Plans
<1>5. CASE fan.cancel = "completed" /\ c # "live"
  BY <1>0, <1>5, Returns DEF PlanCancel
<1> QED
  BY <1>a, <1>2, <1>3, <1>4, <1>5

\* Only the live coordinator drives branches, on a fan-out of the right types.
LEMMA Drives ==
    ASSUME IInv, NEW c \in Coordinators, Driving(c)
    PROVE  /\ c = "live" /\ drv[c].pc = "plan" /\ drv[c] \in Drivers
           /\ fan \in Fans /\ fan.last \in Nat /\ \A b \in Branches : BranchOK(b)
<1>1. drv[c].pc = "plan" /\ ~drv[c].code
  BY DEF Driving, At
<1>2. c # "canceller"
  BY <1>1 DEF IInv, Knows, CancellerKnows
<1> QED
  BY <1>1, <1>2 DEF Coordinators, IInv, DriversTyped, JournalOK, JournalTyped, FanTyped, Fans

LEMMA FirstBranch ==
    ASSUME NEW S, S \subseteq Branches, S # {}
    PROVE  First(S) \in S /\ First(S) \in Branches
BY Numbering, FirstIsIn

\* The step that a plan needs is within the budget.
LEMMA WithinBudget ==
    ASSUME NEW S, S \subseteq Branches, NEW b \in S, StepsFor(S), fan.last \in Nat
    PROVE  fan.last + 1 <= MaxSteps
<1>1. IsFiniteSet(S)
  BY Numbering, FS_Subset
<1>2. Cardinality(S) \in Nat /\ Cardinality(S) # 0
  BY <1>1, FS_CardinalityType, FS_EmptySet
<1> QED
  BY <1>2, ParallelAssumption DEF StepsFor

LEMMA PlanRepairKeeps ==
    ASSUME IInv, NEW c \in Coordinators, PlanRepair(c)
    PROVE  IInv'
<1> DEFINE S == {x \in Repairable : fan.ctl[x] \in {"dispatched", "awaiting_transition"}}
<1>0. OnlyDriver /\ Driving(c) /\ Repairable # {}
  BY DEF PlanRepair
<1>1. c = "live" /\ drv[c].pc = "plan" /\ fan \in Fans /\ fan.last \in Nat
  BY <1>0, Drives
<1> PICK b : b = First(Repairable)
  OBVIOUS
<1>2. b \in Repairable /\ b \in Branches
  BY <1>0, FirstBranch DEF Repairable
<1>3. CASE StepsFor(S)
  <2> PICK e : e = RepairEvent(b)
    OBVIOUS
  <2>1. ProposeLater(c, e)
    BY <1>3 DEF PlanRepair
  <2>2. fan.ctl[b] \in {"dispatched", "ready", "awaiting_transition", "awaiting_destination", "awaiting_failure"}
    BY <1>2 DEF Repairable
  <2>3. CASE fan.ctl[b] \in {"dispatched", "awaiting_transition"}
    <3>1. fan.last + 1 <= MaxSteps
      <4>1. b \in S /\ S \subseteq Branches
        BY <1>2, <2>3 DEF Repairable
      <4> HIDE DEF S
      <4> QED
        BY <1>1, <1>3, <4>1, WithinBudget
    <3>2. fan.node[b] + 1 \in Nat /\ fan.last + 1 \in Nat
      BY <1>1, <1>2 DEF Fans
    <3>3. BranchEvent("started", b) \in Events /\ BranchEvent("transition", b) \in Events
      BY <1>1, <1>2, BranchEventTyped DEF EventTypes
    <3>4. BranchEvent("started", b).t = "started" /\ BranchEvent("transition", b).t = "transition"
      BY <1>1, <1>2, BranchEventTyped DEF EventTypes
    <3>5. \/ e = [BranchEvent("started", b) EXCEPT !.step = fan.last + 1]
          \/ e = [BranchEvent("transition", b) EXCEPT !.node = fan.node[b] + 1, !.step = fan.last + 1]
      BY <2>3 DEF RepairEvent
    <3>6. e \in Events /\ e.t \in {"started", "transition"} /\ e.step = fan.last + 1
      BY <3>2, <3>3, <3>4, <3>5 DEF Events
    <3>7. EventKnown(e)
      BY <3>1, <3>6 DEF EventKnown
    <3> QED
      BY <1>0, <1>1, <2>1, <3>6, <3>7, Plans
  <2>4. CASE fan.ctl[b] \in {"ready", "awaiting_destination", "awaiting_failure"}
    <3>1. BranchEvent("entered", b) \in Events /\ BranchEvent("terminated", b) \in Events
      BY <1>1, <1>2, BranchEventTyped DEF EventTypes
    <3>2. BranchEvent("entered", b).t = "entered" /\ BranchEvent("terminated", b).t = "terminated"
      BY <1>1, <1>2, BranchEventTyped DEF EventTypes
    <3>3. \/ e = BranchEvent("entered", b)
          \/ e = [BranchEvent("terminated", b) EXCEPT !.out = "completed"]
          \/ e = [BranchEvent("terminated", b) EXCEPT !.out = "failed"]
      BY <2>4 DEF RepairEvent
    <3>4. e \in Events /\ e.t \in {"entered", "terminated"}
      BY <3>1, <3>2, <3>3 DEF Events, Outcomes
    <3>5. EventKnown(e)
      BY <3>4, PlainEvent
    <3> QED
      BY <1>0, <1>1, <2>1, <3>4, <3>5, Plans
  <2> QED
    BY <2>2, <2>3, <2>4
<1>4. CASE ~StepsFor(S)
  BY <1>0, <1>4, Returns DEF PlanRepair
<1> QED
  BY <1>3, <1>4

LEMMA PlanDispatchKeeps ==
    ASSUME IInv, NEW c \in Coordinators, PlanDispatch(c)
    PROVE  IInv'
<1>0. OnlyDriver /\ Driving(c) /\ ReadyToDispatch # {}
  BY DEF PlanDispatch
<1>1. c = "live" /\ drv[c].pc = "plan" /\ fan \in Fans
  BY <1>0, Drives
<1>2. First(ReadyToDispatch) \in Branches
  BY <1>0, FirstBranch DEF ReadyToDispatch
<1>3. CASE StepsFor(ReadyToDispatch)
  <2> PICK e : e = BranchEvent("dispatched", First(ReadyToDispatch))
    OBVIOUS
  <2>1. e \in Events /\ e.t = "dispatched"
    BY <1>1, <1>2, BranchEventTyped DEF EventTypes
  <2>2. EventKnown(e) /\ ProposeLater(c, e)
    BY <1>3, <2>1, PlainEvent DEF PlanDispatch
  <2> QED
    BY <1>0, <1>1, <2>1, <2>2, Plans
<1>4. CASE ~StepsFor(ReadyToDispatch)
  BY <1>0, <1>4, Returns DEF PlanDispatch
<1> QED
  BY <1>3, <1>4

\* An active branch is at a node of its region.
LEMMA ActiveNode ==
    ASSUME fan \in Fans, NEW b \in Branches, BranchOK(b), fan.ctl[b] = "active"
    PROVE  /\ fan.node[b] \in DOMAIN Region[b] /\ KindOf(b) = Region[b][fan.node[b]]
           /\ KindOf(b) \in Kinds /\ WorkOf(b) \in Works
<1>1. fan.node[b] \in DOMAIN Region[b]
  BY DEF BranchOK, OnItsWay
<1> QED
  BY <1>1, Numbering DEF KindOf, WorkOf

LEMMA PlanPureKeeps ==
    ASSUME IInv, NEW c \in Coordinators, PlanPure(c)
    PROVE  IInv'
<1> DEFINE ok == StepsFor({p \in PureBranches : KindOf(p) = "pure"})
<1>0. OnlyDriver /\ Driving(c) /\ PureBranches # {}
  BY DEF PlanPure
<1>1. c = "live" /\ drv[c].pc = "plan" /\ fan \in Fans /\ \A x \in Branches : BranchOK(x)
  BY <1>0, Drives
<1> PICK b : b = First(PureBranches)
  OBVIOUS
<1>2. b \in PureBranches /\ b \in Branches
  BY <1>0, FirstBranch DEF PureBranches, ActiveBranches
<1>3. KindOf(b) \in {"pure", "fail"}
  BY <1>1, <1>2, ActiveNode DEF PureBranches, ActiveBranches, IsEffect, Kinds
<1>4. CASE ~ok
  BY <1>0, <1>4, Returns DEF PlanPure
<1>5. CASE ok
  <2>1. PICK t \in {"node_failed", "contributed", "node_completed"} : ProposeLater(c, BranchEvent(t, b))
    BY <1>3, <1>5 DEF PlanPure
  <2> PICK e : e = BranchEvent(t, b)
    OBVIOUS
  <2>2. e \in Events /\ e.t = t
    BY <1>1, <1>2, BranchEventTyped DEF EventTypes, EffectEvents
  <2>3. EventKnown(e) /\ ProposeLater(c, e)
    BY <2>1, <2>2, PlainEvent
  <2> QED
    BY <1>0, <1>1, <2>2, <2>3, Plans
<1> QED
  BY <1>4, <1>5

LEMMA PlanEffectsKeeps ==
    ASSUME IInv, NEW c \in Coordinators, PlanEffects(c)
    PROVE  IInv'
<1>0. OnlyDriver /\ Driving(c) /\ PureBranches = {}
  BY DEF PlanEffects
<1>1. c = "live" /\ fan \in Fans /\ drv[c] \in Drivers
  BY <1>0, Drives
<1> PICK d : d = [drv[c] EXCEPT !.pc = "effects", !.todo = ActiveBranches, !.seen = fan.step,
                                !.moved = FALSE, !.waits = FALSE]
  OBVIOUS
<1>2. ActiveBranches \subseteq Branches /\ fan.step \in [Branches -> Nat]
  BY <1>1 DEF ActiveBranches, Fans
<1>3. d \in Drivers /\ d.pc = "effects" /\ d.todo = ActiveBranches
  BY <1>1, <1>2 DEF Drivers
<1>4. \A b \in ActiveBranches : IsEffect(KindOf(b)) /\ fan.ctl[b] \in {"active", "terminal"}
  BY <1>0 DEF PureBranches, ActiveBranches
<1>5. Knows(c, d)
  BY <1>1, <1>3, <1>4 DEF Knows, LiveKnows, RecordKnown, Busy, InEffect, Committing, Working
<1> QED
  BY <1>0, <1>3, <1>5, Moves DEF PlanEffects

LEMMA PlanCompleteKeeps ==
    ASSUME IInv, NEW c \in Coordinators, PlanComplete(c)
    PROVE  IInv'
<1>0. OnlyDriver /\ Driving(c)
  BY DEF PlanComplete
<1>1. c = "live" /\ drv[c].pc = "plan"
  BY <1>0, Drives
<1>2. CASE AllTerminal /\ fan.last + 1 <= MaxSteps
  <2> PICK e : e = Event("root_completed")
    OBVIOUS
  <2>1. e \in Events /\ e.t = "root_completed"
    BY EventTyped DEF EventTypes
  <2>2. EventKnown(e) /\ ProposeLater(c, e)
    BY <1>2, <2>1, PlainEvent DEF PlanComplete
  <2> QED
    BY <1>0, <1>1, <2>1, <2>2, Plans
<1>3. CASE ~(AllTerminal /\ fan.last + 1 <= MaxSteps)
  BY <1>0, <1>3, Returns DEF PlanComplete
<1> QED
  BY <1>2, <1>3

LEMMA LoadKeeps ==
    ASSUME IInv, NEW c \in Coordinators, Load(c)
    PROVE  IInv'
<1>0. OnlyDriver /\ drv[c].pc = "load" /\ drv[c] \in Drivers /\ Knows(c, drv[c])
  BY DEF Load, At, IInv, DriversTyped
<1> PICK d : d = [drv[c] EXCEPT !.pc = "append", !.fresh = TRUE]
  OBVIOUS
<1> PICK o : o = drv[c]
  OBVIOUS
<1>1. d \in Drivers /\ d.pc = "append" /\ d.ev = o.ev /\ d.back = o.back /\ d.todo = o.todo /\ d.code = o.code
  BY <1>0 DEF Drivers
<1>2. Committing(o) /\ Committing(d) /\ (InEffect(d) <=> InEffect(o)) /\ (Busy(d) <=> Busy(o))
  BY <1>0, <1>1 DEF Committing, InEffect, Busy, Working
<1>3. Knows(c, o) => Knows(c, d)
  BY <1>0, <1>1, <1>2 DEF Knows, LiveKnows, CancellerKnows, RecordKnown, Working
<1> QED
  BY <1>0, <1>1, <1>3, Moves DEF Load

LEMMA CommitRefusedKeeps ==
    ASSUME IInv, NEW c \in Coordinators, CommitRefused(c)
    PROVE  IInv'
BY Returns DEF CommitRefused

-----------------------------------------------------------------------------
(***************************************************************************)
(* process_effect_requests, up to the records of an effect                 *)
(***************************************************************************)
\* Inside process_effect_requests there is only the live coordinator.
LEMMA LiveWorks ==
    ASSUME IInv, NEW c \in Coordinators, drv[c].pc \in Working \cup {"effects"}
    PROVE  /\ c = "live" /\ drv[c] \in Drivers /\ drv[c].todo \subseteq Branches
           /\ \A b \in drv[c].todo : IsEffect(KindOf(b)) /\ fan.ctl[b] \in {"active", "terminal"}
           /\ drv[c].pc \in Working => drv[c].todo # {} /\ RecordKnown(drv[c])
           /\ fan \in Fans /\ Ledger /\ \A b \in Branches : BranchOK(b)
<1>1. c # "canceller"
  BY DEF IInv, Knows, CancellerKnows, Working
<1>2. drv[c] \in Drivers /\ drv[c].todo \subseteq Branches
  BY DEF IInv, DriversTyped, Drivers
<1>3. LiveKnows(drv[c]) /\ c = "live"
  BY <1>1 DEF IInv, Knows, Coordinators
<1>4. fan \in Fans /\ Ledger /\ \A b \in Branches : BranchOK(b)
  BY DEF IInv, JournalOK, JournalTyped, FanTyped
<1> QED
  BY <1>2, <1>3, <1>4 DEF LiveKnows, Busy

\* What the live coordinator keeps knowing when it goes on with the same requests.
LEMMA EffectEventKnows ==
    ASSUME NEW d \in Drivers, d.pc \in {"load", "append"}, d.back \in {"next", "effects", "dispatch"},
           d.todo # {}, EventKnown(d.ev),
           \A b \in d.todo : IsEffect(KindOf(b)) /\ fan.ctl[b] \in {"active", "terminal"},
           d.ev.b = First(d.todo), d.ev.t \in EffectEvents,
           d.back = "dispatch" => d.ev.t = "effect_dispatched" /\ receipt[WorkOf(First(d.todo))] = "none",
           d.back = "effects" => d.ev.t = "contributed"
    PROVE  Knows("live", d)
BY DEF Knows, LiveKnows, RecordKnown, Busy, InEffect, Committing, Working

\* The fields of a coordinator that has an outcome to commit.
LEMMA AnswerFields ==
    ASSUME NEW c, drv[c] \in Drivers, fan \in Fans, NEW b \in Branches,
           NEW out \in {"waiting", "completed", "failed", "ambiguous"}, NEW d, d = Answer(c, b, out)
    PROVE  /\ d \in Drivers /\ d.pc = "load" /\ d.back = "next" /\ d.todo = drv[c].todo
           /\ d.ev \in Events /\ d.ev.t = "outcome" /\ d.ev.b = b /\ d.ev.out = out
<1> PICK e : e = [BranchEvent("outcome", b) EXCEPT !.out = out]
  OBVIOUS
<1>1. BranchEvent("outcome", b) \in Events /\ BranchEvent("outcome", b).t = "outcome"
      /\ BranchEvent("outcome", b).b = b
  BY BranchEventTyped DEF EventTypes, EffectEvents
<1>2. e \in Events /\ e.t = "outcome" /\ e.b = b /\ e.out = out
  BY <1>1 DEF Events, Outcomes
<1> DEFINE m == drv[c].waits \/ out = "waiting"
<1>3. m \in BOOLEAN
  OBVIOUS
<1>4. d = [drv[c] EXCEPT !.pc = "load", !.back = "next", !.waits = m, !.ev = e]
  BY DEF Answer
<1> HIDE DEF m
<1>5. d \in Drivers /\ d.pc = "load" /\ d.back = "next" /\ d.todo = drv[c].todo /\ d.ev = e
  BY <1>2, <1>3, <1>4 DEF Drivers
<1> QED
  BY <1>2, <1>5

LEMMA Answers ==
    ASSUME IInv, NEW c \in Coordinators, drv[c].pc \in Working \cup {"effects"}, drv[c].todo # {}, NEW b,
           b = Requested(c), NEW out \in {"waiting", "completed", "failed", "ambiguous"},
           out = "completed" => Evidence(b, fan.node[b]), OnlyDriver, Set(c, Answer(c, b, out))
    PROVE  IInv'
<1>1. /\ c = "live" /\ drv[c] \in Drivers /\ drv[c].todo \subseteq Branches /\ fan \in Fans
      /\ \A x \in drv[c].todo : IsEffect(KindOf(x)) /\ fan.ctl[x] \in {"active", "terminal"}
  BY LiveWorks
<1>2. b \in Branches /\ b = First(drv[c].todo)
  BY <1>1, FirstBranch DEF Requested
<1> PICK d : d = Answer(c, b, out)
  OBVIOUS
<1>3. /\ d \in Drivers /\ d.pc = "load" /\ d.back = "next" /\ d.todo = drv[c].todo
      /\ d.ev \in Events /\ d.ev.t = "outcome" /\ d.ev.b = b /\ d.ev.out = out
  BY <1>1, <1>2, AnswerFields
<1>4. EventKnown(d.ev)
  BY <1>3 DEF EventKnown
<1>5. Knows("live", d)
  BY <1>1, <1>2, <1>3, <1>4, EffectEventKnows DEF EffectEvents
<1> QED
  BY <1>1, <1>3, <1>5, Moves

LEMMA EffectGoneKeeps ==
    ASSUME IInv, NEW c \in Coordinators, EffectGone(c)
    PROVE  IInv'
BY Returns DEF EffectGone

\* The request that is handled is that of an active branch.
LEMMA Handles ==
    ASSUME IInv, NEW c \in Coordinators, NEW b \in Branches, Handling(c, b)
    PROVE  /\ c = "live" /\ drv[c].pc = "effects" /\ drv[c] \in Drivers /\ drv[c].todo # {}
           /\ b = First(drv[c].todo) /\ b = Requested(c)
           /\ \A x \in drv[c].todo : IsEffect(KindOf(x)) /\ fan.ctl[x] \in {"active", "terminal"}
           /\ fan \in Fans /\ fan.ctl[b] = "active" /\ BranchOK(b) /\ Ledger /\ IsEffect(KindOf(b))
<1>1. drv[c].pc = "effects" /\ drv[c].todo # {} /\ b = First(drv[c].todo) /\ fan.ctl[b] = "active"
  BY DEF Handling, At, Requested, StillActive
<1>2. /\ c = "live" /\ drv[c] \in Drivers /\ drv[c].todo \subseteq Branches
      /\ \A x \in drv[c].todo : IsEffect(KindOf(x)) /\ fan.ctl[x] \in {"active", "terminal"}
      /\ fan \in Fans /\ Ledger /\ \A x \in Branches : BranchOK(x)
  BY <1>1, LiveWorks
<1>3. b \in drv[c].todo
  BY <1>1, <1>2, FirstBranch
<1> QED
  BY <1>1, <1>2, <1>3 DEF Requested

LEMMA EffectIntendKeeps ==
    ASSUME IInv, NEW c \in Coordinators, NEW b \in Branches, EffectIntend(c, b)
    PROVE  IInv'
<1>0. Handling(c, b) /\ fan.effect[b] = "none" /\ OnlyDriver
  BY DEF EffectIntend
<1>1. /\ c = "live" /\ drv[c] \in Drivers /\ drv[c].todo # {} /\ b = First(drv[c].todo)
      /\ \A x \in drv[c].todo : IsEffect(KindOf(x)) /\ fan.ctl[x] \in {"active", "terminal"}
      /\ fan \in Fans /\ fan.ctl[b] = "active" /\ BranchOK(b)
  BY <1>0, Handles
<1> PICK e : e = BranchEvent("effect_dispatched", b)
  OBVIOUS
<1>2. e \in Events /\ e.t = "effect_dispatched" /\ e.b = b
  BY <1>1, BranchEventTyped DEF EventTypes, EffectEvents
<1> PICK d : d = [drv[c] EXCEPT !.pc = "append", !.ev = e, !.fresh = TRUE, !.back = "dispatch"]
  OBVIOUS
<1>3. d \in Drivers /\ d.pc = "append" /\ d.ev = e /\ d.back = "dispatch" /\ d.todo = drv[c].todo
  <2>1. drv[c] \in Drivers /\ e \in Events
    BY <1>1, <1>2
  <2> QED
    BY <2>1 DEF Drivers
<1>4. receipt[WorkOf(b)] = "none"
  BY <1>0, <1>1, ActiveNode DEF BranchOK, NotYet, Untried, WorkOf
<1>5. EventKnown(e)
  BY <1>2, PlainEvent
<1>6. Knows("live", d)
  BY <1>1, <1>2, <1>3, <1>4, <1>5, EffectEventKnows DEF EffectEvents
<1> QED
  BY <1>0, <1>1, <1>3, <1>6, Moves DEF EffectIntend

LEMMA EffectSettleKeeps ==
    ASSUME IInv, NEW c \in Coordinators, NEW b \in Branches, EffectSettle(c, b)
    PROVE  IInv'
<1>0. Handling(c, b) /\ OnlyDriver
  BY DEF EffectSettle
<1>1. /\ c = "live" /\ drv[c] \in Drivers /\ drv[c].todo # {} /\ b = First(drv[c].todo)
      /\ \A x \in drv[c].todo : IsEffect(KindOf(x)) /\ fan.ctl[x] \in {"active", "terminal"}
      /\ fan \in Fans
  BY <1>0, Handles
<1>2. CASE fan.effect[b] = "completed" /\ Owes(b)
  <2> PICK e : e = BranchEvent("contributed", b)
    OBVIOUS
  <2>1. e \in Events /\ e.t = "contributed" /\ e.b = b
    BY <1>1, BranchEventTyped DEF EventTypes, EffectEvents
  <2> PICK d : d = [drv[c] EXCEPT !.pc = "append", !.ev = e, !.fresh = TRUE, !.back = "effects"]
    OBVIOUS
  <2>2. d \in Drivers /\ d.pc = "append" /\ d.ev = e /\ d.back = "effects" /\ d.todo = drv[c].todo
    <3>1. drv[c] \in Drivers /\ e \in Events
      BY <1>1, <2>1
    <3> QED
      BY <3>1 DEF Drivers
  <2>3. EventKnown(e)
    BY <2>1, PlainEvent
  <2>4. Knows("live", d)
    BY <1>1, <2>1, <2>2, <2>3, EffectEventKnows DEF EffectEvents
  <2> QED
    BY <1>0, <1>1, <1>2, <2>2, <2>4, Moves DEF EffectSettle
<1>3. CASE ~(fan.effect[b] = "completed" /\ Owes(b))
  <2> PICK t : t = IF fan.effect[b] = "completed" THEN "node_completed" ELSE "node_failed"
    OBVIOUS
  <2> PICK e : e = BranchEvent(t, b)
    OBVIOUS
  <2>1. e \in Events /\ e.t \in {"node_completed", "node_failed"} /\ e.b = b
    BY <1>1, BranchEventTyped DEF EventTypes, EffectEvents
  <2> PICK d : d = [drv[c] EXCEPT !.pc = "load", !.back = "next", !.ev = e]
    OBVIOUS
  <2>2. d \in Drivers /\ d.pc = "load" /\ d.ev = e /\ d.back = "next" /\ d.todo = drv[c].todo
    BY <1>1, <2>1 DEF Drivers
  <2>3. EventKnown(e)
    BY <2>1, PlainEvent
  <2>4. Knows("live", d)
    BY <1>1, <2>1, <2>2, <2>3, EffectEventKnows DEF EffectEvents
  <2>5. Set(c, d)
    BY <1>3 DEF EffectSettle
  <2> QED
    BY <1>0, <1>1, <2>2, <2>4, <2>5, Moves
<1> QED
  BY <1>2, <1>3

\* A terminal record of an effect node is its evidence.
LEMMA RecordIsEvidence ==
    ASSUME Ledger, fan \in Fans, NEW b \in Branches, receipt[WorkOf(b)] \in {"done", "approved"}
    PROVE  Evidence(b, fan.node[b])
BY DEF Ledger, LedgerAt, Evidence, WorkOf

LEMMA EffectRecoverKeeps ==
    ASSUME IInv, NEW c \in Coordinators, NEW b \in Branches, EffectRecover(c, b)
    PROVE  IInv'
<1>0. Handling(c, b) /\ OnlyDriver /\ fan.effect[b] \in {"dispatched", "waiting"}
  BY DEF EffectRecover
<1>1. /\ c = "live" /\ drv[c].pc = "effects" /\ drv[c] \in Drivers /\ drv[c].todo # {}
      /\ b = Requested(c) /\ Ledger /\ fan \in Fans /\ fan.ctl[b] = "active" /\ BranchOK(b)
      /\ \A x \in drv[c].todo : IsEffect(KindOf(x)) /\ fan.ctl[x] \in {"active", "terminal"}
  BY <1>0, Handles
<1>2. receipt[WorkOf(b)] \in Receipts
  BY <1>1, ActiveNode DEF IInv, JournalOK, JournalTyped
<1>3. /\ Recovered(b) \in {"error", "waiting", "completed", "failed", "ambiguous"}
      /\ Recovered(b) = "completed" => receipt[WorkOf(b)] \in {"done", "approved"}
  BY <1>2 DEF Recovered, MissingReceipt, Receipts
<1>4. CASE Recovered(b) = "error"
  BY <1>0, <1>4, Returns DEF EffectRecover
<1>5. CASE Recovered(b) = fan.effect[b]
  <2> PICK d : d = [drv[c] EXCEPT !.todo = @ \ {b}, !.waits = TRUE]
    OBVIOUS
  <2> PICK T : T = drv[c].todo \ {b}
    OBVIOUS
  <2>1. d = [drv[c] EXCEPT !.todo = T, !.waits = TRUE] /\ T \subseteq Branches
    BY <1>1 DEF Drivers
  <2>2. d \in Drivers /\ d.pc = "effects" /\ d.todo = T
    BY <1>1, <2>1 DEF Drivers
  <2>3. Knows(c, d)
    BY <1>1, <2>2 DEF Knows, LiveKnows, RecordKnown, Busy, InEffect, Committing, Working
  <2>4. Set(c, d)
    BY <1>0, <1>5 DEF EffectRecover, WaitsOn
  <2> QED
    BY <1>0, <2>2, <2>3, <2>4, Moves
<1>6. CASE Recovered(b) # "error" /\ Recovered(b) # fan.effect[b]
  <2>1. Set(c, Answer(c, b, Recovered(b)))
    BY <1>6 DEF EffectRecover, Answer
  <2>2. Recovered(b) = "completed" => Evidence(b, fan.node[b])
    BY <1>1, <1>3, RecordIsEvidence
  <2> PICK out : out = Recovered(b)
    OBVIOUS
  <2> QED
    BY <1>0, <1>1, <1>3, <1>6, <2>1, <2>2, Answers
<1> QED
  BY <1>4, <1>5, <1>6

LEMMA EffectsDoneKeeps ==
    ASSUME IInv, NEW c \in Coordinators, EffectsDone(c)
    PROVE  IInv'
<1>0. OnlyDriver /\ drv[c].pc = "effects"
  BY DEF EffectsDone, At
<1>1. c = "live" /\ drv[c] \in Drivers
  BY <1>0, LiveWorks
<1>2. CASE drv[c].moved
  <2> PICK d : d = [drv[c] EXCEPT !.pc = "plan"]
    OBVIOUS
  <2>1. d \in Drivers /\ d.pc = "plan"
    BY <1>1 DEF Drivers
  <2>2. Knows(c, d)
    BY <1>1, <2>1 DEF Knows, LiveKnows, RecordKnown, Busy, InEffect, Committing, Working
  <2>3. Set(c, d)
    BY <1>2 DEF EffectsDone
  <2> QED
    BY <1>0, <2>1, <2>2, <2>3, Moves
<1>3. CASE ~drv[c].moved
  <2>1. Return(c, "waiting") \/ Return(c, "error")
    BY <1>1, <1>3 DEF EffectsDone
  <2> QED
    BY <1>0, <2>1, Returns
<1> QED
  BY <1>2, <1>3

LEMMA DispatchKeeps ==
    ASSUME IInv, NEW c \in Coordinators, Dispatch(c)
    PROVE  IInv'
<1> PICK b : b = Requested(c)
  OBVIOUS
<1>0. OnlyDriver /\ drv[c].pc \in {"dispatch", "round"} /\ drv[c].pc \in Working
  BY DEF Dispatch, At, Working
<1>1. /\ c = "live" /\ drv[c] \in Drivers /\ drv[c].todo \subseteq Branches /\ drv[c].todo # {}
      /\ \A x \in drv[c].todo : IsEffect(KindOf(x)) /\ fan.ctl[x] \in {"active", "terminal"}
      /\ RecordKnown(drv[c]) /\ fan \in Fans /\ Ledger
  BY <1>0, LiveWorks
<1>2. b = First(drv[c].todo) /\ b \in drv[c].todo /\ b \in Branches
  BY <1>1, FirstBranch DEF Requested
<1>3. /\ fan.effect[b] # "none"
      /\ drv[c].pc = "dispatch" => receipt[WorkOf(b)] = "none"
      /\ drv[c].pc = "round" =>
            /\ KindOf(b) = "schedule"
            /\ receipt[WorkOf(b)] \in {"resolved", "done"} \/ (receipt[WorkOf(b)] = "begun" /\ world[WorkOf(b)] = 0)
  BY <1>0, <1>1, <1>2 DEF RecordKnown
<1>4. ASSUME NEW p \in {"begin", "act"}, Set(c, [drv[c] EXCEPT !.pc = p, !.fresh = TRUE]),
             p = "begin" => \/ receipt[WorkOf(b)] = "none"
                            \/ KindOf(b) = "schedule" /\ receipt[WorkOf(b)] = "resolved",
             p = "act" => KindOf(b) # "approval" /\ receipt[WorkOf(b)] = "begun" /\ world[WorkOf(b)] = 0
      PROVE  IInv'
  <2> PICK d : d = [drv[c] EXCEPT !.pc = p, !.fresh = TRUE]
    OBVIOUS
  <2>1. d \in Drivers /\ d.pc = p /\ d.todo = drv[c].todo
    BY <1>1 DEF Drivers, Working
  <2>2. RecordKnown(d)
    BY <1>2, <1>3, <1>4, <2>1 DEF RecordKnown, InEffect, Committing
  <2>3. Knows(c, d)
    BY <1>1, <2>1, <2>2 DEF Knows, LiveKnows, Busy, InEffect, Committing, Working
  <2> QED
    BY <1>0, <1>4, <2>1, <2>3, Moves
<1>5. CASE drv[c].pc = "dispatch" /\ ~StillActive(c, b)
  BY <1>0, <1>5, Returns DEF Dispatch, At
<1>6. CASE drv[c].pc = "dispatch" /\ StillActive(c, b) /\ KindOf(b) # "schedule"
  <2>1. Set(c, [drv[c] EXCEPT !.pc = "begin", !.fresh = TRUE])
    BY <1>6 DEF Dispatch, At
  <2> QED
    BY <1>3, <1>4, <1>6, <2>1
<1>7. CASE drv[c].pc = "round" \/ (drv[c].pc = "dispatch" /\ StillActive(c, b) /\ KindOf(b) = "schedule")
  <2>1. Set(c, ScheduleRound(c, b))
    BY <1>7 DEF Dispatch, At
  <2>2. CASE receipt[WorkOf(b)] \in {"none", "resolved"}
    <3>1. Set(c, [drv[c] EXCEPT !.pc = "begin", !.fresh = TRUE])
      BY <2>1, <2>2 DEF ScheduleRound
    <3> QED
      BY <1>3, <1>4, <1>7, <2>2, <3>1
  <2>3. CASE receipt[WorkOf(b)] = "begun"
    <3>1. Set(c, [drv[c] EXCEPT !.pc = "act", !.fresh = TRUE])
      BY <2>1, <2>3 DEF ScheduleRound
    <3>2. KindOf(b) = "schedule" /\ world[WorkOf(b)] = 0
      BY <1>3, <1>7, <2>3
    <3> QED
      BY <1>4, <2>3, <3>1, <3>2
  <2>4. CASE receipt[WorkOf(b)] = "done"
    <3>1. Set(c, Answer(c, b, "completed"))
      BY <2>1, <2>4 DEF ScheduleRound
    <3>2. Evidence(b, fan.node[b])
      BY <1>1, <1>2, <2>4, RecordIsEvidence
    <3> QED
      BY <1>0, <1>1, <3>1, <3>2, Answers
  <2> QED
    BY <1>0, <1>3, <2>2, <2>3, <2>4
<1> QED
  BY <1>0, <1>5, <1>6, <1>7

-----------------------------------------------------------------------------
(***************************************************************************)
(* What one coordinator may rely on while the other one works              *)
(***************************************************************************)
Stable == (Abandoned => Abandoned') /\ (MergeReady => MergeReady')

\* Of the coordinator x at most the loaded position changes.
Bystander(x) == drv'[x] = drv[x] \/ drv'[x] = [drv[x] EXCEPT !.fresh = FALSE]

LEMMA BystanderFields ==
    ASSUME IInv, NEW x \in Coordinators, Bystander(x)
    PROVE  /\ drv'[x] \in Drivers /\ drv'[x].pc = drv[x].pc /\ drv'[x].ev = drv[x].ev
           /\ drv'[x].back = drv[x].back /\ drv'[x].todo = drv[x].todo /\ drv'[x].code = drv[x].code
<1>1. drv[x] \in Drivers
  BY DEF IInv, DriversTyped
<1>2. CASE drv'[x] = drv[x]
  BY <1>1, <1>2
<1>3. CASE drv'[x] = [drv[x] EXCEPT !.fresh = FALSE]
  BY <1>1, <1>3 DEF Drivers
<1> QED
  BY <1>2, <1>3 DEF Bystander

LEMMA CancellerKeeps ==
    ASSUME IInv, Bystander("canceller"), Stable
    PROVE  Knows("canceller", drv["canceller"])'
<1> PICK d : d = drv["canceller"]
  OBVIOUS
<1> PICK y : y = drv'["canceller"]
  OBVIOUS
<1>1. y.pc = d.pc /\ y.ev = d.ev /\ y.back = d.back /\ y.code = d.code
  BY BystanderFields DEF Coordinators
<1>2. Knows("canceller", d)
  BY DEF IInv, Coordinators
<1>3. CancellerKnows(y)
  BY <1>1, <1>2 DEF Knows, CancellerKnows, Committing
<1>4. Committing(y) => EventKnown(y.ev)'
  <2>1. Committing(y) => EventKnown(d.ev) /\ d.ev.t \in RootEvents
    BY <1>1, <1>2 DEF Knows, CancellerKnows, Committing
  <2> QED
    BY <1>1, <2>1 DEF EventKnown, Stable, RootEvents
<1> QED
  BY <1>3, <1>4 DEF Knows, Committing, CancellerKnows

\* A cancellation ends branches and leaves the rest of the fan-out alone.
LiveStable ==
    /\ receipt' = receipt /\ world' = world
    /\ fan'.node = fan.node /\ fan'.effect = fan.effect
    /\ \A b \in Branches : fan.ctl[b] \in {"active", "terminal"} => fan'.ctl[b] \in {"active", "terminal"}

LEMMA LiveKeeps ==
    ASSUME IInv, Bystander("live"), Stable, LiveStable
    PROVE  Knows("live", drv["live"])'
<1> PICK d : d = drv["live"]
  OBVIOUS
<1> PICK y : y = drv'["live"]
  OBVIOUS
<1>1. d \in Drivers /\ y.pc = d.pc /\ y.ev = d.ev /\ y.back = d.back /\ y.todo = d.todo
  BY BystanderFields DEF Coordinators, IInv, DriversTyped
<1>2. (Committing(d) => EventKnown(d.ev)) /\ LiveKnows(d) /\ d.todo \subseteq Branches
  BY <1>1 DEF IInv, Coordinators, Knows, Drivers
<1>3. Committing(y) <=> Committing(d)
  BY <1>1 DEF Committing
<1>4. (InEffect(y) <=> InEffect(d)) /\ (Busy(y) <=> Busy(d))
  BY <1>1, <1>3 DEF InEffect, Busy
<1>5. \A b : KindOf(b)' = KindOf(b) /\ WorkOf(b)' = WorkOf(b)
  BY DEF LiveStable, KindOf, WorkOf
<1>6. \A b, n : Evidence(b, n)' <=> Evidence(b, n)
  BY DEF LiveStable, Evidence
<1>7. Committing(y) => EventKnown(y.ev)'
  BY <1>1, <1>2, <1>3, <1>6 DEF EventKnown, Stable, LiveStable
<1>8. RecordKnown(d) => RecordKnown(y)'
  BY <1>1, <1>4, <1>5 DEF RecordKnown, LiveStable, InEffect, Committing
<1>9. \A b \in Branches : fan.ctl[b] \in {"active", "terminal"} => fan'.ctl[b] \in {"active", "terminal"}
  BY DEF LiveStable
<1>10. LiveKnows(y)'
  BY <1>1, <1>2, <1>4, <1>5, <1>8, <1>9 DEF LiveKnows, IsEffect, InEffect, Busy, Committing
<1> QED
  BY <1>7, <1>10 DEF Knows, Committing

-----------------------------------------------------------------------------
(***************************************************************************)
(* The records of an effect                                                *)
(***************************************************************************)
\* A record of node n of branch b is written.
LEMMA RecordStep ==
    ASSUME JournalOK, NEW b \in Branches, NEW n \in DOMAIN Region[b], NEW r \in Receipts,
           UNCHANGED <<root, fan, join, merged, world>>,
           receipt' = [receipt EXCEPT ![<<b, n>>] = r],
           ~Untried(b, n), ~Evidence(b, n), LedgerAt(b, n)'
    PROVE  JournalOK' /\ Stable
<1>0. \A x \in Branches : \A m \in DOMAIN Region[x] : <<x, m>> \in Works
  BY Numbering
<1>1. JournalTyped'
  BY DEF JournalOK, JournalTyped, FanTyped
<1>2. \A x \in Branches : \A m \in DOMAIN Region[x] : <<x, m>> # <<b, n>> => receipt'[<<x, m>>] = receipt[<<x, m>>]
  BY <1>0 DEF JournalOK, JournalTyped
<1>3. Ledger'
  <2> SUFFICES ASSUME NEW x \in Branches, NEW m \in DOMAIN Region[x]
               PROVE  LedgerAt(x, m)'
    BY DEF Ledger
  <2>1. CASE <<x, m>> = <<b, n>>
    BY <2>1
  <2>2. CASE <<x, m>> # <<b, n>>
    BY <1>2, <2>2 DEF JournalOK, Ledger, LedgerAt
  <2> QED
    BY <2>1, <2>2
<1>4. Rooted' /\ Stable
  BY DEF JournalOK, Rooted, Stable, Abandoned, MergeReady, AllTerminal, Completed
<1>5. ASSUME NEW x \in Branches
      PROVE  BranchOK(x)'
  <2>1. BranchOK(x)
    BY DEF JournalOK
  <2>2. ControlAgrees(x)' /\ OnItsWay(x)'
    BY <2>1 DEF BranchOK, ControlAgrees, OnItsWay
  <2>3. \A m \in DOMAIN Region[x] : <<x, m>> = <<b, n>> => ~Untried(x, m)
    OBVIOUS
  <2>4. NotYet(x)'
    BY <1>2, <2>1, <2>3 DEF BranchOK, NotYet, Untried
  <2>5. \A m : Evidence(x, m) => Evidence(x, m)'
    <3> SUFFICES ASSUME NEW m, Evidence(x, m)
                 PROVE  Evidence(x, m)'
      OBVIOUS
    <3>1. m \in DOMAIN Region[x] => <<x, m>> # <<b, n>>
      OBVIOUS
    <3> QED
      BY <1>2, <3>1 DEF Evidence
  <2>6. Passed(x)'
    BY <2>1, <2>5 DEF BranchOK, Passed
  <2> QED
    BY <2>2, <2>4, <2>6 DEF BranchOK
<1> QED
  BY <1>1, <1>3, <1>4, <1>5 DEF JournalOK

\* The effect of node n of branch b takes place.
LEMMA WorldStep ==
    ASSUME JournalOK, NEW b \in Branches, NEW n \in DOMAIN Region[b], UNCHANGED journal,
           receipt[<<b, n>>] = "begun", world[<<b, n>>] = 0,
           world' = [world EXCEPT ![<<b, n>>] = @ + 1]
    PROVE  JournalOK' /\ Stable /\ world'[<<b, n>>] = 1
<1>0. \A x \in Branches : \A m \in DOMAIN Region[x] : <<x, m>> \in Works
  BY Numbering
<1>1. root' = root /\ fan' = fan /\ join' = join /\ merged' = merged /\ receipt' = receipt
  BY DEF journal
<1>2. world \in [Works -> Nat]
  BY DEF JournalOK, JournalTyped
<1>3. world' \in [Works -> Nat] /\ world'[<<b, n>>] = 1
  BY <1>0, <1>2
<1>4. JournalTyped'
  BY <1>1, <1>3 DEF JournalOK, JournalTyped, FanTyped
<1>5. Ledger'
  <2> SUFFICES ASSUME NEW x \in Branches, NEW m \in DOMAIN Region[x]
               PROVE  LedgerAt(x, m)'
    BY DEF Ledger
  <2>0. LedgerAt(x, m)
    BY DEF JournalOK, Ledger
  <2>1. CASE <<x, m>> = <<b, n>>
    BY <1>1, <1>3, <2>0, <2>1 DEF LedgerAt
  <2>2. CASE <<x, m>> # <<b, n>>
    <3>1. world'[<<x, m>>] = world[<<x, m>>]
      BY <1>0, <1>2, <2>2
    <3> QED
      BY <1>1, <2>0, <3>1 DEF LedgerAt
  <2> QED
    BY <2>1, <2>2
<1>6. Rooted' /\ Stable
  BY <1>1 DEF JournalOK, Rooted, Stable, Abandoned, MergeReady, AllTerminal, Completed
<1>7. \A x \in Branches : BranchOK(x)'
  BY <1>1 DEF JournalOK, BranchOK, ControlAgrees, OnItsWay, NotYet, Untried, Passed, Evidence
<1> QED
  BY <1>3, <1>4, <1>5, <1>6, <1>7 DEF JournalOK

\* A coordinator moves to d with a step that changes the journal or the world.
LEMMA LiveMoves ==
    ASSUME IInv, JournalOK', Stable, UNCHANGED <<crashes, cancels>>, NEW d \in Drivers,
           Set("live", d) \/ SetCommitted("live", d), Knows("live", d)'
    PROVE  IInv'
<1>0. drv \in [Coordinators -> Drivers] /\ "live" \in Coordinators /\ "canceller" \in Coordinators
  BY DEF IInv, DriversTyped, Coordinators
<1>1. drv'["live"] = d /\ Bystander("canceller")
  <2>1. CASE Set("live", d)
    BY <1>0, <2>1 DEF Set, Bystander
  <2>2. CASE SetCommitted("live", d)
    BY <1>0, <2>2 DEF SetCommitted, Bystander
  <2> QED
    BY <2>1, <2>2
<1>2. drv'["canceller"] \in Drivers
  BY <1>0, <1>1, BystanderFields
<1>3. drv' = [x \in Coordinators |-> drv'[x]]
  <2>1. CASE Set("live", d)
    BY <1>0, <2>1 DEF Set
  <2>2. CASE SetCommitted("live", d)
    BY <2>2 DEF SetCommitted
  <2> QED
    BY <2>1, <2>2
<1>4. drv' \in [Coordinators -> Drivers]
  BY <1>1, <1>2, <1>3 DEF Coordinators
<1>5. Knows("canceller", drv["canceller"])'
  BY <1>1, CancellerKeeps
<1>6. Knows("live", drv["live"])'
  BY <1>1 DEF Knows
<1> QED
  BY <1>4, <1>5, <1>6 DEF IInv, DriversTyped, Coordinators

LEMMA CancellerMoves ==
    ASSUME IInv, JournalOK', Stable, LiveStable, UNCHANGED <<crashes, cancels>>, NEW d \in Drivers,
           SetCommitted("canceller", d), Knows("canceller", d)'
    PROVE  IInv'
<1>0. drv \in [Coordinators -> Drivers] /\ "live" \in Coordinators /\ "canceller" \in Coordinators
  BY DEF IInv, DriversTyped, Coordinators
<1>1. drv'["canceller"] = d /\ Bystander("live")
  BY <1>0 DEF SetCommitted, Bystander
<1>2. drv'["live"] \in Drivers
  BY <1>0, <1>1, BystanderFields
<1>3. drv' = [x \in Coordinators |-> drv'[x]]
  BY DEF SetCommitted
<1>4. drv' \in [Coordinators -> Drivers]
  BY <1>1, <1>2, <1>3 DEF Coordinators
<1>5. Knows("live", drv["live"])'
  BY <1>1, LiveKeeps
<1>6. Knows("canceller", drv["canceller"])'
  BY <1>1 DEF Knows
<1> QED
  BY <1>4, <1>5, <1>6 DEF IInv, DriversTyped, Coordinators

\* The work of the requested branch is a node of its region with an effect.
LEMMA Works1 ==
    ASSUME IInv, NEW c \in Coordinators, drv[c].pc \in Working
    PROVE  LET b == First(drv[c].todo)
               n == fan.node[b]
           IN  /\ c = "live" /\ drv[c] \in Drivers /\ drv[c].todo # {} /\ drv[c].todo \subseteq Branches
               /\ \A x \in drv[c].todo : IsEffect(KindOf(x)) /\ fan.ctl[x] \in {"active", "terminal"}
               /\ RecordKnown(drv[c]) /\ fan \in Fans /\ JournalOK
               /\ b \in drv[c].todo /\ b \in Branches /\ n \in DOMAIN Region[b]
               /\ KindOf(b) = Region[b][n] /\ KindOf(b) \in {"tool", "schedule", "approval"}
               /\ WorkOf(b) = <<b, n>> /\ LedgerAt(b, n) /\ fan.ctl[b] \in {"active", "terminal"}
               /\ receipt[<<b, n>>] \notin {"done", "approved"} => ~Evidence(b, n)
<1> PICK b : b = First(drv[c].todo)
  OBVIOUS
<1> PICK n : n = fan.node[b]
  OBVIOUS
<1>1. /\ c = "live" /\ drv[c] \in Drivers /\ drv[c].todo # {} /\ drv[c].todo \subseteq Branches
      /\ \A x \in drv[c].todo : IsEffect(KindOf(x)) /\ fan.ctl[x] \in {"active", "terminal"}
      /\ RecordKnown(drv[c]) /\ fan \in Fans /\ Ledger
  BY LiveWorks
<1>2. b \in drv[c].todo /\ b \in Branches
  BY <1>1, FirstBranch
<1>3. KindOf(b) \in {"tool", "schedule", "approval"}
  BY <1>1, <1>2 DEF IsEffect
<1>4. n \in DOMAIN Region[b] /\ KindOf(b) = Region[b][n] /\ WorkOf(b) = <<b, n>>
  BY <1>3 DEF KindOf, WorkOf
<1>5. LedgerAt(b, n)
  BY <1>1, <1>2, <1>4 DEF Ledger
<1>6. receipt[<<b, n>>] \notin {"done", "approved"} => ~Evidence(b, n)
  BY <1>3, <1>4 DEF Evidence
<1>7. JournalOK
  BY DEF IInv
<1> QED
  BY <1>1, <1>2, <1>3, <1>4, <1>5, <1>6, <1>7

LEMMA BeginKeeps ==
    ASSUME IInv, NEW c \in Coordinators, Begin(c)
    PROVE  IInv'
<1> PICK b : b = First(drv[c].todo)
  OBVIOUS
<1> PICK n : n = fan.node[b]
  OBVIOUS
<1> PICK K : K = KindOf(b)
  OBVIOUS
<1>0. drv[c].pc = "begin" /\ drv[c].pc \in Working
  BY DEF Begin, At, Working
<1>1. /\ c = "live" /\ drv[c] \in Drivers /\ drv[c].todo # {} /\ drv[c].todo \subseteq Branches
      /\ \A x \in drv[c].todo : IsEffect(KindOf(x)) /\ fan.ctl[x] \in {"active", "terminal"}
      /\ RecordKnown(drv[c]) /\ fan \in Fans /\ JournalOK
      /\ b \in drv[c].todo /\ b \in Branches /\ n \in DOMAIN Region[b]
      /\ K = Region[b][n] /\ K \in {"tool", "schedule", "approval"}
      /\ WorkOf(b) = <<b, n>> /\ LedgerAt(b, n) /\ fan.ctl[b] \in {"active", "terminal"}
      /\ receipt[<<b, n>>] \notin {"done", "approved"} => ~Evidence(b, n)
  BY <1>0, Works1
<1>2. fan.effect[b] # "none" /\ (receipt[<<b, n>>] = "none" \/ (K = "schedule" /\ receipt[<<b, n>>] = "resolved"))
  BY <1>0, <1>1 DEF RecordKnown
<1>3. CASE MayBegin(c, b)
  <2> PICK r : r = BeginRecord(b)
    OBVIOUS
  <2>1. /\ r \in Receipts
        /\ K = "approval" => r = "pending"
        /\ K = "tool" => r = "begun"
        /\ K = "schedule" => r = IF receipt[<<b, n>>] = "none" THEN "resolved" ELSE "begun"
    BY <1>1 DEF BeginRecord, Receipts
  <2>2. receipt' = [receipt EXCEPT ![<<b, n>>] = r]
        /\ UNCHANGED <<root, fan, join, merged, world, crashes, cancels>>
    BY <1>1, <1>3 DEF Begin, Requested
  <2>3. receipt'[<<b, n>>] = r
    BY <1>1, <2>2, Numbering DEF JournalOK, JournalTyped
  <2>4. world[<<b, n>>] = 0
    BY <1>1, <1>2 DEF LedgerAt
  <2>5. LedgerAt(b, n)'
    BY <1>1, <2>1, <2>2, <2>3, <2>4 DEF LedgerAt
  <2>6. ~Untried(b, n) /\ ~Evidence(b, n)
    BY <1>1, <1>2 DEF Untried, Fans
  <2>7. JournalOK' /\ Stable
    BY <1>1, <2>1, <2>2, <2>5, <2>6, RecordStep
  <2>8. \A x : KindOf(x)' = KindOf(x) /\ WorkOf(x)' = WorkOf(x)
    BY <2>2 DEF KindOf, WorkOf
  <2>9. CASE K = "approval"
    <3> PICK d : d = Answer(c, b, "waiting")
      OBVIOUS
    <3>1. SetCommitted(c, d)
      BY <1>3, <2>9 DEF Begin, Requested
    <3>2. /\ d \in Drivers /\ d.pc = "load" /\ d.back = "next" /\ d.todo = drv[c].todo
          /\ d.ev \in Events /\ d.ev.t = "outcome" /\ d.ev.b = b /\ d.ev.out = "waiting"
      BY <1>1, AnswerFields
    <3>3. EventKnown(d.ev)'
      BY <3>2 DEF EventKnown
    <3>4. Knows("live", d)'
      BY <1>1, <2>2, <2>8, <3>2, <3>3
         DEF Knows, LiveKnows, RecordKnown, Busy, InEffect, Committing, Working, IsEffect, EffectEvents
    <3> QED
      BY <1>1, <2>2, <2>7, <3>1, <3>2, <3>4, LiveMoves
  <2>10. CASE K \in {"schedule", "tool"}
    <3> PICK p : p = IF K = "schedule" THEN "round" ELSE "act"
      OBVIOUS
    <3> PICK d : d = [drv[c] EXCEPT !.pc = p]
      OBVIOUS
    <3>1. SetCommitted(c, d) /\ p \in {"round", "act"}
      BY <1>3, <2>10 DEF Begin, Requested
    <3>2. d \in Drivers /\ d.pc = p /\ d.todo = drv[c].todo
      <4>1. drv[c] \in Drivers
        BY <1>1
      <4> QED
        BY <3>1, <4>1 DEF Drivers, Working
    <3>3. RecordKnown(d)'
      BY <1>1, <1>2, <2>1, <2>2, <2>3, <2>4, <2>8, <2>10, <3>1, <3>2 DEF RecordKnown, InEffect, Committing
    <3>4. Knows("live", d)'
      BY <1>1, <2>2, <2>8, <3>2, <3>3
         DEF Knows, LiveKnows, Busy, InEffect, Committing, Working, IsEffect
    <3> QED
      BY <1>1, <2>2, <2>7, <3>1, <3>2, <3>4, LiveMoves
  <2> QED
    BY <1>1, <2>9, <2>10
<1>4. CASE ~MayBegin(c, b)
  <2>1. Return(c, "error") /\ OnlyDriver
    BY <1>4 DEF Begin, Requested, OnlyDriver, journal
  <2> QED
    BY <2>1, Returns
<1> QED
  BY <1>3, <1>4

LEMMA ActKeeps ==
    ASSUME IInv, NEW c \in Coordinators, Act(c)
    PROVE  IInv'
<1> PICK b : b = First(drv[c].todo)
  OBVIOUS
<1> PICK n : n = fan.node[b]
  OBVIOUS
<1>0. drv[c].pc = "act" /\ drv[c].pc \in Working
  BY DEF Act, At, Working
<1>1. /\ c = "live" /\ drv[c] \in Drivers /\ drv[c].todo # {} /\ drv[c].todo \subseteq Branches
      /\ \A x \in drv[c].todo : IsEffect(KindOf(x)) /\ fan.ctl[x] \in {"active", "terminal"}
      /\ RecordKnown(drv[c]) /\ JournalOK
      /\ b \in drv[c].todo /\ b \in Branches /\ n \in DOMAIN Region[b] /\ WorkOf(b) = <<b, n>>
  BY <1>0, Works1
<1>2. fan.effect[b] # "none" /\ KindOf(b) # "approval" /\ receipt[<<b, n>>] = "begun" /\ world[<<b, n>>] = 0
  BY <1>0, <1>1 DEF RecordKnown, Working
<1> PICK d : d = [drv[c] EXCEPT !.pc = "finish"]
  OBVIOUS
<1>3. d \in Drivers /\ d.pc = "finish" /\ d.todo = drv[c].todo
  <2>1. drv[c] \in Drivers
    BY <1>1
  <2> QED
    BY <2>1 DEF Drivers, Working
<1>4. world' = [world EXCEPT ![<<b, n>>] = @ + 1] /\ Set(c, d) /\ UNCHANGED <<journal, crashes, cancels>>
  BY <1>1 DEF Act, Requested
<1>5. JournalOK' /\ Stable /\ world'[<<b, n>>] = 1
  BY <1>1, <1>2, <1>4, WorldStep
<1>6. fan' = fan /\ receipt' = receipt /\ \A x : KindOf(x)' = KindOf(x) /\ WorkOf(x)' = WorkOf(x)
  BY <1>4 DEF KindOf, WorkOf, journal
<1>7. RecordKnown(d)'
  BY <1>1, <1>2, <1>3, <1>5, <1>6 DEF RecordKnown, InEffect, Committing
<1>8. Knows("live", d)'
  BY <1>1, <1>3, <1>6, <1>7 DEF Knows, LiveKnows, Busy, InEffect, Committing, Working, IsEffect
<1> QED
  BY <1>1, <1>3, <1>4, <1>5, <1>8, LiveMoves

LEMMA FinishKeeps ==
    ASSUME IInv, NEW c \in Coordinators, Finish(c)
    PROVE  IInv'
<1> PICK b : b = First(drv[c].todo)
  OBVIOUS
<1> PICK n : n = fan.node[b]
  OBVIOUS
<1> PICK K : K = KindOf(b)
  OBVIOUS
<1>0. drv[c].pc = "finish" /\ drv[c].pc \in Working
  BY DEF Finish, At, Working
<1>1. /\ c = "live" /\ drv[c] \in Drivers /\ drv[c].todo # {} /\ drv[c].todo \subseteq Branches
      /\ \A x \in drv[c].todo : IsEffect(KindOf(x)) /\ fan.ctl[x] \in {"active", "terminal"}
      /\ RecordKnown(drv[c]) /\ fan \in Fans /\ JournalOK
      /\ b \in drv[c].todo /\ b \in Branches /\ n \in DOMAIN Region[b]
      /\ K = Region[b][n] /\ K \in {"tool", "schedule", "approval"}
      /\ WorkOf(b) = <<b, n>> /\ LedgerAt(b, n) /\ fan.ctl[b] \in {"active", "terminal"}
      /\ receipt[<<b, n>>] \notin {"done", "approved"} => ~Evidence(b, n)
  BY <1>0, Works1
<1>2. fan.effect[b] # "none" /\ K # "approval" /\ receipt[<<b, n>>] = "begun" /\ world[<<b, n>>] = 1
  BY <1>0, <1>1 DEF RecordKnown, Working
<1>3. CASE drv[c].fresh
  <2>1. PICK r \in IF K = "tool" THEN {"done", "failed"} ELSE {"done"} :
           /\ receipt' = [receipt EXCEPT ![<<b, n>>] = r]
           /\ SetCommitted(c, IF K = "schedule" THEN [drv[c] EXCEPT !.pc = "round"]
                              ELSE Answer(c, b, IF r = "done" THEN "completed" ELSE "failed"))
    BY <1>1, <1>3 DEF Finish, Requested
  <2>2. r \in Receipts /\ r \in {"done", "failed"} /\ (K = "schedule" => r = "done")
    BY <2>1 DEF Receipts
  <2>3. UNCHANGED <<root, fan, join, merged, world, crashes, cancels>>
    BY DEF Finish
  <2>4. receipt'[<<b, n>>] = r
    BY <1>1, <2>1, Numbering DEF JournalOK, JournalTyped
  <2>5. LedgerAt(b, n)'
    BY <1>1, <1>2, <2>2, <2>3, <2>4 DEF LedgerAt
  <2>6. ~Untried(b, n) /\ ~Evidence(b, n)
    BY <1>1, <1>2 DEF Untried, Fans
  <2>7. JournalOK' /\ Stable
    BY <1>1, <2>1, <2>2, <2>3, <2>5, <2>6, RecordStep
  <2>8. \A x : KindOf(x)' = KindOf(x) /\ WorkOf(x)' = WorkOf(x)
    BY <2>3 DEF KindOf, WorkOf
  <2>9. CASE K = "tool"
    <3> PICK out : out = IF r = "done" THEN "completed" ELSE "failed"
      OBVIOUS
    <3> PICK d : d = Answer(c, b, out)
      OBVIOUS
    <3>1. SetCommitted(c, d)
      BY <2>1, <2>9
    <3>2. /\ d \in Drivers /\ d.pc = "load" /\ d.back = "next" /\ d.todo = drv[c].todo
          /\ d.ev \in Events /\ d.ev.t = "outcome" /\ d.ev.b = b /\ d.ev.out = out
      BY <1>1, AnswerFields
    <3>3. out = "completed" => Evidence(b, n)'
      BY <1>1, <2>2, <2>4, <2>9 DEF Evidence
    <3>4. fan'.node[b] = n
      BY <2>3
    <3>5. EventKnown(d.ev)'
      BY <2>2, <3>2, <3>3, <3>4 DEF EventKnown, Evidence
    <3>6. Knows("live", d)'
      BY <1>1, <2>3, <2>8, <3>2, <3>5
         DEF Knows, LiveKnows, RecordKnown, Busy, InEffect, Committing, Working, IsEffect, EffectEvents
    <3> QED
      BY <1>1, <2>3, <2>7, <3>1, <3>2, <3>6, LiveMoves
  <2>10. CASE K = "schedule"
    <3> PICK d : d = [drv[c] EXCEPT !.pc = "round"]
      OBVIOUS
    <3>1. d \in Drivers /\ d.pc = "round" /\ d.todo = drv[c].todo
      <4>1. drv[c] \in Drivers
        BY <1>1
      <4> QED
        BY <4>1 DEF Drivers, Working
    <3>2. SetCommitted(c, d)
      BY <2>1, <2>10
    <3>3. RecordKnown(d)'
      BY <1>1, <1>2, <2>2, <2>3, <2>4, <2>8, <2>10, <3>1 DEF RecordKnown, InEffect, Committing
    <3>4. Knows("live", d)'
      BY <1>1, <2>3, <2>8, <3>1, <3>3
         DEF Knows, LiveKnows, Busy, InEffect, Committing, Working, IsEffect
    <3> QED
      BY <1>1, <2>3, <2>7, <3>1, <3>2, <3>4, LiveMoves
  <2> QED
    BY <1>1, <1>2, <2>9, <2>10
<1>4. CASE ~drv[c].fresh
  <2>1. Return(c, "error") /\ OnlyDriver
    BY <1>4 DEF Finish, OnlyDriver, journal
  <2> QED
    BY <2>1, Returns
<1> QED
  BY <1>3, <1>4

-----------------------------------------------------------------------------
(***************************************************************************)
(* The surroundings                                                        *)
(***************************************************************************)
LEMMA OffTyped == Off \in Drivers /\ Off.pc = "idle" /\ \A c \in Coordinators : Knows(c, Off)
<1>1. NoEvent \in Events /\ NoEvent.t = "none"
  BY Numbering DEF NoEvent, Events, EventTypes, Outcomes
<1>2. [b \in Branches |-> 0] \in [Branches -> Nat]
  OBVIOUS
<1>3. Off \in Drivers /\ Off.pc = "idle"
  BY <1>1, <1>2 DEF Off, Drivers
<1> QED
  BY <1>3 DEF Knows, LiveKnows, CancellerKnows, RecordKnown, Busy, InEffect, Committing, Working

\* A coordinator that is about to plan.
LEMMA PlanningKnows ==
    ASSUME NEW c \in Coordinators, NEW m \in BOOLEAN, c = "canceller" => m,
           NEW d, d = [Off EXCEPT !.pc = "plan", !.code = m]
    PROVE  d \in Drivers /\ Knows(c, d)
<1>1. d \in Drivers /\ d.pc = "plan" /\ d.code = m
  BY OffTyped DEF Drivers
<1> QED
  BY <1>1 DEF Knows, LiveKnows, CancellerKnows, RecordKnown, Busy, InEffect, Committing, Working

LEMMA ResumeKeeps ==
    ASSUME IInv, Resume
    PROVE  IInv'
<1> DEFINE m == fan.cancel # "none"
<1>1. m \in BOOLEAN /\ Set("live", [Off EXCEPT !.pc = "plan", !.code = m]) /\ OnlyDriver
  BY DEF Resume
<1> HIDE DEF m
<1> PICK k : k = m
  OBVIOUS
<1> PICK d : d = [Off EXCEPT !.pc = "plan", !.code = k]
  OBVIOUS
<1>2. d \in Drivers /\ Knows("live", d)
  BY <1>1, PlanningKnows DEF Coordinators
<1> QED
  BY <1>1, <1>2, Moves DEF Coordinators

LEMMA StartCancelKeeps ==
    ASSUME IInv, StartCancel
    PROVE  IInv'
<1> PICK d : d = [Off EXCEPT !.pc = "plan", !.code = TRUE]
  OBVIOUS
<1>0. UNCHANGED <<journal, world>> /\ Set("canceller", d) /\ "canceller" \in Coordinators
  BY DEF StartCancel, Coordinators
<1>1. d \in Drivers /\ Knows("canceller", d)
  BY PlanningKnows DEF Coordinators
<1>2. JournalOK'
  BY <1>0, JournalSame DEF IInv
<1>3. DriversTyped'
  BY <1>0, <1>1, ParallelAssumption DEF StartCancel, Set, IInv, DriversTyped
<1>4. ASSUME NEW x \in Coordinators
      PROVE  Knows(x, drv[x])'
  <2> PICK y : y = drv'[x]
    OBVIOUS
  <2>1. y = IF x = "canceller" THEN d ELSE drv[x]
    BY <1>0 DEF Set, IInv, DriversTyped
  <2>2. Knows(x, y)
    BY <1>1, <2>1 DEF IInv
  <2>3. Knows(x, y)'
    BY <1>0, <2>2, KnowsSame
  <2> QED
    BY <2>3 DEF Knows
<1> QED
  BY <1>2, <1>3, <1>4 DEF IInv

LEMMA CrashKeeps ==
    ASSUME IInv, Crash
    PROVE  IInv'
<1>0. UNCHANGED <<journal, world>> /\ drv' = [c \in Coordinators |-> Off]
  BY DEF Crash
<1>1. JournalOK'
  BY <1>0, JournalSame DEF IInv
<1>2. DriversTyped'
  BY <1>0, OffTyped, ParallelAssumption DEF Crash, IInv, DriversTyped
<1>3. ASSUME NEW x \in Coordinators
      PROVE  Knows(x, drv[x])'
  <2> PICK y : y = drv'[x]
    OBVIOUS
  <2>1. Knows(x, y)
    BY <1>0, OffTyped
  <2>2. Knows(x, y)'
    BY <1>0, <2>1, KnowsSame
  <2> QED
    BY <2>2 DEF Knows
<1> QED
  BY <1>1, <1>2, <1>3 DEF IInv

LEMMA ResolveApprovalKeeps ==
    ASSUME IInv, NEW w \in Works, ResolveApproval(w)
    PROVE  IInv'
<1>0. /\ drv["live"].pc = "idle" /\ receipt[w] = "pending"
      /\ drv' = [drv EXCEPT !["canceller"].fresh = FALSE]
      /\ UNCHANGED <<root, fan, join, merged, world, crashes, cancels>>
  BY DEF ResolveApproval, At
<1>a. PICK b \in Branches : w \in {b} \X DOMAIN Region[b]
  BY DEF Works
<1>1. PICK n \in DOMAIN Region[b] : w = <<b, n>>
  BY <1>a
<1>2. PICK r \in {"approved", "denied"} : receipt' = [receipt EXCEPT ![<<b, n>>] = r]
  BY <1>1 DEF ResolveApproval
<1>3. JournalOK /\ LedgerAt(b, n) /\ BranchOK(b) /\ r \in Receipts
  BY DEF IInv, JournalOK, Ledger, Receipts
<1>4. receipt[<<b, n>>] = "pending" /\ Region[b][n] = "approval" /\ world[<<b, n>>] = 0
  BY <1>0, <1>1, <1>3, Numbering DEF LedgerAt, Kinds
<1>5. receipt'[<<b, n>>] = r
  BY <1>1, <1>2, <1>3 DEF JournalOK, JournalTyped
<1>6. LedgerAt(b, n)'
  BY <1>0, <1>4, <1>5 DEF LedgerAt
<1>7. ~Untried(b, n) /\ ~Evidence(b, n)
  BY <1>3, <1>4 DEF BranchOK, NotYet, Evidence
<1>8. JournalOK' /\ Stable
  BY <1>0, <1>2, <1>3, <1>6, <1>7, RecordStep
<1>9. drv \in [Coordinators -> Drivers] /\ "live" \in Coordinators /\ "canceller" \in Coordinators
  BY DEF IInv, DriversTyped, Coordinators
<1>10. drv'["live"] = drv["live"] /\ Bystander("canceller")
  BY <1>0, <1>9 DEF Bystander
<1>11. drv'["canceller"] \in Drivers
  BY <1>9, <1>10, BystanderFields
<1>12. drv' \in [Coordinators -> Drivers]
  BY <1>0, <1>9, <1>10, <1>11 DEF Coordinators
<1>13. Knows("canceller", drv["canceller"])'
  BY <1>8, <1>10, CancellerKeeps
<1>14. Knows("live", drv["live"])'
  BY <1>0, <1>10 DEF Knows, LiveKnows, Busy, InEffect, Committing, Working
<1> QED
  BY <1>0, <1>8, <1>12, <1>13, <1>14 DEF IInv, DriversTyped, Coordinators

LEMMA InitHolds ==
    ASSUME Init
    PROVE  IInv
<1>0. /\ root = "active" /\ fan = NoFan /\ join = "none" /\ merged = {}
      /\ receipt = [w \in Works |-> "none"] /\ world = [w \in Works |-> 0]
      /\ drv = [c \in Coordinators |-> Off] /\ crashes = 0 /\ cancels = 0
  BY DEF Init
<1>1. fan \in Fans
  BY <1>0 DEF NoFan, Fans, BranchControls, Executions, Outcomes
<1>2. /\ fan.last = 1 /\ fan.cancel = "none" /\ fan.gave = {}
      /\ \A b \in Branches : /\ fan.ctl[b] = "queued" /\ fan.exec[b] = "queued" /\ fan.node[b] = 1
                             /\ fan.step[b] = 0 /\ fan.order[b] = 0 /\ fan.effect[b] = "none"
  BY <1>0 DEF NoFan
<1>3. Cardinality(Branches) \in Nat
  BY Numbering, FS_CardinalityType
<1>4. FanTyped
  BY <1>1, <1>2, <1>3, Numbering, ParallelAssumption DEF FanTyped
<1>5. JournalTyped
  BY <1>0, <1>4 DEF JournalTyped, Roots, Receipts
<1>6. Ledger
  BY <1>0, Numbering DEF Ledger, LedgerAt
<1>7. Rooted
  BY <1>0, <1>2 DEF Rooted
<1>8. ASSUME NEW b \in Branches
      PROVE  BranchOK(b)
  <2>1. ControlAgrees(b) /\ OnItsWay(b)
    BY <1>2 DEF ControlAgrees, OnItsWay, Running
  <2>2. NotYet(b)
    BY <1>0, Numbering DEF NotYet
  <2>3. Passed(b)
    BY <1>2, Numbering DEF Passed
  <2> QED
    BY <2>1, <2>2, <2>3 DEF BranchOK
<1>9. DriversTyped
  BY <1>0, OffTyped, ParallelAssumption DEF DriversTyped
<1>10. \A c \in Coordinators : Knows(c, drv[c])
  BY <1>0, OffTyped
<1> QED
  BY <1>5, <1>6, <1>7, <1>8, <1>9, <1>10 DEF IInv, JournalOK

-----------------------------------------------------------------------------
(***************************************************************************)
(* Appends to the journal                                                  *)
(***************************************************************************)
SameBranch(x) ==
    /\ fan'.ctl[x] = fan.ctl[x] /\ fan'.exec[x] = fan.exec[x]
    /\ fan'.node[x] = fan.node[x] /\ fan'.effect[x] = fan.effect[x]

LEMMA SameBranchOK ==
    ASSUME NEW x, BranchOK(x), SameBranch(x), receipt' = receipt
    PROVE  BranchOK(x)'
BY DEF BranchOK, SameBranch, ControlAgrees, OnItsWay, NotYet, Untried, Passed, Evidence

LEMMA LedgerSame ==
    ASSUME Ledger, receipt' = receipt, world' = world
    PROVE  Ledger'
BY DEF Ledger, LedgerAt

\* Before all branches are terminal there is no join.
LEMMA BeforeJoin ==
    ASSUME JournalOK, NEW b \in Branches, fan.ctl[b] # "terminal"
    PROVE  /\ root \in {"active", "failed"} /\ join = "none" /\ merged = {} /\ fan.cancel # "completed"
BY DEF JournalOK, JournalTyped, Rooted, AllTerminal, Roots

\* An event about one branch.
LEMMA BranchCommit ==
    ASSUME JournalOK, NEW b \in Branches, fan.ctl[b] # "terminal", FanTyped',
           UNCHANGED <<root, join, merged, receipt, world>>, fan'.cancel = fan.cancel,
           \A x \in Branches : x # b => SameBranch(x), BranchOK(b)'
    PROVE  JournalOK' /\ Stable
<1>1. root \in {"active", "failed"} /\ join = "none" /\ merged = {} /\ fan.cancel # "completed"
  BY BeforeJoin
<1>2. JournalTyped'
  BY DEF JournalOK, JournalTyped
<1>3. Rooted'
  BY <1>1 DEF Rooted
<1>4. Stable
  BY <1>1 DEF Stable, Abandoned, MergeReady
<1>5. \A x \in Branches : BranchOK(x)'
  BY SameBranchOK DEF JournalOK
<1>6. Ledger'
  BY LedgerSame DEF JournalOK
<1> QED
  BY <1>2, <1>3, <1>4, <1>5, <1>6 DEF JournalOK

\* An event that leaves every branch alone.
LEMMA FlatCommit ==
    ASSUME JournalOK, FanTyped', UNCHANGED <<root, join, merged, receipt, world>>,
           fan'.cancel = fan.cancel \/ (fan.cancel = "none" /\ fan'.cancel = "requested"),
           fan.gave \subseteq fan'.gave, \A x \in Branches : SameBranch(x)
    PROVE  JournalOK' /\ Stable
<1>1. JournalTyped'
  BY DEF JournalOK, JournalTyped
<1>2. Completed' = Completed /\ (AllTerminal' <=> AllTerminal)
  BY DEF Completed, AllTerminal, SameBranch
<1>3. Rooted'
  BY <1>2 DEF JournalOK, Rooted, Abandoned
<1>4. Stable
  BY <1>2 DEF Stable, Abandoned, MergeReady
<1>5. \A x \in Branches : BranchOK(x)'
  BY SameBranchOK DEF JournalOK
<1>6. Ledger'
  BY LedgerSame DEF JournalOK
<1> QED
  BY <1>1, <1>3, <1>4, <1>5, <1>6 DEF JournalOK

\* What an appended event e finds and does.
Appends(e) ==
    /\ Accepts(e) /\ EventKnown(e)
    /\ root' = ReduceRoot(e) /\ fan' = ReduceFan(e) /\ join' = ReduceJoin(e)
    /\ merged' = ReduceMerged(e) /\ UNCHANGED <<receipt, world>>

BranchEvents == {"initialized", "dispatched", "started", "entered", "transition", "terminated",
                 "cancel_requested", "cancel_completed"} \cup EffectEvents

LEMMA FanEvent ==
    ASSUME NEW e \in Events, Appends(e), e.t \in BranchEvents
    PROVE  UNCHANGED <<root, join, merged, receipt, world>>
BY DEF Appends, ReduceRoot, ReduceJoin, ReduceMerged, BranchEvents, EffectEvents

\* The ranges of the journal, one by one.
LEMMA Ranges ==
    ASSUME JournalOK
    PROVE  /\ fan \in Fans /\ fan.last \in Nat /\ fan.last >= 1 /\ fan.last <= MaxSteps /\ MaxSteps \in Nat
           /\ \A b \in Branches :
                 /\ fan.node[b] \in 1..(Len(Region[b]) + 1) /\ fan.node[b] \in Nat
                 /\ fan.step[b] \in Nat /\ fan.step[b] <= fan.last
                 /\ fan.order[b] <= Cardinality(Branches)
                 /\ BranchOK(b)
BY ParallelAssumption DEF JournalOK, JournalTyped, FanTyped, Fans

LEMMA AppendInitialized ==
    ASSUME JournalOK, NEW e \in Events, Appends(e), e.t = "initialized"
    PROVE  JournalOK' /\ Stable
<1>1. fan \in Fans /\ fan' = ReduceFan(e)
  BY Ranges DEF Appends
<1>2. /\ fan' \in Fans /\ fan'.ctl = fan.ctl /\ fan'.exec = fan.exec /\ fan'.node = fan.node
      /\ fan'.step = fan.step /\ fan'.effect = fan.effect /\ fan'.order = fan.order
      /\ fan'.gave = fan.gave /\ fan'.last = fan.last /\ fan'.cancel = fan.cancel
  BY <1>1, FieldsInitialized
<1>3. FanTyped'
  BY <1>2 DEF FanTyped, JournalOK, JournalTyped
<1>4. \A x \in Branches : SameBranch(x)
  BY <1>2 DEF SameBranch
<1>5. UNCHANGED <<root, join, merged, receipt, world>>
  BY FanEvent DEF BranchEvents
<1> QED
  BY <1>2, <1>3, <1>4, <1>5, FlatCommit

LEMMA AppendCancelRequested ==
    ASSUME JournalOK, NEW e \in Events, Appends(e), e.t = "cancel_requested"
    PROVE  JournalOK' /\ Stable
<1>1. fan \in Fans /\ fan' = ReduceFan(e)
  BY Ranges DEF Appends
<1>2. /\ fan' \in Fans /\ fan'.ctl = fan.ctl /\ fan'.exec = fan.exec /\ fan'.node = fan.node
      /\ fan'.step = fan.step /\ fan'.effect = fan.effect /\ fan'.order = fan.order
      /\ fan'.gave = fan.gave /\ fan'.last = fan.last /\ fan'.cancel = "requested"
  BY <1>1, FieldsCancelRequested
<1>3. FanTyped'
  BY <1>2 DEF FanTyped, JournalOK, JournalTyped
<1>4. \A x \in Branches : SameBranch(x)
  BY <1>2 DEF SameBranch
<1>5. UNCHANGED <<root, join, merged, receipt, world>>
  BY FanEvent DEF BranchEvents
<1>6. fan.cancel = "none"
  BY DEF Appends, Accepts, AcceptsCancellation
<1> QED
  BY <1>2, <1>3, <1>4, <1>5, <1>6, FlatCommit

LEMMA AppendContributed ==
    ASSUME JournalOK, NEW e \in Events, Appends(e), e.t = "contributed"
    PROVE  JournalOK' /\ Stable
<1>1. fan \in Fans /\ fan' = ReduceFan(e)
  BY Ranges DEF Appends
<1>2. /\ fan' \in Fans /\ fan'.ctl = fan.ctl /\ fan'.exec = fan.exec /\ fan'.node = fan.node
      /\ fan'.step = fan.step /\ fan'.effect = fan.effect /\ fan'.order = fan.order
      /\ fan'.gave = fan.gave \cup {e.b} /\ fan'.last = fan.last /\ fan'.cancel = fan.cancel
  BY <1>1, FieldsContributed
<1>3. FanTyped'
  BY <1>2 DEF FanTyped, JournalOK, JournalTyped
<1>4. \A x \in Branches : SameBranch(x)
  BY <1>2 DEF SameBranch
<1>5. UNCHANGED <<root, join, merged, receipt, world>>
  BY FanEvent DEF BranchEvents, EffectEvents
<1>6. fan.gave \subseteq fan'.gave
  BY <1>2
<1> QED
  BY <1>2, <1>3, <1>4, <1>5, <1>6, FlatCommit

LEMMA AppendDispatched ==
    ASSUME JournalOK, NEW e \in Events, Appends(e), e.t = "dispatched"
    PROVE  JournalOK' /\ Stable
<1> PICK b : b = e.b
  OBVIOUS
<1>1. fan \in Fans /\ fan' = ReduceFan(e) /\ b \in Branches /\ BranchOK(b)
  BY Ranges DEF Appends, Events
<1>2. /\ fan' \in Fans /\ fan'.ctl = [fan.ctl EXCEPT ![b] = "dispatched"]
      /\ fan'.exec = [fan.exec EXCEPT ![b] = "dispatched"] /\ fan'.node = fan.node
      /\ fan'.step = fan.step /\ fan'.effect = fan.effect /\ fan'.order = fan.order
      /\ fan'.last = fan.last /\ fan'.cancel = fan.cancel
  BY <1>1, FieldsDispatched
<1>3. FanTyped'
  BY <1>2 DEF FanTyped, JournalOK, JournalTyped
<1>4. \A x \in Branches : x # b => SameBranch(x)
  BY <1>1, <1>2 DEF SameBranch, Fans
<1>5. UNCHANGED <<root, join, merged, receipt, world>>
  BY FanEvent DEF BranchEvents
<1>6. fan.ctl[b] = "queued"
  BY DEF Appends, Accepts, AcceptsDispatched
<1>7. fan'.ctl[b] = "dispatched" /\ fan'.exec[b] = "dispatched"
  BY <1>1, <1>2 DEF Fans
<1>8. BranchOK(b)'
  BY <1>1, <1>2, <1>5, <1>6, <1>7
     DEF BranchOK, ControlAgrees, OnItsWay, NotYet, Untried, Passed, Evidence, Running
<1> QED
  BY <1>1, <1>2, <1>3, <1>4, <1>5, <1>6, <1>8, BranchCommit

LEMMA AppendStarted ==
    ASSUME JournalOK, NEW e \in Events, Appends(e), e.t = "started"
    PROVE  JournalOK' /\ Stable
<1> PICK b : b = e.b
  OBVIOUS
<1>1. fan \in Fans /\ fan' = ReduceFan(e) /\ b \in Branches /\ BranchOK(b)
  BY Ranges DEF Appends, Events
<1>2. /\ fan' \in Fans /\ fan'.ctl = [fan.ctl EXCEPT ![b] = "ready"]
      /\ fan'.exec = [fan.exec EXCEPT ![b] = "running"] /\ fan'.node = fan.node
      /\ fan'.step = [fan.step EXCEPT ![b] = e.step] /\ fan'.effect = fan.effect /\ fan'.order = fan.order
      /\ fan'.last = e.step /\ fan'.cancel = fan.cancel
  BY <1>1, FieldsStarted
<1>3. fan.ctl[b] = "dispatched" /\ e.step = fan.last + 1 /\ e.step <= MaxSteps
  BY DEF Appends, Accepts, AcceptsStarted, EventKnown
<1>4. FanTyped'
  <2>1. fan'.last \in 1..MaxSteps
    BY <1>2, <1>3, Ranges
  <2>2. \A x \in Branches : fan'.step[x] <= fan'.last
    BY <1>1, <1>2, <1>3, Ranges DEF Fans
  <2> QED
    BY <1>2, <2>1, <2>2, Ranges DEF FanTyped
<1>5. \A x \in Branches : x # b => SameBranch(x)
  BY <1>1, <1>2 DEF SameBranch, Fans
<1>6. UNCHANGED <<root, join, merged, receipt, world>>
  BY FanEvent DEF BranchEvents
<1>7. fan'.ctl[b] = "ready" /\ fan'.exec[b] = "running"
  BY <1>1, <1>2 DEF Fans
<1>8. BranchOK(b)'
  BY <1>1, <1>2, <1>3, <1>6, <1>7
     DEF BranchOK, ControlAgrees, OnItsWay, NotYet, Untried, Passed, Evidence, Running
<1> QED
  BY <1>1, <1>2, <1>3, <1>4, <1>5, <1>6, <1>8, BranchCommit

LEMMA AppendEntered ==
    ASSUME JournalOK, NEW e \in Events, Appends(e), e.t = "entered"
    PROVE  JournalOK' /\ Stable
<1> PICK b : b = e.b
  OBVIOUS
<1>1. fan \in Fans /\ fan' = ReduceFan(e) /\ b \in Branches /\ BranchOK(b)
  BY Ranges DEF Appends, Events
<1>2. /\ fan' \in Fans /\ fan'.ctl = [fan.ctl EXCEPT ![b] = "active"]
      /\ fan'.exec = fan.exec /\ fan'.node = fan.node
      /\ fan'.step = fan.step /\ fan'.effect = [fan.effect EXCEPT ![b] = "none"]
      /\ fan'.order = fan.order /\ fan'.last = fan.last /\ fan'.cancel = fan.cancel
  BY <1>1, FieldsEntered
<1>3. fan.ctl[b] \in {"ready", "awaiting_destination"} /\ fan.node[b] \in DOMAIN Region[b]
  BY DEF Appends, Accepts, AcceptsEntered
<1>4. FanTyped'
  BY <1>2 DEF FanTyped, JournalOK, JournalTyped
<1>5. \A x \in Branches : x # b => SameBranch(x)
  BY <1>1, <1>2 DEF SameBranch, Fans
<1>6. UNCHANGED <<root, join, merged, receipt, world>>
  BY FanEvent DEF BranchEvents
<1>7. fan'.ctl[b] = "active" /\ fan'.effect[b] = "none"
  BY <1>1, <1>2 DEF Fans
<1>8. BranchOK(b)'
  BY <1>1, <1>2, <1>3, <1>6, <1>7
     DEF BranchOK, ControlAgrees, OnItsWay, NotYet, Untried, Passed, Evidence, Running
<1> QED
  BY <1>1, <1>2, <1>3, <1>4, <1>5, <1>6, <1>8, BranchCommit

LEMMA AppendEffectDispatched ==
    ASSUME JournalOK, NEW e \in Events, Appends(e), e.t = "effect_dispatched"
    PROVE  JournalOK' /\ Stable
<1> PICK b : b = e.b
  OBVIOUS
<1>1. fan \in Fans /\ fan' = ReduceFan(e) /\ b \in Branches /\ BranchOK(b)
  BY Ranges DEF Appends, Events
<1>2. /\ fan' \in Fans /\ fan'.ctl = fan.ctl /\ fan'.exec = fan.exec /\ fan'.node = fan.node
      /\ fan'.step = fan.step /\ fan'.effect = [fan.effect EXCEPT ![b] = "dispatched"]
      /\ fan'.order = fan.order /\ fan'.last = fan.last /\ fan'.cancel = fan.cancel
  BY <1>1, FieldsEffectDispatched
<1>3. fan.ctl[b] = "active"
  BY DEF Appends, Accepts, AcceptsEffectDispatched, ActiveAt
<1>4. FanTyped'
  BY <1>2 DEF FanTyped, JournalOK, JournalTyped
<1>5. \A x \in Branches : x # b => SameBranch(x)
  BY <1>1, <1>2 DEF SameBranch, Fans
<1>6. UNCHANGED <<root, join, merged, receipt, world>>
  BY FanEvent DEF BranchEvents, EffectEvents
<1>7. fan'.effect[b] = "dispatched"
  BY <1>1, <1>2 DEF Fans
<1>8. BranchOK(b)'
  BY <1>1, <1>2, <1>3, <1>6, <1>7
     DEF BranchOK, ControlAgrees, OnItsWay, NotYet, Untried, Passed, Evidence, Running
<1> QED
  BY <1>1, <1>2, <1>3, <1>4, <1>5, <1>6, <1>8, BranchCommit

LEMMA AppendOutcome ==
    ASSUME JournalOK, NEW e \in Events, Appends(e), e.t = "outcome"
    PROVE  JournalOK' /\ Stable
<1> PICK b : b = e.b
  OBVIOUS
<1>1. fan \in Fans /\ fan' = ReduceFan(e) /\ b \in Branches /\ BranchOK(b)
  BY Ranges DEF Appends, Events
<1>0. e.out \in {"waiting", "completed", "failed", "ambiguous"} /\ (e.out = "completed" => Evidence(b, fan.node[b]))
  BY DEF Appends, EventKnown
<1>2. /\ fan' \in Fans /\ fan'.ctl = fan.ctl /\ fan'.exec = fan.exec /\ fan'.node = fan.node
      /\ fan'.step = fan.step /\ fan'.effect = [fan.effect EXCEPT ![b] = e.out]
      /\ fan'.order = fan.order /\ fan'.last = fan.last /\ fan'.cancel = fan.cancel
  BY <1>0, <1>1, FieldsOutcome DEF Outcomes
<1>3. fan.ctl[b] = "active"
  BY DEF Appends, Accepts, AcceptsOutcome, ActiveAt
<1>4. FanTyped'
  BY <1>2 DEF FanTyped, JournalOK, JournalTyped
<1>5. \A x \in Branches : x # b => SameBranch(x)
  BY <1>1, <1>2 DEF SameBranch, Fans
<1>6. UNCHANGED <<root, join, merged, receipt, world>>
  BY FanEvent DEF BranchEvents, EffectEvents
<1>7. fan'.effect[b] = e.out
  BY <1>1, <1>2 DEF Fans
<1>8. BranchOK(b)'
  BY <1>0, <1>1, <1>2, <1>3, <1>6, <1>7
     DEF BranchOK, ControlAgrees, OnItsWay, NotYet, Untried, Passed, Evidence, Running
<1> QED
  BY <1>1, <1>2, <1>3, <1>4, <1>5, <1>6, <1>8, BranchCommit

LEMMA AppendNodeEnded ==
    ASSUME JournalOK, NEW e \in Events, Appends(e), e.t \in {"node_completed", "node_failed"}
    PROVE  JournalOK' /\ Stable
<1> PICK b : b = e.b
  OBVIOUS
<1> PICK k : k = IF e.t = "node_completed" THEN "awaiting_transition" ELSE "awaiting_failure"
  OBVIOUS
<1>1. fan \in Fans /\ fan' = ReduceFan(e) /\ b \in Branches /\ BranchOK(b)
  BY Ranges DEF Appends, Events
<1>2. /\ fan' \in Fans /\ fan'.ctl = [fan.ctl EXCEPT ![b] = k]
      /\ fan'.exec = fan.exec /\ fan'.node = fan.node
      /\ fan'.step = fan.step /\ fan'.effect = fan.effect
      /\ fan'.order = fan.order /\ fan'.last = fan.last /\ fan'.cancel = fan.cancel
  <2>1. CASE e.t = "node_completed"
    BY <1>1, <2>1, FieldsNodeCompleted
  <2>2. CASE e.t = "node_failed"
    BY <1>1, <2>2, FieldsNodeFailed
  <2> QED
    BY <2>1, <2>2
<1>3. fan.ctl[b] = "active"
  BY DEF Appends, Accepts, AcceptsNodeCompleted, AcceptsNodeFailed, ActiveAt
<1>4. FanTyped'
  BY <1>2 DEF FanTyped, JournalOK, JournalTyped
<1>5. \A x \in Branches : x # b => SameBranch(x)
  BY <1>1, <1>2 DEF SameBranch, Fans
<1>6. UNCHANGED <<root, join, merged, receipt, world>>
  BY FanEvent DEF BranchEvents, EffectEvents
<1>7. fan'.ctl[b] = k /\ k \in {"awaiting_transition", "awaiting_failure"}
  BY <1>1, <1>2 DEF Fans
<1>8. k = "awaiting_transition" => Evidence(b, fan.node[b])
  <2> SUFFICES ASSUME k = "awaiting_transition"
               PROVE  Evidence(b, fan.node[b])
    OBVIOUS
  <2>1. e.t = "node_completed" /\ (IsEffect(KindOf(b)) => fan.effect[b] = "completed")
    BY DEF Appends, Accepts, AcceptsNodeCompleted
  <2>2. CASE IsEffect(KindOf(b))
    BY <1>1, <1>3, <2>1, <2>2 DEF BranchOK, Passed
  <2>3. CASE ~IsEffect(KindOf(b))
    BY <2>3 DEF IsEffect, KindOf, Evidence
  <2> QED
    BY <2>2, <2>3
<1>9. BranchOK(b)'
  BY <1>1, <1>2, <1>3, <1>6, <1>7, <1>8
     DEF BranchOK, ControlAgrees, OnItsWay, NotYet, Untried, Passed, Evidence, Running
<1> QED
  BY <1>1, <1>2, <1>3, <1>4, <1>5, <1>6, <1>9, BranchCommit

LEMMA AppendTransition ==
    ASSUME JournalOK, NEW e \in Events, Appends(e), e.t = "transition"
    PROVE  JournalOK' /\ Stable
<1> PICK b : b = e.b
  OBVIOUS
<1>1. fan \in Fans /\ fan' = ReduceFan(e) /\ b \in Branches /\ BranchOK(b)
  BY Ranges DEF Appends, Events
<1>2. /\ fan' \in Fans /\ fan'.ctl = [fan.ctl EXCEPT ![b] = "awaiting_destination"]
      /\ fan'.exec = fan.exec /\ fan'.node = [fan.node EXCEPT ![b] = e.node]
      /\ fan'.step = [fan.step EXCEPT ![b] = e.step] /\ fan'.effect = fan.effect /\ fan'.order = fan.order
      /\ fan'.last = e.step /\ fan'.cancel = fan.cancel
  BY <1>1, FieldsTransition
<1>3. /\ fan.ctl[b] = "awaiting_transition" /\ e.node = fan.node[b] + 1
      /\ e.step = fan.last + 1 /\ e.step <= MaxSteps
  BY DEF Appends, Accepts, AcceptsTransition, EventKnown
<1>4. fan.node[b] \in 1..Len(Region[b]) /\ Len(Region[b]) \in Nat /\ DOMAIN Region[b] = 1..Len(Region[b])
  BY <1>1, <1>3, Numbering DEF BranchOK, OnItsWay
<1>5. fan'.ctl[b] = "awaiting_destination" /\ fan'.node[b] = fan.node[b] + 1
  BY <1>1, <1>2, <1>3 DEF Fans
<1>6. FanTyped'
  <2>1. fan'.last \in 1..MaxSteps
    BY <1>2, <1>3, Ranges
  <2>2. \A x \in Branches : fan'.step[x] <= fan'.last
    BY <1>1, <1>2, <1>3, Ranges DEF Fans
  <2>3. \A x \in Branches : x # b => fan'.node[x] = fan.node[x]
    BY <1>1, <1>2 DEF Fans
  <2>4. \A x \in Branches : fan'.node[x] \in 1..(Len(Region[x]) + 1)
    <3>1. fan'.node[b] \in 1..(Len(Region[b]) + 1)
      BY <1>4, <1>5
    <3>2. \A x \in Branches : fan.node[x] \in 1..(Len(Region[x]) + 1)
      BY Ranges
    <3> QED
      BY <2>3, <3>1, <3>2, Zenon
  <2> QED
    BY <1>2, <2>1, <2>2, <2>4, Ranges DEF FanTyped
<1>7. \A x \in Branches : x # b => SameBranch(x)
  BY <1>1, <1>2 DEF SameBranch, Fans
<1>8. UNCHANGED <<root, join, merged, receipt, world>>
  BY FanEvent DEF BranchEvents
<1>9. ControlAgrees(b)' /\ OnItsWay(b)'
  BY <1>1, <1>2, <1>3, <1>5 DEF BranchOK, ControlAgrees, OnItsWay, Running
<1>10. NotYet(b)'
  <2>1. \A n \in DOMAIN Region[b] : Untried(b, n)' => Untried(b, n)
    BY <1>4, <1>5 DEF Untried
  <2> QED
    BY <1>1, <1>8, <2>1 DEF BranchOK, NotYet
<1>11. Passed(b)'
  <2>1. \A n \in DOMAIN Region[b] : n < fan'.node[b] => n < fan.node[b] \/ n = fan.node[b]
    BY <1>4, <1>5
  <2>2. \A n \in DOMAIN Region[b] : n < fan'.node[b] => Evidence(b, n)
    BY <1>1, <1>3, <2>1 DEF BranchOK, Passed
  <2>3. \A n \in DOMAIN Region[b] : n < fan'.node[b] => Evidence(b, n)'
    BY <1>8, <2>2 DEF Evidence
  <2> QED
    BY <1>5, <2>3 DEF Passed
<1> QED
  BY <1>1, <1>2, <1>3, <1>6, <1>7, <1>8, <1>9, <1>10, <1>11, BranchCommit DEF BranchOK

\* The completion sequence has room for one more branch.
LEMMA CompletionRoom ==
    ASSUME NEW b \in Branches, b \notin Completed
    PROVE  NextCompletion \in Nat /\ NextCompletion <= Cardinality(Branches)
<1>1. IsFiniteSet(Branches) /\ Completed \subseteq Branches
  BY Numbering DEF Completed
<1>2. IsFiniteSet(Completed) /\ Cardinality(Completed) \in Nat
  BY <1>1, FS_Subset, FS_CardinalityType
<1>3. Completed \cup {b} \subseteq Branches /\ IsFiniteSet(Completed \cup {b})
  BY <1>1, <1>2, FS_Subset
<1>4. Cardinality(Completed \cup {b}) = Cardinality(Completed) + 1
  BY <1>2, FS_AddElement
<1>5. Cardinality(Completed \cup {b}) <= Cardinality(Branches)
  BY <1>1, <1>3, FS_Subset
<1> QED
  BY <1>2, <1>4, <1>5 DEF NextCompletion

LEMMA AppendTerminated ==
    ASSUME JournalOK, NEW e \in Events, Appends(e), e.t = "terminated"
    PROVE  JournalOK' /\ Stable
<1> PICK b : b = e.b
  OBVIOUS
<1> PICK k : k = IF e.out = "completed" THEN NextCompletion ELSE 0
  OBVIOUS
<1>1. fan \in Fans /\ fan' = ReduceFan(e) /\ b \in Branches /\ BranchOK(b)
  BY Ranges DEF Appends, Events
<1>3. /\ fan.exec[b] = "running" /\ e.out \in {"completed", "failed"}
      /\ e.out = "completed" => fan.ctl[b] = "awaiting_destination" /\ KindOf(b) = "join"
  BY DEF Appends, Accepts, AcceptsTerminated
<1>4. k \in Nat /\ k <= Cardinality(Branches)
  <2>1. NextCompletion \in Nat /\ NextCompletion <= Cardinality(Branches)
    BY <1>1, <1>3, CompletionRoom DEF Completed
  <2>2. Cardinality(Branches) \in Nat
    BY Numbering, FS_CardinalityType
  <2> QED
    BY <2>1, <2>2
<1>2. /\ fan' \in Fans /\ fan'.ctl = [fan.ctl EXCEPT ![b] = "terminal"]
      /\ fan'.exec = [fan.exec EXCEPT ![b] = e.out] /\ fan'.node = fan.node
      /\ fan'.step = fan.step /\ fan'.effect = fan.effect
      /\ fan'.order = [fan.order EXCEPT ![b] = k] /\ fan'.last = fan.last /\ fan'.cancel = fan.cancel
  BY <1>1, <1>3, <1>4, FieldsTerminated DEF Executions
<1>5. FanTyped'
  <2>1. \A x \in Branches : fan'.order[x] <= Cardinality(Branches)
    BY <1>1, <1>2, <1>4, Ranges DEF Fans
  <2> QED
    BY <1>2, <2>1 DEF FanTyped, JournalOK, JournalTyped
<1>6. \A x \in Branches : x # b => SameBranch(x)
  BY <1>1, <1>2 DEF SameBranch, Fans
<1>7. UNCHANGED <<root, join, merged, receipt, world>>
  BY FanEvent DEF BranchEvents
<1>8. fan'.ctl[b] = "terminal" /\ fan'.exec[b] = e.out /\ fan.ctl[b] # "terminal"
  BY <1>1, <1>2, <1>3 DEF Fans, BranchOK, ControlAgrees, Running
<1>9. e.out = "completed" => fan.node[b] = Len(Region[b]) + 1
  <2> SUFFICES ASSUME e.out = "completed"
               PROVE  fan.node[b] = Len(Region[b]) + 1
    OBVIOUS
  <2>1. DOMAIN Region[b] = 1..Len(Region[b]) /\ Len(Region[b]) \in Nat
        /\ \A n \in DOMAIN Region[b] : Region[b][n] \in Kinds
    BY <1>1, Numbering
  <2>2. fan.node[b] \notin DOMAIN Region[b]
    BY <1>3, <2>1 DEF KindOf, Kinds
  <2>3. fan.node[b] \in 1..(Len(Region[b]) + 1)
    BY <1>1, Ranges
  <2> QED
    BY <2>1, <2>2, <2>3
<1>10. BranchOK(b)'
  BY <1>1, <1>2, <1>3, <1>7, <1>8, <1>9
     DEF BranchOK, ControlAgrees, OnItsWay, NotYet, Untried, Passed, Evidence, Running
<1> QED
  BY <1>1, <1>2, <1>5, <1>6, <1>7, <1>8, <1>10, BranchCommit

LEMMA AppendCancelCompleted ==
    ASSUME JournalOK, NEW e \in Events, Appends(e), e.t = "cancel_completed"
    PROVE  JournalOK' /\ Stable /\ LiveStable /\ AllTerminal'
<1>1. fan \in Fans /\ fan' = ReduceFan(e)
  BY Ranges DEF Appends
<1>2. /\ fan' \in Fans /\ fan'.cancel = "completed"
      /\ fan'.ctl = [b \in Branches |-> IF b \in e.ids THEN "terminal" ELSE fan.ctl[b]]
      /\ fan'.exec = [b \in Branches |-> IF b \in e.ids THEN "cancelled" ELSE fan.exec[b]]
      /\ fan'.node = fan.node /\ fan'.step = fan.step /\ fan'.effect = fan.effect
      /\ fan'.order = fan.order /\ fan'.last = fan.last
  BY <1>1, FieldsCancelCompleted
<1>3. e.ids = Incomplete /\ Abandoned /\ fan.cancel = "requested"
  BY DEF Appends, Accepts, AcceptsCancellation, EventKnown
<1>4. UNCHANGED <<root, join, merged, receipt, world>>
  BY FanEvent DEF BranchEvents
<1>5. FanTyped'
  BY <1>2 DEF FanTyped, JournalOK, JournalTyped
<1>6. ASSUME NEW b \in Branches
      PROVE  BranchOK(b)' /\ fan'.ctl[b] = "terminal"
  <2>1. BranchOK(b) /\ fan.ctl[b] \in BranchControls /\ fan.exec[b] \in Executions
    BY Ranges DEF Fans
  <2>2. fan'.ctl[b] = "terminal"
    BY <1>2, <1>3, <2>1 DEF Incomplete, BranchOK, ControlAgrees, BranchControls, Executions, Running
  <2>3. \/ fan'.exec[b] = fan.exec[b] /\ fan.exec[b] \in {"completed", "failed", "cancelled"}
        \/ fan'.exec[b] = "cancelled"
    BY <1>2, <1>3, <2>1 DEF Incomplete, Executions
  <2>4. BranchOK(b)'
    BY <1>2, <1>4, <2>1, <2>2, <2>3
       DEF BranchOK, ControlAgrees, OnItsWay, NotYet, Untried, Passed, Evidence, Running
  <2> QED
    BY <2>2, <2>4
<1>7. AllTerminal'
  BY <1>6 DEF AllTerminal
<1>8. Rooted' /\ Stable
  BY <1>2, <1>3, <1>4, <1>7 DEF JournalOK, Rooted, Abandoned, Stable, MergeReady
<1>9. JournalTyped' /\ Ledger'
  BY <1>4, <1>5, LedgerSame DEF JournalOK, JournalTyped
<1>10. LiveStable
  BY <1>2, <1>4, <1>6 DEF LiveStable
<1> QED
  BY <1>6, <1>7, <1>8, <1>9, <1>10 DEF JournalOK

OuterEvents == {"none", "root_completed", "join_selected", "join_entered", "join_initialized", "join_decided",
                "merged", "join_completed", "next_selected", "next_entered", "root_failed"}

\* An event about the root, the join or the merge.
LEMMA AppendOuter ==
    ASSUME JournalOK, NEW e \in Events, Appends(e), e.t \in OuterEvents
    PROVE  JournalOK' /\ Stable /\ LiveStable
<1>0. receipt' = receipt /\ world' = world /\ fan' = fan
  BY DEF Appends, ReduceFan, OuterEvents
<1>1. Ledger' /\ LiveStable /\ \A b \in Branches : BranchOK(b)'
  BY <1>0, LedgerSame, SameBranchOK DEF LiveStable, JournalOK, SameBranch
<1>2. Completed' = Completed /\ (AllTerminal' <=> AllTerminal) /\ Completed \subseteq Branches
  BY <1>0 DEF Completed, AllTerminal
<1>3. FanTyped'
  BY <1>0 DEF JournalOK, JournalTyped, FanTyped
<1>4. /\ root' = ReduceRoot(e) /\ join' = ReduceJoin(e) /\ merged' = ReduceMerged(e)
      /\ root \in Roots /\ join \in {"none", "waiting", "ready", "failed"} /\ merged \subseteq Branches /\ Rooted
      /\ receipt' \in [Works -> Receipts] /\ world' \in [Works -> Nat]
  BY <1>0 DEF Appends, JournalOK, JournalTyped
<1>5. ASSUME root' \in Roots, join' \in {"none", "waiting", "ready", "failed"}, merged' \subseteq Branches, Rooted', Stable
      PROVE  JournalOK' /\ Stable /\ LiveStable
  BY <1>1, <1>3, <1>4, <1>5 DEF JournalOK, JournalTyped
<1>6. CASE e.t = "none"
  <2>1. root' = root /\ join' = join /\ merged' = merged
    BY <1>4, <1>6 DEF ReduceRoot, ReduceJoin, ReduceMerged
  <2>2. Rooted' /\ Stable
    BY <1>0, <1>2, <1>4, <2>1 DEF Rooted, Abandoned, Stable, MergeReady
  <2> QED
    BY <1>4, <1>5, <2>1, <2>2
<1>7. CASE e.t = "root_completed"
  <2>1. root' = "completed" /\ join' = join /\ merged' = merged
    BY <1>4, <1>7 DEF ReduceRoot, ReduceJoin, ReduceMerged
  <2>2. root = "active" /\ fan.cancel = "none" /\ AllTerminal
    BY <1>7 DEF Appends, Accepts, AcceptsRootCompleted, Uncancelled
  <2>3. Rooted' /\ Stable
    BY <1>0, <1>2, <1>4, <2>1, <2>2 DEF Rooted, Abandoned, Stable, MergeReady
  <2> QED
    BY <1>4, <1>5, <2>1, <2>3 DEF Roots
<1>8. CASE e.t \in {"join_selected", "join_entered"}
  <2>1. root' \in {"selected", "join"} /\ join' = join /\ merged' = merged /\ root \in {"completed", "selected"}
    BY <1>4, <1>8 DEF ReduceRoot, ReduceJoin, ReduceMerged, Appends, Accepts
  <2>2. Rooted' /\ Stable
    BY <1>0, <1>2, <1>4, <2>1 DEF Rooted, Abandoned, Stable, MergeReady
  <2> QED
    BY <1>4, <1>5, <2>1, <2>2 DEF Roots
<1>9. CASE e.t = "join_initialized"
  <2>1. root' = "join" /\ join' = "waiting" /\ merged' = merged /\ root = "join" /\ join = "none"
    BY <1>4, <1>9 DEF ReduceRoot, ReduceJoin, ReduceMerged, Appends, Accepts
  <2>2. Rooted' /\ Stable
    BY <1>0, <1>2, <1>4, <2>1 DEF Rooted, Abandoned, Stable, MergeReady
  <2> QED
    BY <1>4, <1>5, <2>1, <2>2 DEF Roots
<1>10. CASE e.t = "join_decided"
  <2>1. root' = root /\ join' = e.out /\ merged' = merged /\ join = "waiting"
    BY <1>4, <1>10 DEF ReduceRoot, ReduceJoin, ReduceMerged, Appends, Accepts
  <2>2. e.out \in {"ready", "failed"}
    BY <1>10 DEF Appends, EventKnown
  <2>3. Rooted' /\ Stable
    BY <1>0, <1>2, <1>4, <2>1, <2>2 DEF Rooted, Abandoned, Stable, MergeReady
  <2> QED
    BY <1>4, <1>5, <2>1, <2>2, <2>3
<1>11. CASE e.t = "merged"
  <2>1. root' = root /\ join' = join /\ merged' = Completed \cap fan.gave /\ join = "ready" /\ Completed \subseteq fan.gave
    BY <1>4, <1>11 DEF ReduceRoot, ReduceJoin, ReduceMerged, Appends, Accepts, EventKnown, MergeReady
  <2>2. merged' = Completed
    BY <2>1
  <2>3. Rooted' /\ Stable
    BY <1>0, <1>2, <1>4, <2>1, <2>2 DEF Rooted, Abandoned, Stable, MergeReady
  <2> QED
    BY <1>2, <1>4, <1>5, <2>1, <2>2, <2>3
<1>12. CASE e.t \in {"join_completed", "next_selected", "next_entered"}
  <2>1. /\ root' \in {"join_completed", "next_selected", "advanced"} /\ join' = join /\ merged' = merged
        /\ root \in {"join", "join_completed", "next_selected"}
    BY <1>4, <1>12 DEF ReduceRoot, ReduceJoin, ReduceMerged, Appends, Accepts
  <2>2. Rooted' /\ Stable
    BY <1>0, <1>2, <1>4, <2>1 DEF Rooted, Abandoned, Stable, MergeReady
  <2> QED
    BY <1>4, <1>5, <2>1, <2>2 DEF Roots
<1>13. CASE e.t = "root_failed"
  <2>1. root' = "failed" /\ join' = join /\ merged' = merged /\ root \in {"active", "join"}
    BY <1>4, <1>13 DEF ReduceRoot, ReduceJoin, ReduceMerged, Appends, Accepts
  <2>2. Rooted' /\ Stable
    BY <1>0, <1>2, <1>4, <2>1 DEF Rooted, Abandoned, Stable, MergeReady
  <2> QED
    BY <1>4, <1>5, <2>1, <2>2 DEF Roots
<1> QED
  BY <1>6, <1>7, <1>8, <1>9, <1>10, <1>11, <1>12, <1>13 DEF OuterEvents

\* Every append keeps the journal in order.
LEMMA AppendKeeps ==
    ASSUME JournalOK, NEW e \in Events, Appends(e)
    PROVE  JournalOK' /\ Stable
<1>1. e.t \in EventTypes
  BY DEF Events
<1>2. CASE e.t \in OuterEvents
  BY <1>2, AppendOuter
<1>3. CASE e.t \in BranchEvents
  BY <1>3, AppendInitialized, AppendDispatched, AppendStarted, AppendEntered, AppendEffectDispatched,
     AppendOutcome, AppendContributed, AppendNodeEnded, AppendTransition, AppendTerminated,
     AppendCancelRequested, AppendCancelCompleted DEF BranchEvents, EffectEvents
<1> QED
  BY <1>1, <1>2, <1>3 DEF EventTypes, RootEvents, EffectEvents, OuterEvents, BranchEvents

\* What the canceller appends leaves the work of the live coordinator alone.
LEMMA RootAppendKeepsLive ==
    ASSUME JournalOK, NEW e \in Events, Appends(e), e.t \in RootEvents
    PROVE  LiveStable
<1>1. fan \in Fans /\ fan' = ReduceFan(e) /\ receipt' = receipt /\ world' = world
  BY Ranges DEF Appends
<1>2. CASE e.t = "initialized"
  BY <1>1, <1>2, FieldsInitialized DEF LiveStable
<1>3. CASE e.t = "cancel_requested"
  BY <1>1, <1>3, FieldsCancelRequested DEF LiveStable
<1>4. CASE e.t = "cancel_completed"
  BY <1>4, AppendCancelCompleted
<1>5. CASE e.t \in OuterEvents
  BY <1>5, AppendOuter
<1> QED
  BY <1>2, <1>3, <1>4, <1>5 DEF RootEvents, OuterEvents

\* What the events of process_effect_requests change.
LEMMA EffectAppend ==
    ASSUME JournalOK, NEW e \in Events, Appends(e), e.t \in EffectEvents
    PROVE  /\ fan'.node = fan.node /\ receipt' = receipt /\ world' = world
           /\ \A x \in Branches : x # e.b => fan'.ctl[x] = fan.ctl[x]
           /\ e.t \in {"contributed", "effect_dispatched"} => fan'.ctl = fan.ctl
           /\ e.t = "effect_dispatched" => fan'.effect[e.b] = "dispatched"
<1>1. fan \in Fans /\ fan' = ReduceFan(e) /\ receipt' = receipt /\ world' = world /\ e.b \in Branches
  BY Ranges DEF Appends, Events
<1>2. CASE e.t = "effect_dispatched"
  <2>1. fan'.node = fan.node /\ fan'.ctl = fan.ctl /\ fan'.effect = [fan.effect EXCEPT ![e.b] = "dispatched"]
    BY <1>1, <1>2, FieldsEffectDispatched
  <2> QED
    BY <1>1, <1>2, <2>1 DEF Fans
<1>3. CASE e.t = "outcome"
  <2>1. e.out \in Outcomes
    BY <1>3 DEF Appends, EventKnown, Outcomes
  <2>2. fan'.node = fan.node /\ fan'.ctl = fan.ctl
    BY <1>1, <1>3, <2>1, FieldsOutcome
  <2> QED
    BY <1>1, <1>3, <2>2
<1>4. CASE e.t = "contributed"
  <2>1. fan'.node = fan.node /\ fan'.ctl = fan.ctl
    BY <1>1, <1>4, FieldsContributed
  <2> QED
    BY <1>1, <1>4, <2>1
<1>5. CASE e.t = "node_completed"
  <2>1. fan'.node = fan.node /\ fan'.ctl = [fan.ctl EXCEPT ![e.b] = "awaiting_transition"]
    BY <1>1, <1>5, FieldsNodeCompleted
  <2> QED
    BY <1>1, <1>5, <2>1 DEF Fans
<1>6. CASE e.t = "node_failed"
  <2>1. fan'.node = fan.node /\ fan'.ctl = [fan.ctl EXCEPT ![e.b] = "awaiting_failure"]
    BY <1>1, <1>6, FieldsNodeFailed
  <2> QED
    BY <1>1, <1>6, <2>1 DEF Fans
<1> QED
  BY <1>2, <1>3, <1>4, <1>5, <1>6 DEF EffectEvents

LEMMA NextRequest ==
    ASSUME NEW d \in Drivers, NEW T, T \subseteq Branches, NEW y,
           y = [d EXCEPT !.pc = "effects", !.todo = T, !.moved = TRUE]
    PROVE  y \in Drivers /\ y.pc = "effects" /\ y.todo = T
BY DEF Drivers

LEMMA GoesTo ==
    ASSUME NEW d \in Drivers, NEW p \in {"plan", "effects", "dispatch", "joining"}, NEW y, y = [d EXCEPT !.pc = p]
    PROVE  y \in Drivers /\ y.pc = p /\ y.todo = d.todo /\ y.code = d.code
BY DEF Drivers, Working

\* Where the coordinator goes on after its append.
LEMMA OnwardFields ==
    ASSUME IInv, NEW c \in Coordinators, NEW y, y = Onward(c)
    PROVE  /\ y \in Drivers
           /\ \/ /\ drv[c].back = "next" /\ y.pc = "effects" /\ y.todo = drv[c].todo \ {First(drv[c].todo)}
              \/ /\ drv[c].back = "decide" /\ y = DecideJoin(c)
                 /\ \/ y.pc = "idle"
                    \/ /\ y.pc = "load" /\ y.back = "joining" /\ y.code = drv[c].code
                       /\ y.ev.t = "join_decided" /\ y.ev.out \in {"ready", "failed"}
              \/ /\ drv[c].back \in {"plan", "effects", "dispatch", "joining"} /\ y.pc = drv[c].back
                 /\ y.todo = drv[c].todo /\ y.code = drv[c].code
              \/ y.pc = "idle"
<1> PICK o : o = drv[c]
  OBVIOUS
<1> DEFINE d == [o EXCEPT !.ev = NoEvent, !.fresh = FALSE, !.back = "plan"]
<1>0. o \in Drivers
  BY DEF IInv, DriversTyped
<1>1. NoEvent \in Events
  BY Numbering DEF NoEvent, Events, EventTypes, Outcomes
<1>2. d \in Drivers /\ d.todo = o.todo /\ d.code = o.code
  BY <1>0, <1>1 DEF Drivers
<1> HIDE DEF d
<1>3. CASE o.back = "next"
  <2> PICK T : T = d.todo \ {First(d.todo)}
    OBVIOUS
  <2>1. y = [d EXCEPT !.pc = "effects", !.todo = d.todo \ {First(d.todo)}, !.moved = TRUE]
    BY <1>3 DEF Onward, d
  <2>2. y = [d EXCEPT !.pc = "effects", !.todo = T, !.moved = TRUE] /\ T \subseteq Branches
    BY <1>2, <2>1 DEF Drivers
  <2>3. y \in Drivers /\ y.pc = "effects" /\ y.todo = T
    <3>1. d \in Drivers /\ T \subseteq Branches
      BY <1>2, <2>2
    <3>2. y = [d EXCEPT !.pc = "effects", !.todo = T, !.moved = TRUE]
      BY <2>2
    <3> QED
      BY <3>1, <3>2 DEF Drivers
  <2> QED
    BY <1>2, <1>3, <2>3
<1>4. CASE o.back = "decide"
  <2>1. y = DecideJoin(c)
    BY <1>4 DEF Onward
  <2>2. CASE JoinDecision(Decisions) = "waiting"
    <3>1. y = Returned(c, "error")
      BY <2>1, <2>2 DEF DecideJoin
    <3>2. y \in Drivers /\ y.pc = "idle"
      BY <3>1, OffKnows
    <3> QED
      BY <3>2
  <2>3. CASE JoinDecision(Decisions) # "waiting"
    <3> PICK e : e = [Event("join_decided") EXCEPT !.out = JoinDecision(Decisions)]
      OBVIOUS
    <3>1. e \in Events /\ e.t = "join_decided" /\ EventKnown(e)
      BY <2>3, Decided
    <3>2. y = [o EXCEPT !.pc = "load", !.back = "joining", !.ev = e]
      BY <2>1, <2>3 DEF DecideJoin
    <3>3. y \in Drivers /\ y.pc = "load" /\ y.back = "joining" /\ y.code = o.code /\ y.ev = e
      BY <1>0, <3>1, <3>2 DEF Drivers
    <3>4. e.out \in {"ready", "failed"}
      BY <3>1 DEF EventKnown
    <3> QED
      BY <1>4, <2>1, <3>1, <3>3, <3>4
  <2> QED
    BY <2>2, <2>3
<1>5. CASE o.back \in {"plan", "effects", "dispatch", "joining"}
  <2>1. y = [d EXCEPT !.pc = o.back]
    BY <1>5 DEF Onward, d
  <2>2. y \in Drivers /\ y.pc = o.back /\ y.todo = d.todo /\ y.code = d.code
    BY <1>2, <1>5, <2>1, GoesTo
  <2> QED
    BY <1>2, <1>5, <2>2
<1>6. CASE o.back \in {"join_failed", "cancelled"}
  <2>1. y = Returned(c, o.back)
    BY <1>6 DEF Onward
  <2>2. y \in Drivers /\ y.pc = "idle"
    BY <1>6, <2>1, OffKnows
  <2> QED
    BY <2>2
<1> QED
  BY <1>0, <1>3, <1>4, <1>5, <1>6 DEF Drivers

LEMMA CommitKeeps ==
    ASSUME IInv, NEW c \in Coordinators, Commit(c)
    PROVE  IInv'
<1> PICK o : o = drv[c]
  OBVIOUS
<1> PICK e : e = o.ev
  OBVIOUS
<1> PICK y : y = Onward(c)
  OBVIOUS
<1>0. o \in Drivers /\ e \in Events /\ JournalOK /\ o.todo \subseteq Branches
  BY DEF IInv, DriversTyped, Drivers
<1>1. o.pc = "append" /\ SetCommitted(c, y) /\ UNCHANGED <<crashes, cancels>> /\ Committing(o)
  BY DEF Commit, At, Committing
<1>2. Knows(c, o) /\ EventKnown(e)
  BY <1>1 DEF IInv, Knows
<1>3. Appends(e)
  BY <1>2 DEF Commit, CanAppend, Appends
<1>4. JournalOK' /\ Stable
  BY <1>0, <1>3, AppendKeeps
<1>5. /\ y \in Drivers
      /\ \/ /\ o.back = "next" /\ y.pc = "effects" /\ y.todo = o.todo \ {First(o.todo)}
         \/ /\ o.back = "decide"
            /\ \/ y.pc = "idle"
               \/ /\ y.pc = "load" /\ y.back = "joining" /\ y.code = o.code
                  /\ y.ev.t = "join_decided" /\ y.ev.out \in {"ready", "failed"}
         \/ /\ o.back \in {"plan", "effects", "dispatch", "joining"} /\ y.pc = o.back
            /\ y.todo = o.todo /\ y.code = o.code
         \/ y.pc = "idle"
  BY OnwardFields
<1>6. Committing(y) => y.ev.t = "join_decided" /\ y.ev.out \in {"ready", "failed"} /\ y.back = "joining"
  BY <1>5 DEF Committing
<1>7. Committing(y) => EventKnown(y.ev)'
  BY <1>6 DEF EventKnown
<1>8. CASE c = "canceller"
  <2>1. e.t \in RootEvents /\ o.back \in {"plan", "joining", "decide"} /\ o.code
    BY <1>1, <1>2, <1>8 DEF Knows, CancellerKnows
  <2>2. LiveStable
    BY <1>0, <1>3, <2>1, RootAppendKeepsLive
  <2>3. CancellerKnows(y)
    BY <1>5, <1>6, <2>1 DEF CancellerKnows, Committing, RootEvents
  <2>4. Knows("canceller", y)'
    BY <1>7, <2>3 DEF Knows, CancellerKnows, Committing
  <2> QED
    BY <1>1, <1>4, <1>5, <1>8, <2>2, <2>4, CancellerMoves
<1>9. CASE c = "live"
  <2>0. LiveKnows(o)
    BY <1>2, <1>9 DEF Knows
  <2>1. CASE InEffect(o)
    <3>1. /\ o.todo # {} /\ RecordKnown(o) /\ e.b = First(o.todo) /\ e.t \in EffectEvents
          /\ o.back = "dispatch" => e.t = "effect_dispatched" /\ receipt[WorkOf(First(o.todo))] = "none"
          /\ o.back = "effects" => e.t = "contributed"
          /\ \A b \in o.todo : IsEffect(KindOf(b)) /\ fan.ctl[b] \in {"active", "terminal"}
      BY <2>0, <2>1 DEF LiveKnows, Busy, RecordKnown
    <3>2. /\ fan'.node = fan.node /\ receipt' = receipt /\ world' = world
          /\ \A x \in Branches : x # e.b => fan'.ctl[x] = fan.ctl[x]
          /\ e.t \in {"contributed", "effect_dispatched"} => fan'.ctl = fan.ctl
          /\ e.t = "effect_dispatched" => fan'.effect[e.b] = "dispatched"
      BY <1>0, <1>3, <3>1, EffectAppend
    <3>3. \A x : KindOf(x)' = KindOf(x) /\ WorkOf(x)' = WorkOf(x)
      BY <3>2 DEF KindOf, WorkOf
    <3>4. \/ y.pc = "effects" /\ y.todo = o.todo \ {e.b}
          \/ y.pc = "effects" /\ y.todo = o.todo /\ o.back = "effects"
          \/ y.pc = "dispatch" /\ y.todo = o.todo /\ o.back = "dispatch"
          \/ y.pc = "idle"
      BY <1>5, <2>1, <3>1 DEF InEffect
    <3>5. y.pc # "idle" =>
              \A b \in y.todo : (IsEffect(KindOf(b)))' /\ fan'.ctl[b] \in {"active", "terminal"}
      BY <1>0, <3>1, <3>2, <3>3, <3>4 DEF IsEffect
    <3>6. y.pc = "dispatch" => y.todo # {} /\ fan'.effect[First(y.todo)] = "dispatched"
                               /\ receipt'[WorkOf(First(y.todo))'] = "none"
      BY <3>1, <3>2, <3>3, <3>4
    <3>7. LiveKnows(y)'
      BY <3>4, <3>5, <3>6 DEF LiveKnows, RecordKnown, Busy, InEffect, Committing, Working, IsEffect
    <3> QED
      BY <1>1, <1>4, <1>5, <1>7, <1>9, <3>7, LiveMoves DEF Knows, Committing
  <2>2. CASE ~InEffect(o)
    <3>1. o.back \notin {"next", "effects", "dispatch"}
      BY <1>1, <2>2 DEF InEffect
    <3>2. y.pc \in {"idle", "plan", "joining"} \/ (y.pc = "load" /\ y.back = "joining")
      BY <1>5, <3>1
    <3>3. LiveKnows(y)'
      BY <3>2 DEF LiveKnows, RecordKnown, Busy, InEffect, Committing, Working
    <3> QED
      BY <1>1, <1>4, <1>5, <1>7, <1>9, <3>3, LiveMoves DEF Knows, Committing
  <2> QED
    BY <2>1, <2>2
<1> QED
  BY <1>8, <1>9 DEF Coordinators

-----------------------------------------------------------------------------
(***************************************************************************)
(* The invariant and what follows from it                                  *)
(***************************************************************************)
LEMMA StepKeeps ==
    ASSUME IInv, NEW c \in Coordinators, Step(c)
    PROVE  IInv'
<1>1. CASE Plan(c)
  BY <1>1, PlanOuterKeeps, PlanJoinKeeps, PlanReturnKeeps, PlanInitializeKeeps, PlanCancelKeeps,
     PlanRepairKeeps, PlanDispatchKeeps, PlanPureKeeps, PlanEffectsKeeps, PlanCompleteKeeps DEF Plan
<1>2. CASE Load(c) \/ Commit(c) \/ CommitRefused(c)
  BY <1>2, LoadKeeps, CommitKeeps, CommitRefusedKeeps
<1>3. CASE Process(c)
  BY <1>3, EffectIntendKeeps, EffectSettleKeeps, EffectRecoverKeeps, EffectGoneKeeps, EffectsDoneKeeps,
     DispatchKeeps, BeginKeeps, ActKeeps, FinishKeeps DEF Process
<1> QED
  BY <1>1, <1>2, <1>3 DEF Step

LEMMA StutterKeeps ==
    ASSUME IInv, UNCHANGED vars
    PROVE  IInv'
<1>0. UNCHANGED <<journal, world>> /\ drv' = drv /\ crashes' = crashes /\ cancels' = cancels
  BY DEF vars
<1>1. JournalOK'
  BY <1>0, JournalSame DEF IInv
<1>2. DriversTyped'
  BY <1>0 DEF IInv, DriversTyped
<1>3. ASSUME NEW x \in Coordinators
      PROVE  Knows(x, drv[x])'
  <2> PICK y : y = drv'[x]
    OBVIOUS
  <2>1. Knows(x, y)
    BY <1>0 DEF IInv
  <2>2. Knows(x, y)'
    BY <1>0, <2>1, KnowsSame
  <2> QED
    BY <2>2 DEF Knows
<1> QED
  BY <1>1, <1>2, <1>3 DEF IInv

\* The invariant is inductive, whatever crashes, cancels and resumes there are.
THEOREM Inductive == Spec => []IInv
<1>1. Init => IInv
  BY InitHolds
<1>2. IInv /\ [Next]_vars => IInv'
  <2> SUFFICES ASSUME IInv, [Next]_vars
               PROVE  IInv'
    OBVIOUS
  <2>1. CASE UNCHANGED vars
    BY <2>1, StutterKeeps
  <2>2. CASE Next
    BY <2>2, StepKeeps, ResumeKeeps, StartCancelKeeps, ResolveApprovalKeeps, CrashKeeps DEF Next
  <2> QED
    BY <2>1, <2>2
<1> QED
  BY <1>1, <1>2, PTL DEF Spec

\* last_allocated_step stays within max_steps, the completion sequence within
\* the number of branches, and every record has its type.
THEOREM TypeCorrect == Spec => []TypeOK
<1>1. IInv => TypeOK
  <2> SUFFICES ASSUME IInv
               PROVE  TypeOK
    OBVIOUS
  <2>1. /\ fan \in Fans /\ fan.last \in 1..MaxSteps /\ root \in Roots
        /\ join \in {"none", "waiting", "ready", "failed"} /\ merged \subseteq Branches
        /\ receipt \in [Works -> Receipts] /\ world \in [Works -> Nat]
        /\ \A b \in Branches : /\ fan.node[b] \in 1..(Len(Region[b]) + 1)
                               /\ fan.step[b] <= fan.last /\ fan.order[b] <= Cardinality(Branches)
    BY DEF IInv, JournalOK, JournalTyped, FanTyped
  <2>2. /\ fan.ctl \in [Branches -> BranchControls] /\ fan.exec \in [Branches -> Executions]
        /\ fan.effect \in [Branches -> Outcomes] /\ fan.gave \subseteq Branches /\ fan.asked \subseteq Branches
        /\ fan.cancel \in {"none", "requested", "completed"}
        /\ fan.step \in [Branches -> Nat] /\ fan.order \in [Branches -> Nat] /\ fan.last \in Nat
    BY <2>1 DEF Fans
  <2>3. Cardinality(Branches) \in Nat
    BY Numbering, FS_CardinalityType
  <2>4. fan.step \in [Branches -> 0..fan.last] /\ fan.order \in [Branches -> 0..Cardinality(Branches)]
    BY <2>1, <2>2, <2>3
  <2>5. \A c \in Coordinators : drv[c].todo \subseteq Branches
    BY DEF IInv, DriversTyped, Drivers
  <2>6. crashes \in 0..MaxCrashes /\ cancels \in 0..MaxCancels
    BY DEF IInv, DriversTyped
  <2> QED
    BY <2>1, <2>2, <2>4, <2>5, <2>6 DEF TypeOK, Roots, Executions, Receipts
<1> QED
  BY <1>1, Inductive, PTL

\* The effect of a node takes place at most once: a coordinator begins an effect
\* only for a node without a record, and every later one finds the record.
THEOREM EffectsHappenOnce == Spec => []EffectOnce
<1>1. IInv => EffectOnce
  <2> SUFFICES ASSUME IInv, NEW w \in Works
               PROVE  world[w] <= 1
    BY DEF EffectOnce
  <2>1. PICK b \in Branches : w \in {b} \X DOMAIN Region[b]
    BY DEF Works
  <2>2. PICK n \in DOMAIN Region[b] : w = <<b, n>>
    BY <2>1
  <2>3. LedgerAt(b, n)
    BY DEF IInv, JournalOK, Ledger
  <2> QED
    BY <2>2, <2>3 DEF LedgerAt
<1> QED
  BY <1>1, Inductive, PTL

\* A branch that ended as completed has the evidence of every effect on its way.
THEOREM CompletionsHappened == Spec => []CompletedHappened
<1>1. IInv => CompletedHappened
  <2> SUFFICES ASSUME IInv, NEW b \in Completed, NEW n \in DOMAIN Region[b]
               PROVE  /\ Region[b][n] \in {"tool", "schedule"} => receipt[<<b, n>>] = "done" /\ world[<<b, n>>] = 1
                      /\ Region[b][n] = "approval" => receipt[<<b, n>>] = "approved"
    BY DEF CompletedHappened
  <2>1. b \in Branches /\ fan.exec[b] = "completed" /\ BranchOK(b) /\ LedgerAt(b, n)
    BY DEF Completed, IInv, JournalOK, Ledger
  <2>2. fan.node[b] = Len(Region[b]) + 1
    BY <2>1 DEF BranchOK, OnItsWay
  <2>3. n < fan.node[b]
    BY <2>1, <2>2, Numbering
  <2>4. Evidence(b, n)
    BY <2>1, <2>3 DEF BranchOK, Passed
  <2> QED
    BY <2>1, <2>4 DEF Evidence, LedgerAt
<1> QED
  BY <1>1, Inductive, PTL

\* Only Begin, Finish and ResolveApproval write the records of the effects.
LEMMA RecordsWritten ==
    ASSUME [Next]_vars
    PROVE  \/ receipt' = receipt
           \/ \E c \in Coordinators : Begin(c) \/ Finish(c)
           \/ \E w \in Works : ResolveApproval(w)
<1>1. ASSUME NEW c \in Coordinators, Step(c)
      PROVE  receipt' = receipt \/ Begin(c) \/ Finish(c)
  <2>1. CASE Plan(c)
    BY <2>1 DEF Plan, PlanOuter, PlanJoin, PlanReturn, PlanInitialize, PlanCancel, PlanRepair,
                PlanDispatch, PlanPure, PlanEffects, PlanComplete, OnlyDriver, journal
  <2>2. CASE Load(c) \/ Commit(c) \/ CommitRefused(c)
    BY <2>2 DEF Load, Commit, CommitRefused, OnlyDriver, journal
  <2>3. CASE Process(c)
    BY <2>3 DEF Process, EffectIntend, EffectSettle, EffectRecover, EffectGone, EffectsDone, Dispatch,
                Act, OnlyDriver, journal
  <2> QED
    BY <1>1, <2>1, <2>2, <2>3 DEF Step
<1>2. CASE Resume \/ StartCancel \/ Crash \/ UNCHANGED vars
  BY <1>2 DEF Resume, StartCancel, Crash, OnlyDriver, journal, vars
<1> QED
  BY <1>1, <1>2 DEF Next

\* "Canonical cancellation won and no further branch effect was dispatched", for
\* graph regions without schedule nodes.  A schedule node resumes from its
\* resolved record without looking at the branch, and there the code does not
\* keep the promise.
THEOREM CancellationIsFinal ==
    ASSUME \A b \in Branches : \A n \in DOMAIN Region[b] : Region[b][n] # "schedule"
    PROVE  Spec => CancelledDispatchesNothing
<1> DEFINE A == fan.cancel = "completed" =>
                    \A w \in Works : receipt'[w] \in {"begun", "pending"} => receipt[w] = receipt'[w]
<1>1. ASSUME IInv, [Next]_vars
      PROVE  A
  <2> SUFFICES ASSUME fan.cancel = "completed", NEW w \in Works, receipt'[w] \in {"begun", "pending"}
               PROVE  receipt[w] = receipt'[w]
    OBVIOUS
  <2>0. JournalOK /\ AllTerminal /\ receipt \in [Works -> Receipts]
    BY <1>1 DEF IInv, JournalOK, JournalTyped, Rooted
  <2>1. CASE receipt' = receipt
    BY <2>1
  <2>2. ASSUME NEW c \in Coordinators, Begin(c)
        PROVE  receipt[w] = receipt'[w]
    <3> PICK b : b = First(drv[c].todo)
      OBVIOUS
    <3> PICK n : n = fan.node[b]
      OBVIOUS
    <3>0. drv[c].pc = "begin" /\ drv[c].pc \in Working
      BY <2>2 DEF Begin, At, Working
    <3>1. /\ RecordKnown(drv[c]) /\ b \in Branches /\ n \in DOMAIN Region[b] /\ KindOf(b) = Region[b][n]
          /\ WorkOf(b) = <<b, n>>
      BY <1>1, <3>0, Works1
    <3>2. receipt[WorkOf(b)] = "none"
      BY <3>0, <3>1 DEF RecordKnown
    <3>3. fan.ctl[b] = "terminal"
      BY <2>0, <3>1 DEF AllTerminal
    <3>4. ~MayBegin(c, b)
      BY <3>2, <3>3 DEF MayBegin
    <3> QED
      BY <2>2, <3>4 DEF Begin, Requested
  <2>3. ASSUME NEW c \in Coordinators, Finish(c)
        PROVE  receipt[w] = receipt'[w]
    <3> PICK b : b = Requested(c)
      OBVIOUS
    <3>1. receipt' = receipt \/ \E r \in {"done", "failed"} : receipt' = [receipt EXCEPT ![WorkOf(b)] = r]
      BY <2>3 DEF Finish
    <3> QED
      BY <2>0, <3>1
  <2>4. ASSUME NEW v \in Works, ResolveApproval(v)
        PROVE  receipt[w] = receipt'[w]
    <3>1. \E r \in {"approved", "denied"} : receipt' = [receipt EXCEPT ![v] = r]
      BY <2>4 DEF ResolveApproval
    <3> QED
      BY <2>0, <3>1
  <2> QED
    BY <1>1, <2>1, <2>2, <2>3, <2>4, RecordsWritten
<1>2. IInv /\ [Next]_vars => [A]_vars
  BY <1>1
<1> QED
  BY <1>2, Inductive, PTL DEF Spec, CancelledDispatchesNothing

-----------------------------------------------------------------------------
(***************************************************************************)
(* The fan-out implements the fork and join                                *)
(***************************************************************************)
\* The part of the journal that the fork and join sees.
Seen == <<Decisions, Phase, merged>>

\* An append decides a branch, cancels the undecided ones, takes the join, hands
\* on the contributions, or is invisible.
LEMMA AppendRefines ==
    ASSUME JournalOK, NEW e \in Events, Appends(e)
    PROVE  FJ!Next \/ UNCHANGED Seen
<1>0. /\ fan \in Fans /\ fan' = ReduceFan(e) /\ join' = ReduceJoin(e) /\ merged' = ReduceMerged(e)
      /\ e.b \in Branches /\ e.t \in EventTypes
      /\ \A b \in Branches : BranchOK(b) /\ fan.exec[b] \in Executions
  BY Ranges DEF Appends, Events, Fans
<1>1. ASSUME fan'.cancel = fan.cancel \/ (fan.cancel = "none" /\ fan'.cancel = "requested"), join' = join, merged' = merged,
             \A b \in Branches : fan'.exec[b] = fan.exec[b] \/ (fan.exec[b] \in {"queued", "dispatched", "running"}
                                                               /\ fan'.exec[b] \in {"queued", "dispatched", "running"})
      PROVE  UNCHANGED Seen
  <2>1. Phase' = Phase
    BY <1>1 DEF Phase
  <2>2. Decisions' = Decisions
    BY <1>1 DEF Decisions, Incomplete
  <2> QED
    BY <1>1, <2>1, <2>2 DEF Seen
<1>2. CASE e.t \in OuterEvents
  <2>0. fan' = fan
    BY <1>0, <1>2 DEF ReduceFan, OuterEvents
  <2>1. Decisions' = Decisions
    BY <2>0 DEF Decisions, Incomplete
  <2>2. CASE e.t \notin {"join_initialized", "join_decided", "merged"}
    BY <1>0, <1>1, <1>2, <2>0, <2>2 DEF ReduceJoin, ReduceMerged, OuterEvents
  <2>3. CASE e.t = "join_initialized"
    <3>1. join = "none" /\ join' = "waiting" /\ merged' = merged
      BY <1>0, <2>3 DEF Appends, Accepts, ReduceJoin, ReduceMerged
    <3>2. Phase' = Phase
      BY <2>0, <3>1 DEF Phase
    <3> QED
      BY <2>1, <3>1, <3>2 DEF Seen
  <2>4. CASE e.t = "join_decided"
    <3>1. join = "waiting" /\ join' = JoinDecision(Decisions) /\ merged' = merged /\ join' \in {"ready", "failed"}
      BY <1>0, <2>4 DEF Appends, Accepts, ReduceJoin, ReduceMerged, EventKnown
    <3>2. AllTerminal /\ fan.cancel # "completed"
      BY <3>1 DEF JournalOK, Rooted, Abandoned
    <3>3. \A b \in Branches : Decisions[b] # "pending"
      BY <1>0, <3>2 DEF AllTerminal, Decisions, Incomplete, BranchOK, ControlAgrees, Running, Executions
    <3>4. Phase = "running" /\ Phase' = IF JoinDecision(Decisions) = "ready" THEN "joined" ELSE "failed"
      BY <2>0, <3>1, <3>2 DEF Phase
    <3>5. FJ!TakeJoin
      BY <2>1, <3>1, <3>3, <3>4 DEF FJ!TakeJoin, FJ!AllDecided
    <3> QED
      BY <3>5 DEF FJ!Next
  <2>5. CASE e.t = "merged"
    <3>1. join = "ready" /\ join' = join /\ merged' = Completed
      BY <1>0, <2>5 DEF Appends, Accepts, ReduceJoin, ReduceMerged, EventKnown, MergeReady
    <3>2. fan.cancel # "completed" /\ (merged # {} => merged = Completed)
      BY <3>1 DEF JournalOK, Rooted, Abandoned
    <3>3. Phase = "joined" /\ Phase' = Phase
      BY <2>0, <3>1, <3>2 DEF Phase
    <3>4. Completed = {b \in Branches : Decisions[b] = "completed"}
      BY <1>0 DEF Completed, Decisions, Incomplete
    <3>5. CASE merged # {}
      BY <2>1, <3>1, <3>2, <3>3, <3>5 DEF Seen
    <3>6. CASE merged = {}
      BY <2>1, <3>1, <3>3, <3>4, <3>6 DEF FJ!Next, FJ!HandOn
    <3> QED
      BY <3>5, <3>6
  <2> QED
    BY <2>2, <2>3, <2>4, <2>5
<1>3. CASE e.t \in BranchEvents \ {"terminated", "cancel_completed"}
  <2>1. join' = join /\ merged' = merged
    BY <1>3, FanEvent
  <2>2. \/ fan'.exec = fan.exec
        \/ e.t = "dispatched" /\ fan'.exec = [fan.exec EXCEPT ![e.b] = "dispatched"]
        \/ e.t = "started" /\ fan'.exec = [fan.exec EXCEPT ![e.b] = "running"]
    <3>1. e.t = "outcome" => e.out \in Outcomes
      BY DEF Appends, EventKnown, Outcomes
    <3> QED
      BY <1>0, <1>3, <3>1, FieldsInitialized, FieldsDispatched, FieldsStarted, FieldsEntered, FieldsEffectDispatched,
         FieldsOutcome, FieldsContributed, FieldsNodeCompleted, FieldsNodeFailed, FieldsTransition,
         FieldsCancelRequested DEF BranchEvents, EffectEvents
  <2>3. fan'.cancel = fan.cancel \/ (fan.cancel = "none" /\ fan'.cancel = "requested")
    <3>1. e.t = "outcome" => e.out \in Outcomes
      BY DEF Appends, EventKnown, Outcomes
    <3>2. e.t = "cancel_requested" => fan.cancel = "none"
      BY DEF Appends, Accepts, AcceptsCancellation
    <3> QED
      BY <1>0, <1>3, <3>1, <3>2, FieldsInitialized, FieldsDispatched, FieldsStarted, FieldsEntered,
         FieldsEffectDispatched, FieldsOutcome, FieldsContributed, FieldsNodeCompleted, FieldsNodeFailed,
         FieldsTransition, FieldsCancelRequested DEF BranchEvents, EffectEvents
  <2>4. /\ e.t = "dispatched" => fan.ctl[e.b] = "queued"
        /\ e.t = "started" => fan.ctl[e.b] = "dispatched"
    BY DEF Appends, Accepts, AcceptsDispatched, AcceptsStarted
  <2>5. e.t \in {"dispatched", "started"} => fan.exec[e.b] \in {"queued", "dispatched", "running"}
    BY <1>0, <2>4 DEF BranchOK, ControlAgrees
  <2>6. \A b \in Branches : fan'.exec[b] = fan.exec[b] \/ (fan.exec[b] \in {"queued", "dispatched", "running"}
                                                            /\ fan'.exec[b] \in {"queued", "dispatched", "running"})
    BY <1>0, <2>2, <2>5 DEF Fans
  <2> QED
    BY <1>1, <2>1, <2>3, <2>6
<1>4. CASE e.t = "terminated"
  <2> PICK k : k = IF e.out = "completed" THEN NextCompletion ELSE 0
    OBVIOUS
  <2>0. fan.exec[e.b] = "running" /\ e.out \in {"completed", "failed"}
    BY <1>4 DEF Appends, Accepts, AcceptsTerminated
  <2>1. k \in Nat
    BY <1>0, <2>0, CompletionRoom DEF Completed
  <2>2. fan'.exec = [fan.exec EXCEPT ![e.b] = e.out] /\ fan'.cancel = fan.cancel
    BY <1>0, <1>4, <2>0, <2>1, FieldsTerminated DEF Executions
  <2>3. fan.ctl[e.b] # "terminal" /\ join' = join /\ merged' = merged
    BY <1>0, <1>4, <2>0, FanEvent DEF BranchOK, ControlAgrees, Running, BranchEvents
  <2>4. join = "none" /\ fan.cancel # "completed"
    BY <1>0, <2>3, BeforeJoin
  <2>5. Phase = "running" /\ Phase' = "running"
    BY <2>2, <2>3, <2>4 DEF Phase
  <2>6. Decisions[e.b] = "pending"
    BY <1>0, <2>0 DEF Decisions, Incomplete
  <2>7. Decisions' = [Decisions EXCEPT ![e.b] = e.out]
    BY <1>0, <2>0, <2>2 DEF Decisions, Incomplete, Fans
  <2>8. FJ!Decide(e.b)
    BY <2>0, <2>3, <2>5, <2>6, <2>7 DEF FJ!Decide
  <2> QED
    BY <1>0, <2>8 DEF FJ!Next
<1>5. CASE e.t = "cancel_completed"
  <2>1. /\ fan'.exec = [b \in Branches |-> IF b \in e.ids THEN "cancelled" ELSE fan.exec[b]]
        /\ fan'.cancel = "completed"
    BY <1>0, <1>5, FieldsCancelCompleted
  <2>2. e.ids = Incomplete /\ join = "none" /\ fan.cancel = "requested" /\ merged' = merged
    BY <1>5, FanEvent DEF Appends, Accepts, AcceptsCancellation, EventKnown, Abandoned, BranchEvents
  <2>3. Phase = "running" /\ Phase' = "cancelled"
    BY <2>1, <2>2 DEF Phase
  <2>4. Decisions' = [b \in Branches |-> IF Decisions[b] = "pending" THEN "cancelled" ELSE Decisions[b]]
    BY <1>0, <2>1, <2>2 DEF Decisions, Incomplete, Executions
  <2>5. FJ!CancelAll
    BY <2>2, <2>3, <2>4 DEF FJ!CancelAll
  <2> QED
    BY <2>5 DEF FJ!Next
<1> QED
  BY <1>0, <1>2, <1>3, <1>4, <1>5 DEF EventTypes, RootEvents, EffectEvents, OuterEvents, BranchEvents

\* The journalled fan-out with its two coordinators implements the fork and join.
THEOREM RefinesForkJoin == Spec => ImplementsForkJoin
<1>1. Init => FJ!Init
  <2> SUFFICES ASSUME Init
               PROVE  FJ!Init
    OBVIOUS
  <2>1. fan = NoFan /\ join = "none" /\ merged = {}
    BY DEF Init
  <2>2. fan.cancel = "none" /\ \A b \in Branches : fan.exec[b] = "queued"
    BY <2>1 DEF NoFan
  <2>3. Decisions = [b \in Branches |-> "pending"]
    BY <2>2 DEF Decisions, Incomplete
  <2>4. Phase = "running"
    BY <2>1, <2>2 DEF Phase
  <2> QED
    BY <2>1, <2>3, <2>4 DEF FJ!Init
<1>2. ASSUME IInv, [Next]_vars
      PROVE  [FJ!Next]_(FJ!vars)
  <2>1. ASSUME UNCHANGED <<fan, join, merged>>
        PROVE  UNCHANGED Seen
    BY <2>1 DEF Seen, Decisions, Incomplete, Phase
  <2>2. ASSUME NEW c \in Coordinators, Commit(c)
        PROVE  FJ!Next \/ UNCHANGED Seen
    <3> PICK e : e = drv[c].ev
      OBVIOUS
    <3>1. e \in Events /\ JournalOK /\ EventKnown(e)
      BY <1>2, <2>2 DEF IInv, DriversTyped, Drivers, Knows, Committing, Commit, At
    <3>2. Appends(e)
      BY <2>2, <3>1 DEF Commit, CanAppend, Appends
    <3> QED
      BY <3>1, <3>2, AppendRefines
  <2>3. ASSUME NEW c \in Coordinators, Step(c), ~Commit(c)
        PROVE  UNCHANGED <<fan, join, merged>>
    <3>1. CASE Plan(c)
      BY <3>1 DEF Plan, PlanOuter, PlanJoin, PlanReturn, PlanInitialize, PlanCancel, PlanRepair,
                  PlanDispatch, PlanPure, PlanEffects, PlanComplete, OnlyDriver, journal
    <3>2. CASE Load(c) \/ CommitRefused(c)
      BY <3>2 DEF Load, CommitRefused, OnlyDriver, journal
    <3>3. CASE Process(c)
      BY <3>3 DEF Process, EffectIntend, EffectSettle, EffectRecover, EffectGone, EffectsDone, Dispatch,
                  Begin, Act, Finish, OnlyDriver, journal
    <3> QED
      BY <2>3, <3>1, <3>2, <3>3 DEF Step
  <2>4. CASE Resume \/ StartCancel \/ Crash \/ (\E w \in Works : ResolveApproval(w)) \/ UNCHANGED vars
    <3>1. UNCHANGED <<fan, join, merged>>
      BY <2>4 DEF Resume, StartCancel, Crash, ResolveApproval, OnlyDriver, journal, vars
    <3> QED
      BY <2>1, <3>1 DEF Seen, FJ!vars
  <2>5. CASE \E c \in Coordinators : Step(c)
    BY <2>1, <2>2, <2>3, <2>5 DEF Seen, FJ!vars
  <2> QED
    BY <1>2, <2>4, <2>5 DEF Next
<1> QED
  BY <1>1, <1>2, Inductive, PTL DEF Spec, ImplementsForkJoin, FJ!Spec
=============================================================================
