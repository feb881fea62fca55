-------------------------- MODULE ChildGraphProofs --------------------------
(***************************************************************************)
(* What the spawn and the wait node promise, for any tasks, any limit and  *)
(* any number of crashes and failed creations.                             *)
(*                                                                         *)
(* The argument.  One drive at a time holds the session gate, so the work  *)
(* it took from the records is still the work to do: what it means to      *)
(* approve is proposed, what it means to dispatch is approved and fits     *)
(* under the limit, what it means to record is dispatched.  Beside it only *)
(* children move, and a child that has ended stays as it is; so an end     *)
(* that was observed is still the child's end when it is recorded.         *)
(***************************************************************************)
EXTENDS ChildGraph, FiniteSetTheorems, NaturalsInduction, WellFoundedInduction, TLAPS

Records == {"none", "proposed", "approved", "dispatched", "active"} \cup Ended
Styles == [limit : Limits, minimum : 1..Cardinality(Tasks), cancellation : {"wait", "cascade", "detach"}]
Places == {"idle", "propose", "authorize", "dispatch", "create", "observe", "outbox",
           "cancel", "reconcile", "return"}
Results == {"none", "approval", "denied", "error", "waiting", "ambiguous", "applied", "failed"}
Waits == [disp : {"none", "waiting", "completed", "failed"},
          code : {"none", "parent_cancelled", "child_wait_timeout", "minimum_success_impossible"},
          kids : SUBSET Tasks]
Seen == UNION {[D -> Ended] : D \in SUBSET Tasks}
Drives == [pc : Places, todo : SUBSET Tasks, ok : SUBSET Tasks, fresh : SUBSET Tasks,
           saw : Seen, proj : Waits, ret : Results]

Types ==
    /\ style \in Styles
    /\ node \in {"spawn", "wait", "done", "failed"}
    /\ rec \in [Tasks -> Records]
    /\ gate \in [Tasks -> Gates]
    /\ wait \in Waits
    /\ timer \in Gates \cup {"expired"}
    /\ late \in BOOLEAN
    /\ canc \in {"none", "requested", "authorized", "dispatched", "completed", "ambiguous"}
    /\ cgate \in Gates
    /\ child \in [Tasks -> {"none", "active"} \cup Ended]
    /\ born \in [Tasks -> {0, 1}]
    /\ drv \in Drives
    /\ faults \in 0..MaxFaults

\* A creation that nobody refused and nobody is being asked about.
Consent == {"none", "resumed"}

InFlight == {t \in Tasks : rec[t] \in {"dispatched", "active"}}

Creation ==
    \A t \in Tasks :
        /\ rec[t] \in {"approved", "dispatched", "active"} \cup Ended => gate[t] \in Consent
        /\ born[t] = 1 => rec[t] \in {"dispatched", "active"} \cup Ended
        /\ rec[t] \in Ended => child[t] = rec[t]

\* The drive is at the node it works for.
Phase ==
    /\ drv.pc \in {"propose", "authorize", "dispatch", "create"} => node = "spawn"
    /\ drv.pc \in {"observe", "outbox", "cancel", "reconcile"} => node = "wait"
    /\ drv.pc = "return" => node \in {"spawn", "wait"}
    /\ drv.pc = "return" /\ drv.ret = "applied" /\ node = "wait" => wait.disp = "completed"

\* Enough children completed, and what is to be dispatched fits.
Enough == Cardinality(With("completed")) >= style.minimum
Fits == Cardinality(drv.todo) + Cardinality(InFlight) <= style.limit

\* What the drive took from the records is still so.
Working ==
    /\ drv.pc = "propose" => drv.ok = {}
    /\ drv.pc = "authorize" => /\ drv.todo \subseteq With("proposed") /\ drv.ok \subseteq With("proposed")
                               /\ drv.todo \cap drv.ok = {}
                               /\ \A t \in drv.ok : gate[t] \in Consent
    /\ drv.pc = "dispatch" => /\ drv.todo \subseteq With("approved") /\ drv.ok = {} /\ Fits
    /\ drv.pc = "create" => /\ drv.todo \subseteq With("dispatched") /\ drv.ok \subseteq With("dispatched")
                            /\ drv.todo \cap drv.ok = {}
    /\ drv.pc = "observe" => /\ \A t \in DOMAIN drv.saw : child[t] = drv.saw[t]
                             /\ drv.proj.disp # "none" /\ (drv.proj.disp = "completed" => Enough)

Verdict ==
    /\ wait.disp = "completed" => Enough
    /\ node = "done" => wait.disp = "completed"
    /\ drv.pc \in {"outbox", "cancel", "reconcile"} \/ canc # "none" => wait.disp = "failed"
    /\ canc = "completed" => \A t \in wait.kids : child[t] = "cancelled"

IInv == Types /\ Creation /\ Phase /\ Working /\ Verdict /\ InFlightBounded

-----------------------------------------------------------------------------
(***************************************************************************)
(* The first tasks                                                         *)
(***************************************************************************)
\* The first task of a set is its smallest member.
LEMMA FirstIsIn ==
    ASSUME NEW S, S \subseteq Nat, S # {}
    PROVE  First(S) \in S /\ \A x \in S : First(S) <= x
<1> DEFINE R == {ss \in Nat \X Nat : ss[1] < ss[2]}
<1>1. IsWellFoundedOn(R, Nat)
  BY NatLessThanWellFounded, Zenon DEF OpToRel
<1>2. \A x, y \in Nat : <<x, y>> \in R <=> x < y
  OBVIOUS
<1> HIDE DEF R
<1>3. PICK x \in S : \A y \in S : ~(<<y, x>> \in R)
  BY <1>1, WFMin
<1>4. \A y \in S : x <= y
  <2> TAKE y \in S
  <2>1. x \in Nat /\ y \in Nat /\ ~(y < x)
    BY <1>2, <1>3
  <2> QED
    BY <2>1
<1> QED
  BY <1>4 DEF First

LEMMA FirstTask ==
    ASSUME NEW S \in SUBSET Tasks, S # {}
    PROVE  First(S) \in S /\ First(S) \in Tasks
<1>1. S \subseteq Nat
  BY ChildGraphAssumption
<1> QED
  BY <1>1, FirstIsIn

\* Every set of tasks has a cardinality, and a subset is no larger.
LEMMA TaskSets ==
    ASSUME NEW S \in SUBSET Tasks
    PROVE  /\ IsFiniteSet(S) /\ Cardinality(S) \in Nat
           /\ \A T \in SUBSET S : Cardinality(T) <= Cardinality(S)
<1>1. IsFiniteSet(S)
  BY ChildGraphAssumption, FS_Subset
<1>2. ASSUME NEW T \in SUBSET S
      PROVE  Cardinality(T) <= Cardinality(S)
  BY <1>1, FS_Subset
<1> QED
  BY <1>1, <1>2, FS_CardinalityType

LEMMA WithoutOne ==
    ASSUME NEW S \in SUBSET Tasks, NEW t \in S
    PROVE  Cardinality(S \ {t}) = Cardinality(S) - 1
BY TaskSets, FS_RemoveElement

LEMMA AtMostOneMore ==
    ASSUME NEW S \in SUBSET Tasks, NEW T \in SUBSET Tasks, NEW t, T \subseteq S \cup {t}
    PROVE  Cardinality(T) <= Cardinality(S) + 1
<1>1. IsFiniteSet(S) /\ IsFiniteSet(T) /\ Cardinality(S) \in Nat /\ Cardinality(T) \in Nat
  BY TaskSets
<1>2. IsFiniteSet(S \cup {t}) /\ (t \in S \/ Cardinality(S \cup {t}) = Cardinality(S) + 1)
  BY <1>1, FS_AddElement
<1>3. Cardinality(T) <= Cardinality(S \cup {t})
  BY <1>2, FS_Subset
<1>4. t \in S => S \cup {t} = S
  OBVIOUS
<1> QED
  BY <1>1, <1>2, <1>3, <1>4

\* No more than n tasks are the first n.
LEMMA FirstFewAreFew ==
    ASSUME NEW S \in SUBSET Tasks, NEW n \in Int
    PROVE  /\ FirstFew(S, n) \subseteq S
           /\ FirstFew(S, n) # {} => Cardinality(FirstFew(S, n)) <= n
<1> DEFINE F == FirstFew(S, n)
           Below(t) == {x \in S : x < t}
<1>1. F \subseteq S /\ \A t \in F : Cardinality(Below(t)) < n
  BY DEF FirstFew
<1>2. S \subseteq Nat
  BY ChildGraphAssumption
<1>3. \A t \in S : Below(t) \in SUBSET Tasks /\ Cardinality(Below(t)) \in Nat
  BY TaskSets
<1>4. SUFFICES ASSUME F # {} PROVE Cardinality(F) <= n
  BY <1>1
<1>5. Cardinality(S) \in Nat /\ \A t \in S : Cardinality(Below(t)) <= Cardinality(S)
  BY TaskSets
<1> DEFINE Rest == {Cardinality(S) - Cardinality(Below(t)) : t \in F}
<1>6. Rest # {} /\ Rest \subseteq Nat
  <2>1. \A t \in F : Cardinality(S) - Cardinality(Below(t)) \in Nat
    BY <1>1, <1>3, <1>5
  <2> QED
    BY <1>4, <2>1
<1>7. PICK m \in F : \A t \in F : Cardinality(Below(t)) <= Cardinality(Below(m))
  <2>1. First(Rest) \in Rest /\ \A x \in Rest : First(Rest) <= x
    BY <1>6, FirstIsIn
  <2>2. PICK m \in F : First(Rest) = Cardinality(S) - Cardinality(Below(m))
    BY <2>1
  <2>3. ASSUME NEW t \in F
        PROVE  Cardinality(Below(t)) <= Cardinality(Below(m))
    <3>1. Cardinality(S) - Cardinality(Below(m)) <= Cardinality(S) - Cardinality(Below(t))
      BY <2>1, <2>2
    <3>2. Cardinality(Below(t)) \in Nat /\ Cardinality(Below(m)) \in Nat
      BY <1>1, <1>3
    <3> QED
      BY <1>5, <3>1, <3>2
  <2> QED
    BY <2>3
<1>8. F \subseteq Below(m) \cup {m}
  <2> SUFFICES ASSUME NEW t \in F, t # m, ~(t < m) PROVE FALSE
    BY <1>1
  <2>1. t \in S /\ m \in S /\ m < t
    <3>1. t \in S /\ m \in S
      BY <1>1
    <3>2. t \in Nat /\ m \in Nat
      BY <1>2, <3>1
    <3> QED
      BY <3>1, <3>2
  <2>2. Below(m) \cup {m} \subseteq Below(t)
    <3> SUFFICES ASSUME NEW x \in S, x < m PROVE x < t
      BY <2>1
    <3>1. x \in Nat /\ m \in Nat /\ t \in Nat
      BY <1>2, <2>1
    <3> QED
      BY <2>1, <3>1
  <2>3. Below(m) \in SUBSET Tasks /\ Below(t) \in SUBSET Tasks
    BY <1>3, <2>1
  <2>4. m \in Below(t) /\ Below(m) \subseteq Below(t) \ {m}
    BY <1>2, <2>1, <2>2
  <2>5. Cardinality(Below(t) \ {m}) = Cardinality(Below(t)) - 1
    BY <2>3, <2>4, WithoutOne
  <2>6. Cardinality(Below(m)) <= Cardinality(Below(t) \ {m})
    BY <2>3, <2>4, TaskSets
  <2>7. Cardinality(Below(t)) <= Cardinality(Below(m))
    BY <1>7
  <2> QED
    BY <1>3, <2>1, <2>5, <2>6, <2>7
<1>9. Cardinality(F) <= Cardinality(Below(m)) + 1
  BY <1>1, <1>3, <1>8, AtMostOneMore
<1>10. Cardinality(Below(m)) < n /\ Cardinality(Below(m)) \in Nat /\ Cardinality(F) \in Nat
  BY <1>1, <1>3, TaskSets
<1> QED
  BY <1>9, <1>10

-----------------------------------------------------------------------------
(***************************************************************************)
(* What a step does to the drive                                           *)
(***************************************************************************)
LEMMA NothingSeen == <<>> \in Seen
<1>1. <<>> \in [{} -> Ended]
  OBVIOUS
<1> QED
  BY <1>1 DEF Seen

LEMMA OffTyped ==
    /\ Off \in Drives /\ Off.pc = "idle" /\ Off.todo = {} /\ Off.ok = {} /\ Off.fresh = {}
    /\ Off.saw = <<>> /\ Off.ret = "none" /\ NoWait \in Waits
BY NothingSeen DEF Off, NoWait, Drives, Places, Waits, Results

LEMMA Goes ==
    ASSUME drv \in Drives, NEW p \in Places, NEW S \in SUBSET Tasks, Goto(p, S)
    PROVE  /\ drv' \in Drives /\ drv'.pc = p /\ drv'.todo = S
           /\ drv'.ok = drv.ok /\ drv'.fresh = drv.fresh /\ drv'.saw = drv.saw
           /\ drv'.proj = drv.proj /\ drv'.ret = drv.ret
BY DEF Goto, Drives

LEMMA Ends ==
    ASSUME drv \in Drives, NEW r \in Results, End(r)
    PROVE  /\ drv' \in Drives /\ drv'.pc = "return" /\ drv'.todo = {} /\ drv'.ret = r
           /\ drv'.ok = drv.ok /\ drv'.fresh = drv.fresh /\ drv'.saw = drv.saw
           /\ drv'.proj = drv.proj
BY DEF End, Drives, Places

LEMMA TakesIn ==
    ASSUME drv \in Drives, NEW t \in Tasks, drv' = [drv EXCEPT !.todo = @ \ {t}, !.ok = @ \cup {t}]
    PROVE  /\ drv' \in Drives /\ drv'.pc = drv.pc /\ drv'.todo = drv.todo \ {t}
           /\ drv'.ok = drv.ok \cup {t} /\ drv'.fresh = drv.fresh /\ drv'.saw = drv.saw
           /\ drv'.proj = drv.proj /\ drv'.ret = drv.ret
BY DEF Drives

LEMMA Dealt ==
    ASSUME drv \in Drives, NEW t \in Tasks, drv' = [drv EXCEPT !.ok = @ \ {t}]
    PROVE  /\ drv' \in Drives /\ drv'.pc = drv.pc /\ drv'.todo = drv.todo
           /\ drv'.ok = drv.ok \ {t} /\ drv'.fresh = drv.fresh /\ drv'.saw = drv.saw
           /\ drv'.proj = drv.proj /\ drv'.ret = drv.ret
BY DEF Drives

LEMMA Freshens ==
    ASSUME drv \in Drives, NEW t \in Tasks, drv' = [drv EXCEPT !.todo = @ \ {t}, !.fresh = @ \cup {t}]
    PROVE  /\ drv' \in Drives /\ drv'.pc = drv.pc /\ drv'.todo = drv.todo \ {t}
           /\ drv'.ok = drv.ok /\ drv'.fresh = drv.fresh \cup {t} /\ drv'.saw = drv.saw
           /\ drv'.proj = drv.proj /\ drv'.ret = drv.ret
BY DEF Drives

LEMMA Sees ==
    ASSUME drv \in Drives, NEW t \in Tasks, NEW w \in Seen,
           drv' = [drv EXCEPT !.todo = @ \ {t}, !.saw = w]
    PROVE  /\ drv' \in Drives /\ drv'.pc = drv.pc /\ drv'.todo = drv.todo \ {t}
           /\ drv'.ok = drv.ok /\ drv'.fresh = drv.fresh /\ drv'.saw = w
           /\ drv'.proj = drv.proj /\ drv'.ret = drv.ret
BY DEF Drives

\* What is seen of the children is about tasks.
LEMMA SeenAbout ==
    ASSUME NEW w \in Seen
    PROVE  DOMAIN w \subseteq Tasks /\ \A t \in DOMAIN w : w[t] \in Ended
BY DEF Seen

-----------------------------------------------------------------------------
(***************************************************************************)
(* What a step does to the records                                         *)
(***************************************************************************)
LEMMA Moves ==
    ASSUME rec \in [Tasks -> Records], NEW t \in Tasks, NEW v \in Records,
           rec' = [rec EXCEPT ![t] = v]
    PROVE  /\ rec' \in [Tasks -> Records] /\ rec'[t] = v
           /\ \A x \in Tasks : x # t => rec'[x] = rec[x]
BY DEF Records

LEMMA StyleNumbers ==
    ASSUME style \in Styles
    PROVE  style.limit \in Int /\ style.minimum \in Int
<1>1. style.limit \in Limits /\ style.minimum \in 1..Cardinality(Tasks)
  BY DEF Styles
<1>2. style.limit \in Nat
  BY <1>1, ChildGraphAssumption
<1> QED
  BY <1>1, <1>2

LEMMA EnoughStays ==
    ASSUME style \in Styles, style' = style,
           \A t \in Tasks : rec[t] = "completed" => rec'[t] = "completed",
           Enough
    PROVE  Enough'
<1>1. With("completed") \subseteq With("completed")'
  BY DEF With
<1>2. With("completed") \in SUBSET Tasks /\ With("completed")' \in SUBSET Tasks
  BY DEF With
<1>3. Cardinality(With("completed")) <= Cardinality(With("completed")')
  BY <1>1, <1>2, TaskSets
<1>4. Cardinality(With("completed")) \in Nat /\ Cardinality(With("completed")') \in Nat
  BY <1>2, TaskSets
<1>5. style.minimum \in Int
  BY StyleNumbers
<1> QED
  BY <1>3, <1>4, <1>5 DEF Enough

LEMMA FlightStays ==
    ASSUME style \in Styles, style' = style,
           \A t \in Tasks : rec'[t] \in {"dispatched", "active"} => rec[t] \in {"dispatched", "active"},
           InFlightBounded
    PROVE  InFlightBounded'
<1>1. InFlight' \subseteq InFlight /\ InFlight \in SUBSET Tasks /\ InFlight' \in SUBSET Tasks
  BY DEF InFlight
<1>2. Cardinality(InFlight') <= Cardinality(InFlight)
  BY <1>1, TaskSets
<1>3. Cardinality(InFlight) \in Nat /\ Cardinality(InFlight') \in Nat
  BY <1>1, TaskSets
<1>4. style.limit \in Int
  BY StyleNumbers
<1>5. Cardinality(InFlight) <= style.limit
  BY DEF InFlightBounded, InFlight
<1>6. Cardinality(InFlight') <= style'.limit
  BY <1>2, <1>3, <1>4, <1>5
<1> QED
  BY <1>6 DEF InFlightBounded, InFlight

LEMMA WithIsTasks ==
    \A x : With(x) \in SUBSET Tasks
BY DEF With

-----------------------------------------------------------------------------
(***************************************************************************)
(* Every action of the spawn node keeps the invariant                      *)
(***************************************************************************)
\* Records and tasks of the drive, as the other proofs use them.
LEMMA Ranges ==
    ASSUME IInv
    PROVE  /\ style \in Styles /\ drv \in Drives /\ rec \in [Tasks -> Records]
           /\ drv.todo \in SUBSET Tasks /\ drv.ok \in SUBSET Tasks /\ drv.fresh \in SUBSET Tasks
           /\ drv.saw \in Seen /\ drv.proj \in Waits /\ drv.pc \in Places /\ drv.ret \in Results
BY DEF IInv, Types, Drives

\* A step that leaves the records of the journal alone.
LEMMA SameJournal ==
    ASSUME IInv, UNCHANGED <<style, rec>>
    PROVE  /\ \A x : With(x)' = With(x)
           /\ InFlight' = InFlight /\ (Enough => Enough') /\ InFlightBounded'
<1>1. \A x : With(x)' = With(x)
  BY DEF With
<1>2. InFlight' = InFlight
  BY DEF InFlight
<1>3. Enough => Enough'
  BY Ranges, EnoughStays
<1>4. InFlightBounded'
  BY Ranges, FlightStays DEF IInv
<1> QED
  BY <1>1, <1>2, <1>3, <1>4

\* A step that ends the drive and changes nothing else.
LEMMA EndKeeps ==
    ASSUME IInv, NEW r \in Results, End(r), drv.pc # "idle",
           r = "applied" => node = "spawn",
           UNCHANGED <<style, parent, store, late, children, faults>>
    PROVE  IInv'
<1>1. /\ drv' \in Drives /\ drv'.pc = "return" /\ drv'.ret = r
  BY Ranges, Ends
<1>2. Types' /\ Creation'
  BY <1>1 DEF IInv, Types, Creation, parent, store, children, Records, Styles, Waits
<1>3. Phase'
  BY <1>1, Ranges DEF IInv, Phase, parent, Places
<1>4. Working'
  BY <1>1 DEF Working
<1>5. (Enough => Enough') /\ InFlightBounded'
  BY SameJournal DEF parent
<1>6. Verdict'
  BY <1>1, <1>5 DEF IInv, Verdict, parent, children
<1> QED
  BY <1>2, <1>3, <1>4, <1>5, <1>6 DEF IInv

LEMMA ProposeKeeps ==
    ASSUME IInv, Propose
    PROVE  IInv'
<1>1. UNCHANGED <<style, node, wait, canc, gate, cgate, timer, late, child, born, faults>>
  BY DEF Propose, store, children
<1>2. CASE With("none") # {}
  <2> DEFINE t == First(With("none"))
  <2>1. t \in With("none") /\ t \in Tasks
    BY <1>2, FirstTask, WithIsTasks
  <2>2. rec' = [rec EXCEPT ![t] = "proposed"] /\ drv' = drv /\ rec[t] = "none"
    BY <1>2, <2>1 DEF Propose, With
  <2> HIDE DEF t
  <2>3. /\ rec' \in [Tasks -> Records] /\ rec'[t] = "proposed"
        /\ \A x \in Tasks : x # t => rec'[x] = rec[x]
    BY <2>1, <2>2, Ranges, Moves DEF Records
  <2>4. Types'
    BY <1>1, <2>2, <2>3 DEF IInv, Types, Styles, Waits
  <2>5. Creation'
    BY <1>1, <2>2, <2>3 DEF IInv, Creation, Ended
  <2>6. Phase' /\ Working'
    BY <1>1, <2>2 DEF IInv, Phase, Working, Propose
  <2>7. InFlightBounded' /\ (Enough => Enough')
    BY <1>1, <2>2, <2>3, Ranges, EnoughStays, FlightStays DEF IInv
  <2>8. Verdict'
    BY <1>1, <2>2, <2>7 DEF IInv, Verdict
  <2> QED
    BY <2>4, <2>5, <2>6, <2>7, <2>8 DEF IInv
<1>3. CASE With("none") = {}
  <2>1. Goto("authorize", Authorizable) /\ UNCHANGED rec
    BY <1>3 DEF Propose
  <2>2. Authorizable \subseteq With("proposed") /\ Authorizable \in SUBSET Tasks
    BY WithIsTasks DEF Authorizable, FirstFew
  <2>3. drv' \in Drives /\ drv'.pc = "authorize" /\ drv'.todo = Authorizable /\ drv'.ok = drv.ok
    BY <2>1, <2>2, Ranges, Goes DEF Places
  <2>4. drv.ok = {}
    BY DEF IInv, Working, Propose
  <2>5. With("proposed")' = With("proposed") /\ InFlightBounded' /\ (Enough => Enough')
    BY <1>1, <2>1, SameJournal
  <2>6. Types' /\ Creation'
    BY <1>1, <2>1, <2>3 DEF IInv, Types, Creation, Styles, Waits
  <2>7. Phase'
    BY <1>1, <2>3 DEF IInv, Phase, Propose
  <2>8. Working'
    BY <2>2, <2>3, <2>4, <2>5 DEF Working
  <2>9. Verdict'
    BY <1>1, <2>3, <2>5 DEF IInv, Verdict
  <2> QED
    BY <2>5, <2>6, <2>7, <2>8, <2>9 DEF IInv
<1> QED
  BY <1>2, <1>3

LEMMA AuthorizeCreationKeeps ==
    ASSUME IInv, AuthorizeCreation
    PROVE  IInv'
<1> DEFINE t == First(drv.todo)
<1>1. t \in drv.todo /\ t \in Tasks
  BY Ranges, FirstTask DEF AuthorizeCreation
<1>2. UNCHANGED <<style, node, rec, wait, canc, cgate, timer, late, child, born, faults>>
  BY DEF AuthorizeCreation, parent, children
<1>3. PICK v \in Verdicts(gate[t]) :
          /\ gate' = IF v = "ask" THEN [gate EXCEPT ![t] = "pending"] ELSE gate
          /\ CASE v = "applied" -> drv' = [drv EXCEPT !.todo = @ \ {t}, !.ok = @ \cup {t}]
               [] v \in {"ask", "waiting"} -> End("approval")
               [] v = "denied" -> End("denied")
  BY DEF AuthorizeCreation
<1>4. drv.pc = "authorize" /\ node = "spawn"
  BY DEF AuthorizeCreation, IInv, Phase
<1> HIDE DEF t
<1>5. gate \in [Tasks -> Gates] /\ gate[t] \in Gates
  BY <1>1 DEF IInv, Types
<1>6. v \in {"applied", "ask", "denied", "waiting"} /\ (v = "applied" => gate[t] \in Consent)
  BY <1>5 DEF Verdicts, Gates, Consent
<1>7. /\ drv.todo \subseteq With("proposed") /\ drv.ok \subseteq With("proposed")
      /\ drv.todo \cap drv.ok = {} /\ \A x \in drv.ok : gate[x] \in Consent
  BY <1>4 DEF IInv, Working
<1>8. \A x : With(x)' = With(x)
  BY <1>2, SameJournal
<1>9. InFlightBounded' /\ (Enough => Enough')
  BY <1>2, SameJournal
<1>10. gate' \in [Tasks -> Gates] /\ \A x \in Tasks : x # t => gate'[x] = gate[x]
  BY <1>3, <1>5 DEF Gates
<1>11. rec[t] = "proposed"
  BY <1>1, <1>7 DEF With
<1>12. Creation'
  BY <1>2, <1>10, <1>11 DEF IInv, Creation, Ended
<1>13. /\ drv' \in Drives
       /\ \/ drv'.pc = "return" /\ drv'.ret \in {"approval", "denied"}
          \/ /\ v = "applied" /\ drv'.pc = "authorize"
             /\ drv'.todo = drv.todo \ {t} /\ drv'.ok = drv.ok \cup {t}
  <2>1. CASE v = "applied"
    <3>1. drv' = [drv EXCEPT !.todo = @ \ {t}, !.ok = @ \cup {t}]
      BY <1>3, <2>1
    <3> QED
      BY <1>1, <1>4, <2>1, <3>1, Ranges, TakesIn
  <2>2. CASE v # "applied"
    <3>1. PICK r \in {"approval", "denied"} : End(r)
      BY <1>3, <1>6, <2>2
    <3> QED
      BY <3>1, Ranges, Ends DEF Results
  <2> QED
    BY <2>1, <2>2
<1>14. Types'
  BY <1>2, <1>10, <1>13 DEF IInv, Types, Styles, Waits
<1>15. Phase'
  BY <1>2, <1>4, <1>13 DEF Phase
<1>16. Working'
  <2>1. CASE drv'.pc = "return"
    BY <2>1 DEF Working
  <2>2. CASE drv'.pc # "return"
    <3>1. v = "applied" /\ drv'.pc = "authorize" /\ drv'.todo = drv.todo \ {t} /\ drv'.ok = drv.ok \cup {t}
      BY <1>13, <2>2
    <3>2. gate' = gate
      BY <1>3, <3>1
    <3>3. drv'.todo \subseteq With("proposed")' /\ drv'.ok \subseteq With("proposed")' /\ drv'.todo \cap drv'.ok = {}
      BY <1>1, <1>7, <1>8, <3>1
    <3>4. \A x \in drv'.ok : gate'[x] \in Consent
      BY <1>6, <1>7, <3>1, <3>2
    <3> QED
      BY <3>1, <3>3, <3>4 DEF Working, Consent
  <2> QED
    BY <2>1, <2>2
<1>17. Verdict'
  BY <1>2, <1>4, <1>9, <1>13 DEF IInv, Verdict
<1> QED
  BY <1>9, <1>12, <1>14, <1>15, <1>16, <1>17 DEF IInv

LEMMA ApproveKeeps ==
    ASSUME IInv, Approve
    PROVE  IInv'
<1>1. UNCHANGED <<style, node, wait, canc, gate, cgate, timer, late, child, born, faults>>
  BY DEF Approve, store, children
<1>2. drv.pc = "authorize" /\ node = "spawn" /\ drv.todo = {}
  BY DEF Approve, IInv, Phase
<1>3. drv.ok \subseteq With("proposed") /\ \A x \in drv.ok : gate[x] \in Consent
  BY <1>2 DEF IInv, Working
<1>4. CASE drv.ok # {}
  <2> DEFINE t == First(drv.ok)
  <2>1. t \in drv.ok /\ t \in Tasks
    BY <1>4, FirstTask, Ranges
  <2>2. rec' = [rec EXCEPT ![t] = "approved"] /\ drv' = [drv EXCEPT !.ok = @ \ {t}]
    BY <1>4 DEF Approve
  <2> HIDE DEF t
  <2>3. /\ rec' \in [Tasks -> Records] /\ rec'[t] = "approved"
        /\ \A x \in Tasks : x # t => rec'[x] = rec[x]
    BY <2>1, <2>2, Ranges, Moves DEF Records
  <2>4. drv' \in Drives /\ drv'.pc = "authorize" /\ drv'.todo = {} /\ drv'.ok = drv.ok \ {t}
    BY <1>2, <2>1, <2>2, Ranges, Dealt
  <2>5. rec[t] = "proposed" /\ gate[t] \in Consent
    BY <1>3, <2>1 DEF With
  <2>6. Types'
    BY <1>1, <2>3, <2>4 DEF IInv, Types, Styles, Waits
  <2>7. Creation'
    BY <1>1, <2>3, <2>5 DEF IInv, Creation, Ended
  <2>8. Phase'
    BY <1>1, <1>2, <2>4 DEF Phase
  <2>9. Working'
    <3>1. drv'.ok \subseteq With("proposed")'
      BY <1>3, <2>3, <2>4 DEF With
    <3> QED
      BY <1>1, <1>3, <2>4, <3>1 DEF Working
  <2>10. InFlightBounded' /\ (Enough => Enough')
    BY <1>1, <2>3, <2>5, Ranges, EnoughStays, FlightStays DEF IInv
  <2>11. Verdict'
    BY <1>1, <1>2, <2>4, <2>10 DEF IInv, Verdict
  <2> QED
    BY <2>6, <2>7, <2>8, <2>9, <2>10, <2>11 DEF IInv
<1>5. CASE drv.ok = {}
  <2>1. Goto("dispatch", Dispatchable) /\ UNCHANGED rec
    BY <1>5 DEF Approve
  <2> DEFINE D == Dispatchable
             n == style.limit - Cardinality(InFlight)
  <2>2. D = FirstFew(With("approved"), n)
    BY DEF Dispatchable, AvailableSlots, InFlight
  <2>3. InFlight \in SUBSET Tasks
    BY DEF InFlight
  <2>4. Cardinality(InFlight) \in Nat /\ style.limit \in Int /\ n \in Int
    BY <2>3, TaskSets, StyleNumbers, Ranges
  <2>5. Cardinality(InFlight) <= style.limit
    BY DEF IInv, InFlightBounded, InFlight
  <2>6. D \subseteq With("approved") /\ D \in SUBSET Tasks /\ (D # {} => Cardinality(D) <= n)
    BY <2>2, <2>4, WithIsTasks, FirstFewAreFew
  <2>7. drv' \in Drives /\ drv'.pc = "dispatch" /\ drv'.todo = D /\ drv'.ok = {}
    BY <1>5, <2>1, <2>6, Ranges, Goes DEF Places
  <2>8. Cardinality(D) + Cardinality(InFlight) <= style.limit
    <3>1. CASE D = {}
      BY <2>4, <2>5, <3>1, FS_EmptySet
    <3>2. CASE D # {}
      <4>1. Cardinality(D) <= style.limit - Cardinality(InFlight) /\ Cardinality(D) \in Nat
        BY <2>6, <3>2, TaskSets
      <4> HIDE DEF D, n
      <4> QED
        BY <2>4, <4>1
    <3> QED
      BY <3>1, <3>2
  <2> HIDE DEF D
  <2>9. /\ With("approved")' = With("approved") /\ InFlight' = InFlight
        /\ InFlightBounded' /\ (Enough => Enough')
    BY <1>1, <2>1, SameJournal
  <2>10. Fits'
    BY <1>1, <2>7, <2>8, <2>9 DEF Fits
  <2>11. Types' /\ Creation'
    BY <1>1, <2>1, <2>7 DEF IInv, Types, Creation, Styles, Waits
  <2>12. Phase'
    BY <1>1, <1>2, <2>7 DEF Phase
  <2>13. Working'
    BY <2>6, <2>7, <2>9, <2>10 DEF Working
  <2>14. Verdict'
    BY <1>1, <1>2, <2>7, <2>9 DEF IInv, Verdict
  <2> QED
    BY <2>9, <2>11, <2>12, <2>13, <2>14 DEF IInv
<1> QED
  BY <1>4, <1>5

LEMMA DispatchKeeps ==
    ASSUME IInv, Dispatch
    PROVE  IInv'
<1>1. UNCHANGED <<style, node, wait, canc, gate, cgate, timer, late, child, born, faults>>
  BY DEF Dispatch, store, children
<1>2. drv.pc = "dispatch" /\ node = "spawn"
  BY DEF Dispatch, IInv, Phase
<1>3. drv.todo \subseteq With("approved") /\ drv.ok = {} /\ Fits
  BY <1>2 DEF IInv, Working
<1>4. CASE drv.todo # {}
  <2> DEFINE t == First(drv.todo)
  <2>1. t \in drv.todo /\ t \in Tasks
    BY <1>4, FirstTask, Ranges
  <2>2. rec' = [rec EXCEPT ![t] = "dispatched"] /\ drv' = [drv EXCEPT !.todo = @ \ {t}, !.fresh = @ \cup {t}]
    BY <1>4 DEF Dispatch
  <2> HIDE DEF t
  <2>3. /\ rec' \in [Tasks -> Records] /\ rec'[t] = "dispatched"
        /\ \A x \in Tasks : x # t => rec'[x] = rec[x]
    BY <2>1, <2>2, Ranges, Moves DEF Records
  <2>4. drv' \in Drives /\ drv'.pc = "dispatch" /\ drv'.todo = drv.todo \ {t} /\ drv'.ok = {}
    BY <1>2, <1>3, <2>1, <2>2, Ranges, Freshens
  <2>5. rec[t] = "approved"
    BY <1>3, <2>1 DEF With
  <2>6. Types'
    BY <1>1, <2>3, <2>4 DEF IInv, Types, Styles, Waits
  <2>7. Creation'
    BY <1>1, <2>3, <2>5 DEF IInv, Creation, Ended
  <2>8. Phase'
    BY <1>1, <1>2, <2>4 DEF Phase
  <2>9. Cardinality(InFlight') <= Cardinality(InFlight) + 1 /\ InFlight' \in SUBSET Tasks /\ InFlight \in SUBSET Tasks
    <3>1. InFlight \in SUBSET Tasks /\ InFlight' \in SUBSET Tasks
      BY DEF InFlight
    <3>2. InFlight' \subseteq InFlight \cup {t}
      BY <2>3 DEF InFlight
    <3> QED
      BY <3>1, <3>2, AtMostOneMore
  <2>10. Cardinality(drv'.todo) = Cardinality(drv.todo) - 1
    BY <2>1, <2>4, Ranges, WithoutOne
  <2>11. /\ Cardinality(drv.todo) \in Nat /\ Cardinality(drv'.todo) \in Nat
         /\ Cardinality(InFlight) \in Nat /\ Cardinality(InFlight') \in Nat /\ style.limit \in Int
    <3>1. drv.todo \in SUBSET Tasks /\ drv'.todo \in SUBSET Tasks
      BY <2>4, Ranges
    <3> QED
      BY <2>9, <3>1, TaskSets, StyleNumbers, Ranges
  <2>12. Cardinality(drv'.todo) + Cardinality(InFlight') <= style.limit
    BY <1>3, <2>9, <2>10, <2>11 DEF Fits
  <2>13. Fits' /\ Cardinality(InFlight') <= style'.limit
    BY <1>1, <2>11, <2>12 DEF Fits
  <2>14. InFlightBounded'
    BY <2>13 DEF InFlightBounded, InFlight
  <2>15. Working'
    <3>1. drv'.todo \subseteq With("approved")'
      BY <1>3, <2>3, <2>4 DEF With
    <3> QED
      BY <2>4, <2>13, <3>1 DEF Working
  <2>16. Enough => Enough'
    BY <1>1, <2>3, <2>5, Ranges, EnoughStays
  <2>17. Verdict'
    BY <1>1, <1>2, <2>4, <2>16 DEF IInv, Verdict
  <2> QED
    BY <2>6, <2>7, <2>8, <2>14, <2>15, <2>17 DEF IInv
<1>5. CASE drv.todo = {}
  <2>1. Goto("create", With("dispatched")) /\ UNCHANGED rec
    BY <1>5 DEF Dispatch
  <2>2. drv' \in Drives /\ drv'.pc = "create" /\ drv'.todo = With("dispatched") /\ drv'.ok = {}
    BY <1>3, <2>1, WithIsTasks, Ranges, Goes DEF Places
  <2>3. With("dispatched")' = With("dispatched") /\ InFlightBounded' /\ (Enough => Enough')
    BY <1>1, <2>1, SameJournal
  <2>4. Types' /\ Creation'
    BY <1>1, <2>1, <2>2 DEF IInv, Types, Creation, Styles, Waits
  <2>5. Phase'
    BY <1>1, <1>2, <2>2 DEF Phase
  <2>6. Working'
    BY <2>2, <2>3 DEF Working
  <2>7. Verdict'
    BY <1>1, <1>2, <2>2, <2>3 DEF IInv, Verdict
  <2> QED
    BY <2>3, <2>4, <2>5, <2>6, <2>7 DEF IInv
<1> QED
  BY <1>4, <1>5

LEMMA CreateChildKeeps ==
    ASSUME IInv, CreateChild
    PROVE  IInv'
<1> DEFINE t == First(drv.todo)
<1>1. t \in drv.todo /\ t \in Tasks
  BY Ranges, FirstTask DEF CreateChild
<1>2. UNCHANGED <<style, node, rec, wait, canc, gate, cgate, timer, late>>
  BY DEF CreateChild, parent, store
<1>3. drv.pc = "create" /\ node = "spawn" /\ (Make(t) \/ ReconcileCreation(t))
  BY DEF CreateChild, IInv, Phase
<1> HIDE DEF t
<1>4. /\ drv.todo \subseteq With("dispatched") /\ drv.ok \subseteq With("dispatched")
      /\ drv.todo \cap drv.ok = {}
  BY <1>3 DEF IInv, Working
<1>5. rec[t] = "dispatched"
  BY <1>1, <1>4 DEF With
<1>6. born \in [Tasks -> {0, 1}] /\ child \in [Tasks -> {"none", "active"} \cup Ended] /\ faults \in 0..MaxFaults
  BY DEF IInv, Types
<1>7. /\ born' \in [Tasks -> {0, 1}] /\ child' \in [Tasks -> {"none", "active"} \cup Ended]
      /\ faults' \in 0..MaxFaults
      /\ \A x \in Tasks : x # t => born'[x] = born[x] /\ child'[x] = child[x]
      /\ \A x \in Tasks : child[x] \in Ended => child'[x] = child[x]
      /\ \/ drv' = [drv EXCEPT !.todo = @ \ {t}, !.ok = @ \cup {t}]
         \/ \E r \in {"error", "waiting", "ambiguous"} : End(r)
  <2>1. CASE Make(t)
    <3>1. CASE drv' = [drv EXCEPT !.todo = @ \ {t}, !.ok = @ \cup {t}] /\ born' = [born EXCEPT ![t] = IF @ = 0 THEN 1 ELSE @]
               /\ child' = [child EXCEPT ![t] = IF @ = "none" THEN "active" ELSE @] /\ UNCHANGED faults
      BY <1>1, <1>6, <3>1 DEF Ended
    <3>2. CASE faults < MaxFaults /\ faults' = faults + 1 /\ End("error") /\ UNCHANGED children
      <4>1. faults' \in 0..MaxFaults
        BY <1>6, <3>2, ChildGraphAssumption
      <4> QED
        BY <1>6, <3>2, <4>1 DEF children
    <3> QED
      BY <2>1, <3>1, <3>2 DEF Make
  <2>2. CASE ReconcileCreation(t)
    <3>1. born[t] \in {0, 1} /\ UNCHANGED <<children, faults>>
      BY <1>1, <1>6, <2>2 DEF ReconcileCreation
    <3>2. \/ drv' = [drv EXCEPT !.todo = @ \ {t}, !.ok = @ \cup {t}]
          \/ End("waiting")
      BY <2>2, <3>1 DEF ReconcileCreation
    <3> QED
      BY <1>6, <3>1, <3>2 DEF children
  <2> QED
    BY <1>3, <2>1, <2>2
<1>8. /\ drv' \in Drives
      /\ \/ drv'.pc = "return" /\ drv'.ret # "applied"
         \/ drv'.pc = "create" /\ drv'.todo = drv.todo \ {t} /\ drv'.ok = drv.ok \cup {t}
  <2>1. CASE drv' = [drv EXCEPT !.todo = @ \ {t}, !.ok = @ \cup {t}]
    BY <1>1, <1>3, <2>1, Ranges, TakesIn
  <2>2. CASE \E r \in {"error", "waiting", "ambiguous"} : End(r)
    <3>1. PICK r \in {"error", "waiting", "ambiguous"} : End(r)
      BY <2>2
    <3> QED
      BY <3>1, Ranges, Ends DEF Results
  <2> QED
    BY <1>7, <2>1, <2>2
<1>9. Types'
  BY <1>2, <1>7, <1>8 DEF IInv, Types, Styles, Waits
<1>10. Creation'
  BY <1>1, <1>2, <1>5, <1>7 DEF IInv, Creation, Ended
<1>11. Phase'
  BY <1>2, <1>3, <1>8 DEF Phase
<1>12. /\ \A x : With(x)' = With(x)
       /\ InFlightBounded' /\ (Enough => Enough')
  BY <1>2, SameJournal
<1>13. Working'
  <2>1. CASE drv'.pc = "return"
    BY <2>1 DEF Working
  <2>2. CASE drv'.pc = "create" /\ drv'.todo = drv.todo \ {t} /\ drv'.ok = drv.ok \cup {t}
    BY <1>1, <1>4, <1>12, <2>2 DEF Working
  <2> QED
    BY <1>8, <2>1, <2>2
<1>14. Verdict'
  BY <1>2, <1>3, <1>7, <1>8, <1>12 DEF IInv, Verdict, Types, Waits, Ended
<1> QED
  BY <1>9, <1>10, <1>11, <1>12, <1>13, <1>14 DEF IInv

LEMMA RecordCreatedKeeps ==
    ASSUME IInv, RecordCreated
    PROVE  IInv'
<1>1. UNCHANGED <<style, node, wait, canc, gate, cgate, timer, late, child, born, faults>>
  BY DEF RecordCreated, store, children
<1>2. drv.pc = "create" /\ node = "spawn" /\ drv.todo = {}
  BY DEF RecordCreated, IInv, Phase
<1>3. drv.ok \subseteq With("dispatched")
  BY <1>2 DEF IInv, Working
<1>4. CASE drv.ok # {}
  <2> DEFINE t == First(drv.ok)
  <2>1. t \in drv.ok /\ t \in Tasks
    BY <1>4, FirstTask, Ranges
  <2>2. rec' = [rec EXCEPT ![t] = "active"] /\ drv' = [drv EXCEPT !.ok = @ \ {t}]
    BY <1>4 DEF RecordCreated
  <2> HIDE DEF t
  <2>3. /\ rec' \in [Tasks -> Records] /\ rec'[t] = "active"
        /\ \A x \in Tasks : x # t => rec'[x] = rec[x]
    BY <2>1, <2>2, Ranges, Moves DEF Records
  <2>4. drv' \in Drives /\ drv'.pc = "create" /\ drv'.todo = {} /\ drv'.ok = drv.ok \ {t}
    BY <1>2, <2>1, <2>2, Ranges, Dealt
  <2>5. rec[t] = "dispatched"
    BY <1>3, <2>1 DEF With
  <2>6. Types'
    BY <1>1, <2>3, <2>4 DEF IInv, Types, Styles, Waits
  <2>7. Creation'
    BY <1>1, <2>3, <2>5 DEF IInv, Creation, Ended
  <2>8. Phase'
    BY <1>1, <1>2, <2>4 DEF Phase
  <2>9. Working'
    <3>1. drv'.ok \subseteq With("dispatched")'
      BY <1>3, <2>3, <2>4 DEF With
    <3> QED
      BY <2>4, <3>1 DEF Working
  <2>10. InFlightBounded' /\ (Enough => Enough')
    BY <1>1, <2>3, <2>5, Ranges, EnoughStays, FlightStays DEF IInv
  <2>11. Verdict'
    BY <1>1, <1>2, <2>4, <2>10 DEF IInv, Verdict
  <2> QED
    BY <2>6, <2>7, <2>8, <2>9, <2>10, <2>11 DEF IInv
<1>5. CASE drv.ok = {}
  <2>1. PICK r \in {"applied", "waiting"} : End(r) /\ UNCHANGED rec
    BY <1>5 DEF RecordCreated
  <2> QED
    BY <1>1, <1>2, <2>1, EndKeeps DEF parent, store, children, Results
<1> QED
  BY <1>4, <1>5

-----------------------------------------------------------------------------
(***************************************************************************)
(* Every action of the wait node keeps the invariant                       *)
(***************************************************************************)
\* A projection names tasks, and says completed only with enough successes.
LEMMA Projects ==
    ASSUME IInv, NEW k \in BOOLEAN
    PROVE  /\ Projection(k) \in Waits /\ Projection(k).disp # "none"
           /\ Projection(k).disp = "completed" => Enough
<1>1. With("completed") \in SUBSET Tasks /\ With("active") \in SUBSET Tasks
  BY WithIsTasks
<1>2. \/ \E S \in SUBSET Tasks : Projection(k) = Failure("parent_cancelled", S)
      \/ Enough /\ Projection(k) = [disp |-> "completed", code |-> "none", kids |-> With("completed")]
      \/ Projection(k) = Failure("child_wait_timeout", With("active"))
      \/ Projection(k) = Failure("minimum_success_impossible", With("active"))
      \/ Projection(k) = [disp |-> "waiting", code |-> "none", kids |-> With("active")]
  <2>1. (IF style.cancellation = "cascade" THEN With("active") ELSE {}) \in SUBSET Tasks
    BY <1>1
  <2> QED
    BY <2>1 DEF Projection, Enough
<1> DEFINE p == Projection(k)
<1> HIDE DEF p
<1>3. CASE \E S \in SUBSET Tasks : p = Failure("parent_cancelled", S)
  BY <1>3 DEF Failure, Waits, p
<1>4. CASE Enough /\ p = [disp |-> "completed", code |-> "none", kids |-> With("completed")]
  BY <1>1, <1>4 DEF Waits, p
<1>5. CASE \/ p = Failure("child_wait_timeout", With("active"))
           \/ p = Failure("minimum_success_impossible", With("active"))
  BY <1>1, <1>5 DEF Failure, Waits, p
<1>6. CASE p = [disp |-> "waiting", code |-> "none", kids |-> With("active")]
  BY <1>1, <1>6 DEF Waits, p
<1> QED
  BY <1>2, <1>3, <1>4, <1>5, <1>6 DEF p

\* The start of a drive of the wait node.
LEMMA Begins ==
    ASSUME NEW w \in Waits, NEW S \in SUBSET Tasks, NEW p \in Places,
           \/ drv' = [Off EXCEPT !.pc = p, !.proj = w, !.todo = S]
           \/ p = "propose" /\ drv' = [Off EXCEPT !.pc = p]
    PROVE  /\ drv' \in Drives /\ drv'.pc = p /\ drv'.ok = {} /\ drv'.saw = <<>>
           /\ p # "propose" => drv'.proj = w
<1>1. CASE drv' = [Off EXCEPT !.pc = p, !.proj = w, !.todo = S]
  BY <1>1, NothingSeen DEF Off, Drives, Places, Results
<1>2. CASE p = "propose" /\ drv' = [Off EXCEPT !.pc = p]
  BY <1>2, NothingSeen, OffTyped DEF Off, Drives, Places, Results
<1> QED
  BY <1>1, <1>2

LEMMA DriveKeeps ==
    ASSUME IInv, Drive
    PROVE  IInv'
<1>1. UNCHANGED <<style, node, rec, wait, canc, gate, cgate, late, child, born, faults>>
  BY DEF Drive, parent, children
<1>2. /\ \A x : With(x)' = With(x)
      /\ InFlightBounded' /\ (Enough => Enough')
  BY <1>1, SameJournal
<1>3. timer \in Gates \cup {"expired"} /\ drv.pc = "idle"
  BY DEF IInv, Types, Drive
<1>4. CASE node = "spawn" /\ drv' = [Off EXCEPT !.pc = "propose"] /\ UNCHANGED timer
  <2>1. drv' \in Drives /\ drv'.pc = "propose" /\ drv'.ok = {}
    BY <1>4, OffTyped, Begins DEF Places
  <2>2. Types' /\ Creation'
    BY <1>1, <1>4, <2>1 DEF IInv, Types, Creation, Styles, Waits
  <2>3. Phase' /\ Working'
    BY <1>1, <1>4, <2>1 DEF Phase, Working
  <2>4. Verdict'
    BY <1>1, <1>2, <1>3, <1>4, <2>1 DEF IInv, Verdict
  <2> QED
    BY <1>2, <2>2, <2>3, <2>4 DEF IInv
<1>5. CASE node = "wait" /\ timer' = TimerNow
  <2> DEFINE k == TimerNow = "cancelled"
             w == Projection(k)
             S == IF w.disp = "completed" THEN {} ELSE w.kids
  <2>1. k \in BOOLEAN
    OBVIOUS
  <2>2. w \in Waits /\ w.disp # "none" /\ (w.disp = "completed" => Enough)
    BY <2>1, Projects
  <2>3. drv' = [Off EXCEPT !.pc = "observe", !.proj = w, !.todo = S]
    BY <1>5 DEF Drive
  <2> HIDE DEF k, w
  <2>4. S \in SUBSET Tasks
    BY <2>2 DEF Waits
  <2> HIDE DEF S
  <2>5. drv' \in Drives /\ drv'.pc = "observe" /\ drv'.ok = {} /\ drv'.saw = <<>> /\ drv'.proj = w
    BY <2>2, <2>3, <2>4, Begins DEF Places
  <2>6. timer' \in Gates \cup {"expired"}
    BY <1>3, <1>5 DEF TimerNow, Gates
  <2>7. Types' /\ Creation'
    BY <1>1, <2>5, <2>6 DEF IInv, Types, Creation, Styles, Waits
  <2>8. Phase'
    BY <1>1, <1>5, <2>5 DEF Phase
  <2>9. DOMAIN drv'.saw = {}
    BY <2>5
  <2>10. Working'
    BY <1>2, <2>2, <2>5, <2>9 DEF Working
  <2>11. Verdict'
    BY <1>1, <1>2, <1>3, <1>5, <2>5 DEF IInv, Verdict
  <2> QED
    BY <1>2, <2>7, <2>8, <2>10, <2>11 DEF IInv
<1> QED
  BY <1>4, <1>5 DEF Drive

LEMMA ObserveKeeps ==
    ASSUME IInv, Observe
    PROVE  IInv'
<1> DEFINE t == First(drv.todo)
           w == IF child[t] \in Ended
                THEN [x \in DOMAIN drv.saw \cup {t} |-> IF x = t THEN child[t] ELSE drv.saw[x]]
                ELSE drv.saw
<1>1. t \in drv.todo /\ t \in Tasks
  BY Ranges, FirstTask DEF Observe
<1>2. UNCHANGED <<style, node, rec, wait, canc, gate, cgate, timer, late, child, born, faults>>
  BY DEF Observe, parent, store, children
<1>3. drv.pc = "observe" /\ node = "wait"
  BY DEF Observe, IInv, Phase
<1>4. drv' = [drv EXCEPT !.todo = @ \ {t}, !.saw = w]
  BY DEF Observe
<1>5. /\ \A x \in DOMAIN drv.saw : child[x] = drv.saw[x]
      /\ drv.proj.disp # "none" /\ (drv.proj.disp = "completed" => Enough)
  BY <1>3 DEF IInv, Working
<1>6. DOMAIN drv.saw \subseteq Tasks /\ \A x \in DOMAIN drv.saw : drv.saw[x] \in Ended
  BY Ranges, SeenAbout
<1> HIDE DEF t
<1>7. w \in Seen /\ \A x \in DOMAIN w : child[x] = w[x]
  <2>1. CASE child[t] \in Ended
    <3> DEFINE D == DOMAIN drv.saw \cup {t}
    <3>1. D \in SUBSET Tasks
      BY <1>1, <1>6
    <3>2. w \in [D -> Ended] /\ DOMAIN w = D
      BY <1>6, <2>1
    <3>3. \A x \in D : child[x] = w[x]
      BY <1>5, <2>1
    <3> HIDE DEF w, D
    <3> QED
      BY <3>1, <3>2, <3>3 DEF Seen
  <2>2. CASE child[t] \notin Ended
    BY <1>5, <2>2, Ranges
  <2> QED
    BY <2>1, <2>2
<1> HIDE DEF w
<1>8. drv' \in Drives /\ drv'.pc = "observe" /\ drv'.saw = w /\ drv'.proj = drv.proj
  BY <1>1, <1>3, <1>4, <1>7, Ranges, Sees
<1>9. InFlightBounded' /\ (Enough => Enough')
  BY <1>2, SameJournal
<1>10. Types' /\ Creation'
  BY <1>2, <1>8 DEF IInv, Types, Creation, Styles, Waits
<1>11. Phase'
  BY <1>2, <1>3, <1>8 DEF Phase
<1>12. Working'
  BY <1>2, <1>5, <1>7, <1>8, <1>9 DEF Working
<1>13. Verdict'
  BY <1>2, <1>3, <1>8, <1>9 DEF IInv, Verdict
<1> QED
  BY <1>9, <1>10, <1>11, <1>12, <1>13 DEF IInv

LEMMA RecordTerminalKeeps ==
    ASSUME IInv, RecordTerminal
    PROVE  IInv'
<1> DEFINE news == {t \in DOMAIN drv.saw : rec[t] = "active"}
<1>1. UNCHANGED <<style, node, wait, canc, gate, cgate, timer, late, child, born, faults>>
  BY DEF RecordTerminal, store, children
<1>2. drv.pc = "observe" /\ node = "wait"
  BY DEF RecordTerminal, IInv, Phase
<1>3. /\ \A x \in DOMAIN drv.saw : child[x] = drv.saw[x]
      /\ drv.proj.disp # "none" /\ (drv.proj.disp = "completed" => Enough)
  BY <1>2 DEF IInv, Working
<1>4. DOMAIN drv.saw \subseteq Tasks /\ \A x \in DOMAIN drv.saw : drv.saw[x] \in Ended
  BY Ranges, SeenAbout
<1>5. CASE news # {}
  <2> DEFINE t == First(news)
             e == drv.saw[t]
  <2>1. t \in news /\ t \in Tasks
    BY <1>4, <1>5, FirstTask
  <2>2. rec' = [rec EXCEPT ![t] = e] /\ drv' = drv
    BY <1>5 DEF RecordTerminal
  <2>3. rec[t] = "active" /\ e \in Ended /\ child[t] = e
    BY <1>3, <1>4, <2>1
  <2> HIDE DEF t, e, news
  <2>4. e \in Records
    BY <2>3 DEF Records
  <2>5. /\ rec' \in [Tasks -> Records] /\ rec'[t] = e
        /\ \A x \in Tasks : x # t => rec'[x] = rec[x]
    BY <2>1, <2>2, <2>4, Ranges, Moves
  <2>6. Types'
    BY <1>1, <2>2, <2>5 DEF IInv, Types, Styles, Waits
  <2>7. Creation'
    BY <1>1, <2>3, <2>5 DEF IInv, Creation, Ended
  <2>8. InFlightBounded' /\ (Enough => Enough')
    BY <1>1, <2>3, <2>5, Ranges, EnoughStays, FlightStays DEF IInv, Ended
  <2>9. Phase'
    BY <1>1, <1>2, <2>2 DEF Phase
  <2>10. Working'
    BY <1>1, <1>2, <1>3, <2>2, <2>8 DEF Working
  <2>11. Verdict'
    BY <1>1, <1>2, <2>2, <2>8 DEF IInv, Verdict
  <2> QED
    BY <2>6, <2>7, <2>8, <2>9, <2>10, <2>11 DEF IInv
<1>6. CASE news = {}
  <2>1. End("waiting") /\ UNCHANGED rec
    BY <1>6 DEF RecordTerminal
  <2> QED
    BY <1>1, <1>2, <2>1, EndKeeps DEF parent, store, children, Results
<1> QED
  BY <1>5, <1>6

LEMMA ProjectKeeps ==
    ASSUME IInv, Project
    PROVE  IInv'
<1>1. UNCHANGED <<style, node, rec, canc, gate, cgate, timer, late, child, born, faults>>
  BY DEF Project, store, children
<1>2. drv.pc = "observe" /\ node = "wait"
  BY DEF Project, IInv, Phase
<1>3. drv.proj.disp # "none" /\ (drv.proj.disp = "completed" => Enough)
  BY <1>2 DEF IInv, Working
<1>4. drv.proj \in Waits /\ drv.proj.disp \in {"none", "waiting", "completed", "failed"}
  BY Ranges DEF Waits
<1>5. InFlightBounded' /\ (Enough => Enough')
  BY <1>1, SameJournal
<1>6. CASE /\ wait.disp \in {"none", "waiting"} \/ wait = drv.proj
           /\ wait' = drv.proj
           /\ CASE drv.proj.disp = "waiting"   -> End("waiting")
                [] drv.proj.disp = "completed" -> End("applied")
                [] drv.proj.disp = "failed" /\ drv.proj.kids = {} -> End("failed")
                [] OTHER -> Goto("outbox", {})
  <2>1. /\ drv' \in Drives
        /\ \/ drv'.pc = "return" /\ (drv'.ret = "applied" => drv.proj.disp = "completed")
           \/ drv'.pc = "outbox" /\ drv.proj.disp = "failed"
    <3>1. \/ \E r \in Results : End(r) /\ (r = "applied" => drv.proj.disp = "completed")
          \/ Goto("outbox", {}) /\ drv.proj.disp = "failed"
      <4>1. CASE drv.proj.disp = "waiting"
        BY <1>6, <4>1 DEF Results
      <4>2. CASE drv.proj.disp = "completed"
        BY <1>6, <4>2 DEF Results
      <4>3. CASE drv.proj.disp = "failed" /\ drv.proj.kids = {}
        BY <1>6, <4>3 DEF Results
      <4>4. CASE drv.proj.disp = "failed" /\ drv.proj.kids # {}
        BY <1>6, <4>4
      <4> QED
        BY <1>3, <1>4, <4>1, <4>2, <4>3, <4>4
    <3>2. CASE \E r \in Results : End(r) /\ (r = "applied" => drv.proj.disp = "completed")
      <4>1. PICK r \in Results : End(r) /\ (r = "applied" => drv.proj.disp = "completed")
        BY <3>2
      <4> QED
        BY <4>1, Ranges, Ends
    <3>3. CASE Goto("outbox", {}) /\ drv.proj.disp = "failed"
      BY <3>3, Ranges, Goes DEF Places
    <3> QED
      BY <3>1, <3>2, <3>3
  <2>2. Types' /\ Creation'
    BY <1>1, <1>4, <1>6, <2>1 DEF IInv, Types, Creation, Styles
  <2>3. Phase'
    BY <1>1, <1>2, <1>6, <2>1 DEF Phase
  <2>4. Working'
    BY <2>1 DEF Working
  <2>5. Verdict'
    BY <1>1, <1>2, <1>3, <1>5, <1>6, <2>1 DEF IInv, Verdict
  <2> QED
    BY <1>5, <2>2, <2>3, <2>4, <2>5 DEF IInv
<1>7. CASE End("error") /\ UNCHANGED wait
  BY <1>1, <1>2, <1>7, EndKeeps DEF parent, store, children, Results
<1> QED
  BY <1>6, <1>7 DEF Project

\* A step of the outbox: the cancellation's record and the drive move.
LEMMA OutboxKeeps ==
    ASSUME IInv, drv.pc \in {"outbox", "cancel", "reconcile"},
           UNCHANGED <<style, node, rec, wait, gate, timer, late, born, faults>>,
           canc' \in {"none", "requested", "authorized", "dispatched", "completed", "ambiguous"},
           cgate' \in Gates, child' \in [Tasks -> {"none", "active"} \cup Ended],
           \A t \in Tasks : child[t] \in Ended => child'[t] = child[t],
           drv' \in Drives,
           \/ drv'.pc \in {"outbox", "cancel", "reconcile"}
           \/ drv'.pc = "return" /\ drv'.ret # "applied",
           canc' = "completed" => canc = "completed" \/ \A t \in wait.kids : child'[t] = "cancelled"
    PROVE  IInv'
<1>1. InFlightBounded' /\ (Enough => Enough')
  BY SameJournal
<1>2. node = "wait" /\ wait.disp = "failed" /\ wait.kids \subseteq Tasks
  BY DEF IInv, Phase, Verdict, Types, Waits
<1>3. Types'
  BY DEF IInv, Types, Styles, Waits
<1>4. Creation'
  BY DEF IInv, Creation, Ended
<1>5. Phase' /\ Working'
  BY <1>2 DEF Phase, Working
<1>6. canc' = "completed" => \A t \in wait.kids : child'[t] = "cancelled"
  BY <1>2 DEF IInv, Verdict, Ended
<1>7. Verdict'
  BY <1>1, <1>2, <1>6 DEF Verdict
<1> QED
  BY <1>1, <1>3, <1>4, <1>5, <1>7 DEF IInv

LEMMA RequestCancellationKeeps ==
    ASSUME IInv, RequestCancellation
    PROVE  IInv'
<1>1. /\ cgate \in Gates /\ child \in [Tasks -> {"none", "active"} \cup Ended] /\ drv \in Drives
  BY DEF IInv, Types
<1> QED
  BY <1>1, OutboxKeeps DEF RequestCancellation, store, children

LEMMA AuthorizeCancellationKeeps ==
    ASSUME IInv, AuthorizeCancellation
    PROVE  IInv'
<1>1. /\ cgate \in Gates /\ child \in [Tasks -> {"none", "active"} \cup Ended] /\ drv \in Drives
  BY DEF IInv, Types
<1>2. /\ drv.pc = "outbox" /\ canc = "requested"
      /\ UNCHANGED <<style, node, rec, wait, gate, timer, late, child, born, faults>>
  BY DEF AuthorizeCancellation, children
<1>3. PICK v \in Verdicts(cgate) :
          /\ cgate' = IF v = "ask" THEN "pending" ELSE cgate
          /\ canc' = IF v = "applied" THEN "authorized" ELSE canc
          /\ CASE v = "applied" -> UNCHANGED drv
               [] v \in {"ask", "waiting"} -> End("approval")
               [] v = "denied" -> End("denied")
  BY DEF AuthorizeCancellation
<1>4. v \in {"applied", "ask", "denied", "waiting"}
  BY <1>1 DEF Verdicts, Gates
<1>5. cgate' \in Gates /\ canc' \in {"requested", "authorized"}
  BY <1>1, <1>2, <1>3 DEF Gates
<1>6. drv' = drv \/ \E r \in {"approval", "denied"} : End(r)
  BY <1>3, <1>4
<1>7. drv' \in Drives /\ (drv'.pc = "outbox" \/ (drv'.pc = "return" /\ drv'.ret # "applied"))
  <2>1. CASE drv' = drv
    BY <1>1, <1>2, <2>1
  <2>2. CASE \E r \in {"approval", "denied"} : End(r)
    <3>1. PICK r \in {"approval", "denied"} : End(r)
      BY <2>2
    <3> QED
      BY <1>1, <3>1, Ends DEF Results
  <2> QED
    BY <1>6, <2>1, <2>2
<1> QED
  BY <1>1, <1>2, <1>5, <1>7, OutboxKeeps

LEMMA DispatchCancellationKeeps ==
    ASSUME IInv, DispatchCancellation
    PROVE  IInv'
<1>1. /\ cgate \in Gates /\ child \in [Tasks -> {"none", "active"} \cup Ended] /\ drv \in Drives
      /\ wait.kids \in SUBSET Tasks
  BY DEF IInv, Types, Waits
<1>2. drv' \in Drives /\ drv'.pc = "cancel"
  BY <1>1, Goes DEF DispatchCancellation, Places
<1> QED
  BY <1>1, <1>2, OutboxKeeps DEF DispatchCancellation, store, children

LEMMA RecoverCancellationKeeps ==
    ASSUME IInv, RecoverCancellation
    PROVE  IInv'
<1>1. /\ cgate \in Gates /\ child \in [Tasks -> {"none", "active"} \cup Ended] /\ drv \in Drives
  BY DEF IInv, Types
<1>2. Goto("reconcile", {}) \/ \E r \in {"failed", "ambiguous"} : End(r)
  BY DEF RecoverCancellation
<1>3. drv' \in Drives /\ (drv'.pc = "reconcile" \/ (drv'.pc = "return" /\ drv'.ret # "applied"))
  <2>1. CASE Goto("reconcile", {})
    BY <1>1, <2>1, Goes DEF Places
  <2>2. CASE \E r \in {"failed", "ambiguous"} : End(r)
    <3>1. PICK r \in {"failed", "ambiguous"} : End(r)
      BY <2>2
    <3> QED
      BY <1>1, <3>1, Ends DEF Results
  <2> QED
    BY <1>2, <2>1, <2>2
<1> QED
  BY <1>1, <1>3, OutboxKeeps DEF RecoverCancellation, parent, store, children

LEMMA CancelChildKeeps ==
    ASSUME IInv, CancelChild
    PROVE  IInv'
<1> DEFINE t == First(drv.todo)
<1>1. t \in drv.todo /\ t \in Tasks
  BY Ranges, FirstTask DEF CancelChild
<1>2. /\ cgate \in Gates /\ child \in [Tasks -> {"none", "active"} \cup Ended] /\ drv \in Drives
      /\ canc \in {"none", "requested", "authorized", "dispatched", "completed", "ambiguous"}
      /\ drv.todo \ {t} \in SUBSET Tasks
  BY Ranges DEF IInv, Types
<1>3. drv.pc = "cancel" /\ UNCHANGED <<style, node, rec, wait, gate, cgate, timer, late, born, faults>> /\ CancelOne(t)
  BY DEF CancelChild, store
<1> HIDE DEF t
<1>4. CASE child[t] = "active" /\ child' = [child EXCEPT ![t] = "cancelled"] /\ Goto("cancel", drv.todo \ {t}) /\ UNCHANGED canc
  <2>1. drv' \in Drives /\ drv'.pc = "cancel"
    BY <1>2, <1>4, Goes DEF Places
  <2>2. child' \in [Tasks -> {"none", "active"} \cup Ended] /\ \A x \in Tasks : child[x] \in Ended => child'[x] = child[x]
    BY <1>1, <1>2, <1>4 DEF Ended
  <2> QED
    BY <1>2, <1>3, <1>4, <2>1, <2>2, OutboxKeeps
<1>5. CASE canc' = "ambiguous" /\ End("ambiguous") /\ UNCHANGED child
  <2>1. drv' \in Drives /\ drv'.pc = "return" /\ drv'.ret = "ambiguous"
    BY <1>2, <1>5, Ends DEF Results
  <2> QED
    BY <1>2, <1>3, <1>5, <2>1, OutboxKeeps
<1> QED
  BY <1>3, <1>4, <1>5 DEF CancelOne

LEMMA ConcludeCancellationKeeps ==
    ASSUME IInv, ConcludeCancellation
    PROVE  IInv'
<1>1. /\ cgate \in Gates /\ child \in [Tasks -> {"none", "active"} \cup Ended] /\ drv \in Drives
  BY DEF IInv, Types
<1>2. \E r \in {"failed", "ambiguous"} : End(r)
  BY DEF ConcludeCancellation
<1>3. drv' \in Drives /\ drv'.pc = "return" /\ drv'.ret # "applied"
  <2>1. PICK r \in {"failed", "ambiguous"} : End(r)
    BY <1>2
  <2> QED
    BY <1>1, <2>1, Ends DEF Results
<1>4. canc' = "completed" => \A t \in wait.kids : child[t] = "cancelled"
  BY DEF ConcludeCancellation, ReceiptComplete
<1>5. canc' \in {"completed", "ambiguous"}
  BY DEF ConcludeCancellation
<1> QED
  BY <1>1, <1>3, <1>4, <1>5, OutboxKeeps DEF ConcludeCancellation, store, children

-----------------------------------------------------------------------------
(***************************************************************************)
(* The caller and the surroundings keep the invariant                      *)
(***************************************************************************)
\* A drive that is over leaves the journal as it is.
LEMMA ReturnKeeps ==
    ASSUME IInv, Return
    PROVE  IInv'
<1>1. UNCHANGED <<style, rec, wait, canc, gate, cgate, late, child, born, faults>>
  BY DEF Return, children
<1>2. drv' = Off /\ Off \in Drives /\ Off.pc = "idle"
  BY OffTyped DEF Return
<1>3. node \in {"spawn", "wait"} /\ (drv.ret = "applied" /\ node = "wait" => wait.disp = "completed")
  BY DEF Return, IInv, Phase
<1>4. node' \in {"spawn", "wait", "done", "failed"} /\ (node' = "done" => wait.disp = "completed")
  BY <1>3 DEF Return
<1>5. timer' \in Gates \cup {"expired"}
  BY DEF Return, IInv, Types, Gates
<1>6. Types' /\ Creation'
  BY <1>1, <1>2, <1>4, <1>5 DEF IInv, Types, Creation, Styles, Waits
<1>7. Phase' /\ Working'
  BY <1>2 DEF Phase, Working
<1>8. InFlightBounded' /\ (Enough => Enough')
  BY <1>1, SameJournal
<1>9. Verdict'
  BY <1>1, <1>2, <1>4, <1>8 DEF IInv, Verdict
<1> QED
  BY <1>6, <1>7, <1>8, <1>9 DEF IInv

LEMMA DecideCreationKeeps ==
    ASSUME IInv, NEW t \in Tasks, DecideCreation(t)
    PROVE  IInv'
<1>1. drv.pc = "idle" /\ UNCHANGED <<style, node, rec, wait, canc, cgate, timer, late, child, born, drv, faults>>
  BY DEF DecideCreation, parent, children
<1>2. PICK a \in {"resumed", "cancelled"} : gate[t] = "pending" /\ gate' = [gate EXCEPT ![t] = a]
  BY DEF DecideCreation, Answers
<1>3. gate \in [Tasks -> Gates]
  BY DEF IInv, Types
<1>4. gate' \in [Tasks -> Gates] /\ \A x \in Tasks : x # t => gate'[x] = gate[x]
  BY <1>2, <1>3 DEF Gates
<1>5. Types'
  BY <1>1, <1>4 DEF IInv, Types, Styles, Waits
<1>6. Creation'
  BY <1>1, <1>2, <1>4 DEF IInv, Creation, Consent, Ended
<1>7. Phase' /\ Working'
  BY <1>1 DEF IInv, Phase, Working
<1>8. InFlightBounded' /\ (Enough => Enough')
  BY <1>1, SameJournal
<1>9. Verdict'
  BY <1>1, <1>8 DEF IInv, Verdict
<1> QED
  BY <1>5, <1>6, <1>7, <1>8, <1>9 DEF IInv

\* A step outside the drive that leaves the journal and the children alone.
LEMMA OutsideKeeps ==
    ASSUME IInv, UNCHANGED <<style, node, rec, wait, canc, gate, child, born, drv, faults>>,
           timer' \in Gates \cup {"expired"}, late' \in BOOLEAN, cgate' \in Gates
    PROVE  IInv'
<1>1. Types' /\ Creation' /\ Phase'
  BY DEF IInv, Types, Creation, Phase, Styles, Waits
<1>2. /\ \A x : With(x)' = With(x)
      /\ InFlight' = InFlight /\ InFlightBounded' /\ (Enough => Enough')
  BY SameJournal
<1>3. Fits => Fits'
  BY <1>2 DEF Fits
<1>4. Working'
  BY <1>2, <1>3 DEF IInv, Working
<1>5. Verdict'
  BY <1>2 DEF IInv, Verdict
<1> QED
  BY <1>1, <1>2, <1>4, <1>5 DEF IInv

LEMMA ChildEndsKeeps ==
    ASSUME IInv, NEW t \in Tasks, ChildEnds(t)
    PROVE  IInv'
<1>1. UNCHANGED <<style, node, rec, wait, canc, gate, cgate, timer, late, born, drv, faults>>
  BY DEF ChildEnds, parent, store
<1>2. PICK e \in Ended : child' = [child EXCEPT ![t] = e]
  BY DEF ChildEnds
<1>3. child \in [Tasks -> {"none", "active"} \cup Ended] /\ child[t] = "active"
  BY DEF IInv, Types, ChildEnds
<1>4. /\ child' \in [Tasks -> {"none", "active"} \cup Ended]
      /\ \A x \in Tasks : child[x] \in Ended => child'[x] = child[x]
  BY <1>2, <1>3 DEF Ended
<1>5. Types'
  BY <1>1, <1>4 DEF IInv, Types, Styles, Waits
<1>6. Creation'
  BY <1>1, <1>4 DEF IInv, Creation, Ended
<1>7. Phase'
  BY <1>1 DEF IInv, Phase
<1>8. /\ \A x : With(x)' = With(x)
      /\ InFlight' = InFlight /\ InFlightBounded' /\ (Enough => Enough')
  BY <1>1, SameJournal
<1>9. Fits => Fits'
  BY <1>1, <1>8 DEF Fits
<1>10. DOMAIN drv.saw \subseteq Tasks /\ \A x \in DOMAIN drv.saw : drv.saw[x] \in Ended
  BY Ranges, SeenAbout
<1>11. Working'
  BY <1>1, <1>4, <1>8, <1>9, <1>10 DEF IInv, Working
<1>12. wait.kids \subseteq Tasks
  BY DEF IInv, Types, Waits
<1>13. Verdict'
  BY <1>1, <1>4, <1>8, <1>12 DEF IInv, Verdict, Ended
<1> QED
  BY <1>5, <1>6, <1>7, <1>8, <1>11, <1>13 DEF IInv

LEMMA CrashKeeps ==
    ASSUME IInv, Crash
    PROVE  IInv'
<1>1. UNCHANGED <<style, node, rec, wait, canc, gate, cgate, timer, late, child, born>>
  BY DEF Crash, parent, store, children
<1>2. drv' = Off /\ Off \in Drives /\ Off.pc = "idle"
  BY OffTyped DEF Crash
<1>3. faults' \in 0..MaxFaults
  BY ChildGraphAssumption DEF Crash, IInv, Types
<1>4. Types' /\ Creation'
  BY <1>1, <1>2, <1>3 DEF IInv, Types, Creation, Styles, Waits
<1>5. Phase' /\ Working'
  BY <1>2 DEF Phase, Working
<1>6. InFlightBounded' /\ (Enough => Enough')
  BY <1>1, SameJournal
<1>7. Verdict'
  BY <1>1, <1>2, <1>6 DEF IInv, Verdict
<1> QED
  BY <1>4, <1>5, <1>6, <1>7 DEF IInv

LEMMA StutterKeeps ==
    ASSUME IInv, UNCHANGED vars
    PROVE  IInv'
<1>1. timer \in Gates \cup {"expired"} /\ late \in BOOLEAN /\ cgate \in Gates
  BY DEF IInv, Types
<1> QED
  BY <1>1, OutsideKeeps DEF vars, parent, store, children

LEMMA SurroundingsKeep ==
    ASSUME IInv, DecideCancellation \/ CancelTurn \/ Timeout
    PROVE  IInv'
<1>1. timer \in Gates \cup {"expired"} /\ late \in BOOLEAN /\ cgate \in Gates
  BY DEF IInv, Types
<1>2. CASE DecideCancellation
  <2>1. cgate' \in Gates
    BY <1>2 DEF DecideCancellation, Answers, Gates
  <2> QED
    BY <1>1, <1>2, <2>1, OutsideKeeps DEF DecideCancellation, parent, children
<1>3. CASE CancelTurn
  BY <1>1, <1>3, OutsideKeeps DEF CancelTurn, parent, children, Gates
<1>4. CASE Timeout
  BY <1>1, <1>4, OutsideKeeps DEF Timeout, parent, store, children
<1> QED
  BY <1>2, <1>3, <1>4

-----------------------------------------------------------------------------
(***************************************************************************)
(* The theorems                                                            *)
(***************************************************************************)
LEMMA Initially ==
    ASSUME Init
    PROVE  IInv
<1>1. drv = Off /\ Off \in Drives /\ Off.pc = "idle" /\ NoWait \in Waits
  BY OffTyped DEF Init
<1>2. Types
  <2>1. style \in Styles /\ faults \in 0..MaxFaults /\ drv \in Drives /\ wait \in Waits
    BY <1>1, ChildGraphAssumption DEF Init, Styles
  <2>2. rec \in [Tasks -> Records] /\ gate \in [Tasks -> Gates]
    BY DEF Init, Records, Gates
  <2>3. child \in [Tasks -> {"none", "active"} \cup Ended] /\ born \in [Tasks -> {0, 1}]
    BY DEF Init
  <2>4. /\ node = "spawn" /\ timer = "none" /\ late \in BOOLEAN /\ canc = "none" /\ cgate = "none"
    BY DEF Init
  <2> QED
    BY <2>1, <2>2, <2>3, <2>4 DEF Types, Gates
<1>3. Creation
  BY DEF Init, Creation, Ended
<1>4. Phase /\ Working
  BY <1>1 DEF Phase, Working
<1>5. Verdict
  BY <1>1 DEF Init, Verdict, NoWait
<1>6. InFlightBounded
  <2>1. InFlight = {}
    BY DEF Init, InFlight
  <2>2. Cardinality(InFlight) = 0
    BY <2>1, FS_EmptySet
  <2>3. style.limit \in Limits
    BY <1>2 DEF Types, Styles
  <2>4. style.limit \in Nat
    BY <2>3, ChildGraphAssumption
  <2>5. Cardinality(InFlight) <= style.limit
    BY <2>2, <2>4
  <2> QED
    BY <2>5 DEF InFlightBounded, InFlight
<1> QED
  BY <1>2, <1>3, <1>4, <1>5, <1>6 DEF IInv

LEMMA StepKeeps ==
    ASSUME IInv, [Next]_vars
    PROVE  IInv'
<1>1. CASE SpawnStep
  BY <1>1, ProposeKeeps, AuthorizeCreationKeeps, ApproveKeeps, DispatchKeeps, CreateChildKeeps,
     RecordCreatedKeeps DEF SpawnStep
<1>2. CASE WaitStep
  BY <1>2, ObserveKeeps, RecordTerminalKeeps, ProjectKeeps, RequestCancellationKeeps,
     AuthorizeCancellationKeeps, DispatchCancellationKeeps, RecoverCancellationKeeps,
     CancelChildKeeps, ConcludeCancellationKeeps DEF WaitStep
<1>3. CASE \E t \in Tasks : DecideCreation(t) \/ ChildEnds(t)
  BY <1>3, DecideCreationKeeps, ChildEndsKeeps
<1>4. CASE Next
  BY <1>1, <1>2, <1>3, <1>4, DriveKeeps, ReturnKeeps, SurroundingsKeep, CrashKeeps
     DEF Next, CoordinatorStep
<1> QED
  BY <1>4, StutterKeeps

\* The inductive invariant holds in every reachable state: what the drive took
\* from the parent's records is still so when it acts on it.
THEOREM Inductive == Spec => []IInv
BY Initially, StepKeeps, PTL DEF Spec

\* The records, the continuations, the children and the drive stay in the
\* enumerations of session.rs and child_graph_turn.rs.
THEOREM TypeCorrect == Spec => []TypeOK
<1>1. ASSUME IInv PROVE TypeOK
  <2>1. \A n \in {0, 1} : n \in Nat
    OBVIOUS
  <2> QED
    BY <1>1, <2>1 DEF IInv, Types, TypeOK, Styles, Records, Waits, Drives, Places
<1> QED
  BY <1>1, Inductive, PTL

\* However many crashes and retries lie between proposal and receipt, a task
\* has at most one child session, behind its dispatch and its consent.
THEOREM SessionsAreSingle == Spec => []OneSessionPerTask
<1>1. ASSUME IInv PROVE OneSessionPerTask
  <2>1. SUFFICES ASSUME NEW t \in Tasks
                 PROVE  /\ born[t] <= 1
                        /\ born[t] = 1 => /\ rec[t] \in {"dispatched", "active"} \cup Ended
                                          /\ gate[t] \in {"none", "resumed"}
    BY DEF OneSessionPerTask
  <2>2. born[t] \in {0, 1}
    BY <1>1 DEF IInv, Types
  <2>3. born[t] = 1 => rec[t] \in {"dispatched", "active"} \cup Ended /\ gate[t] \in Consent
    BY <1>1 DEF IInv, Creation
  <2> QED
    BY <2>2, <2>3 DEF Consent
<1> QED
  BY <1>1, Inductive, PTL

\* max_concurrent bounds the children in flight, over all drives and crashes.
THEOREM ConcurrencyIsBounded == Spec => []InFlightBounded
<1>1. ASSUME IInv PROVE InFlightBounded
  BY <1>1 DEF IInv
<1> QED
  BY <1>1, Inductive, PTL

\* What the parent concludes about its children is true of them.
THEOREM ConclusionsAreTrue == Spec => []VerdictsTrue
<1>1. ASSUME IInv PROVE VerdictsTrue
  <2> DEFINE Won == {t \in Tasks : child[t] = "completed"}
  <2>1. \A t \in Tasks : rec[t] \in Ended => child[t] = rec[t]
    BY <1>1 DEF IInv, Creation
  <2>2. ASSUME wait.disp = "completed" PROVE Cardinality(Won) >= style.minimum
    <3>1. With("completed") \subseteq Won /\ Won \in SUBSET Tasks
      BY <2>1 DEF With, Ended
    <3>2. Cardinality(With("completed")) >= style.minimum
      BY <1>1, <2>2 DEF IInv, Verdict, Enough
    <3>3. Cardinality(With("completed")) <= Cardinality(Won) /\ Cardinality(Won) \in Nat
      BY <3>1, TaskSets
    <3>4. style.minimum \in Int /\ Cardinality(With("completed")) \in Nat
      BY <1>1, Ranges, StyleNumbers, WithIsTasks, TaskSets
    <3> QED
      BY <3>2, <3>3, <3>4
  <2>3. node = "done" => wait.disp = "completed"
    BY <1>1 DEF IInv, Verdict
  <2>4. canc = "completed" => \A t \in wait.kids : child[t] = "cancelled"
    BY <1>1 DEF IInv, Verdict
  <2> QED
    BY <2>1, <2>2, <2>3, <2>4 DEF VerdictsTrue
<1> QED
  BY <1>1, Inductive, PTL

\* A cancellation that races the child's own end loses: no step changes the
\* end of a child.
THEOREM EndsAreFinal == Spec => ChildEndsOnce
<1> DEFINE Final == \A t \in Tasks : child[t] \in Ended => child'[t] = child[t]
<1>1. ASSUME IInv, [Next]_vars PROVE [Final]_child
  <2>1. SUFFICES ASSUME Next, child' # child PROVE Final
    BY <1>1 DEF vars, children
  <2>2. child \in [Tasks -> {"none", "active"} \cup Ended]
    BY <1>1 DEF IInv, Types
  <2>3. CASE CreateChild
    BY <2>1, <2>2, <2>3 DEF CreateChild, Make, ReconcileCreation, children, Ended
  <2>4. CASE CancelChild
    BY <2>1, <2>2, <2>4 DEF CancelChild, CancelOne, Ended
  <2>5. CASE \E t \in Tasks : ChildEnds(t)
    BY <2>2, <2>5 DEF ChildEnds, Ended
  <2>6. CASE SpawnStep /\ ~CreateChild
    BY <2>1, <2>6 DEF SpawnStep, Propose, AuthorizeCreation, Approve, Dispatch, RecordCreated, children
  <2>7. CASE WaitStep /\ ~CancelChild
    BY <2>1, <2>7 DEF WaitStep, Observe, RecordTerminal, Project, RequestCancellation,
       AuthorizeCancellation, DispatchCancellation, RecoverCancellation, ConcludeCancellation, children
  <2>8. CASE Drive \/ Return \/ DecideCancellation \/ CancelTurn \/ Timeout \/ Crash
    BY <2>1, <2>8 DEF Drive, Return, DecideCancellation, CancelTurn, Timeout, Crash, children
  <2>9. CASE \E t \in Tasks : DecideCreation(t)
    BY <2>1, <2>9 DEF DecideCreation, children
  <2> QED
    BY <2>1, <2>3, <2>4, <2>5, <2>6, <2>7, <2>8, <2>9 DEF Next, CoordinatorStep
<1> QED
  BY <1>1, Inductive, PTL DEF Spec, ChildEndsOnce
=============================================================================
