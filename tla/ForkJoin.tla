------------------------------ MODULE ForkJoin ------------------------------
(***************************************************************************)
(* What a fan-out promises, with the journal, the coordinators, the crash  *)
(* and the effects left out.  Every branch is decided once; a cancellation *)
(* decides all undecided branches in one step and is final; the join is    *)
(* taken once, from the decisions of all branches, and hands on the        *)
(* contributions of exactly the successful ones.                           *)
(***************************************************************************)
CONSTANTS
    Branches,   \* members of the fan-out
    Verdict(_)  \* what the join policy makes of the decisions: "ready" or "failed"

VARIABLES
    decided,    \* decision on each branch
    phase,      \* "running", "cancelled", "joined" or "failed"
    handed      \* branches whose contribution was handed on

vars == <<decided, phase, handed>>

Init ==
    /\ decided = [b \in Branches |-> "pending"]
    /\ phase = "running"
    /\ handed = {}

AllDecided == \A b \in Branches : decided[b] # "pending"

Decide(b) ==
    /\ phase = "running"
    /\ decided[b] = "pending"
    /\ \E d \in {"completed", "failed"} : decided' = [decided EXCEPT ![b] = d]
    /\ UNCHANGED <<phase, handed>>

CancelAll ==
    /\ phase = "running"
    /\ decided' = [b \in Branches |-> IF decided[b] = "pending" THEN "cancelled" ELSE decided[b]]
    /\ phase' = "cancelled"
    /\ UNCHANGED handed

TakeJoin ==
    /\ phase = "running"
    /\ AllDecided
    /\ phase' = IF Verdict(decided) = "ready" THEN "joined" ELSE "failed"
    /\ UNCHANGED <<decided, handed>>

HandOn ==
    /\ phase = "joined"
    /\ handed = {}
    /\ handed' = {b \in Branches : decided[b] = "completed"}
    /\ UNCHANGED <<decided, phase>>

Next ==
    \/ \E b \in Branches : Decide(b)
    \/ CancelAll
    \/ TakeJoin
    \/ HandOn

Spec == Init /\ [][Next]_vars
=============================================================================
