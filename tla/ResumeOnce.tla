---------------------------- MODULE ResumeOnce ----------------------------
(***************************************************************************)
(* What a continuation promises, whatever stores it: a gate that is opened *)
(* once, leaves the pending state at most once, and tells at most one      *)
(* caller that it was the one who moved it.                                *)
(*                                                                         *)
(*   core/continuation/src/lib.rs   ResumeOnce: from_state, transition     *)
(***************************************************************************)
EXTENDS Naturals, Sequences

CONSTANT Conts          \* continuation identities

TerminalStates == {"resumed", "cancelled", "expired"}
GateStates == {"absent", "pending"} \cup TerminalStates

VARIABLES gate,         \* the state of each continuation
          winners       \* every answer "you moved it", with the state it reports

gateVars == <<gate, winners>>

GateInit ==
    /\ gate = [c \in Conts |-> "absent"]
    /\ winners = [c \in Conts |-> <<>>]

\* ResumeOnce::pending, reached through the durable create.
Open(c) ==
    /\ gate[c] = "absent"
    /\ gate' = [gate EXCEPT ![c] = "pending"]
    /\ UNCHANGED winners

\* The compare-exchange from PENDING to a terminal state.
Transition(c, target) ==
    /\ gate[c] = "pending"
    /\ gate' = [gate EXCEPT ![c] = target]
    /\ UNCHANGED winners

\* The caller of the exchange that succeeded learns so, and it is the only one:
\* an answer to a second caller is no step of the gate.  A store that crashes
\* after the exchange never tells anybody.
TellWinner(c) ==
    /\ gate[c] \in TerminalStates
    /\ winners[c] = <<>>
    /\ winners' = [winners EXCEPT ![c] = <<gate[c]>>]
    /\ UNCHANGED gate

GateNext ==
    \E c \in Conts :
        \/ Open(c)
        \/ \E target \in TerminalStates : Transition(c, target)
        \/ TellWinner(c)

GateSpec == GateInit /\ [][GateNext]_gateVars
=============================================================================
