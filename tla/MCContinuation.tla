--------------------------- MODULE MCContinuation ---------------------------
(***************************************************************************)
(* One continuation of each kind and two callers, so that a waker and a    *)
(* canceller can both hold a stale decision about the same record; a       *)
(* lookup limit of two, so that the third record passes it.                *)
(***************************************************************************)
EXTENDS Continuation, TLC

Symmetry == Permutations(Callers)
=============================================================================
