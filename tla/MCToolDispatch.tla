--------------------------- MODULE MCToolDispatch ---------------------------
(***************************************************************************)
(* Two daemons and a batch of three calls: one that needs an approval, one *)
(* that the policy rejects, one that runs at once.  A stream of three      *)
(* events lets a crash fall before, between and after its events.          *)
(***************************************************************************)
EXTENDS ToolDispatch, TLC

Symmetry == Permutations(Runtimes)
=============================================================================
