----------------------------- MODULE MCJournal -----------------------------
(***************************************************************************)
(* Two writers, four events, two recoveries: enough for a lost race, a    *)
(* torn append behind a valid frame, a recovery that crashes and is        *)
(* repeated, and a power loss that garbles one frame and spares the next.  *)
(***************************************************************************)
EXTENDS Journal, TLC

Symmetry == Permutations(Writers) \cup Permutations(EventIds) \cup Permutations(Labels)
=============================================================================
