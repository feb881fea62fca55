---------------------------- MODULE MCPluginHost ----------------------------
(* A small plugin host: two request slots, two deliveries for a queue of    *)
(* one, one invocation with a retry, a state write, its successor and a     *)
(* read between them.                                                      *)
EXTENDS PluginHost, TLC

CONSTANTS s1, s2, d1, d2, i1, w1, w2, r1

MCPrior == (w1 :> None) @@ (w2 :> w1)
MCExpected == r1 :> w1

Symmetry == Permutations(Permits) \cup Permutations(Deliveries)
=============================================================================
