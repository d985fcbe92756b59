----------------------------- MODULE MCSessions -----------------------------
(* Sessions on small instances: request handlers are interchangeable.      *)
EXTENDS Sessions, TLC

Symmetry == Permutations(Request)
=============================================================================
