---------------------------- MODULE MCEmailOutbox ----------------------------
(* EmailOutbox on small instances: drainers are interchangeable.           *)
EXTENDS EmailOutbox, TLC

Symmetry == Permutations(Drainer)
=============================================================================
