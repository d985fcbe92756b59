------------------------- MODULE MCEmailVerification -------------------------
(* EmailVerification on small instances: users, addresses and request      *)
(* handlers are interchangeable.                                           *)
EXTENDS EmailVerification, TLC

Symmetry == Permutations(User) \cup Permutations(Email) \cup Permutations(Request)
=============================================================================
