---------------------------- MODULE MCBridgeQueue ----------------------------
(* BridgeQueue on small instances: users are interchangeable, and so are   *)
(* executors that play the same parts.                                     *)
EXTENDS BridgeQueue, TLC

Symmetry == Permutations(User) \cup Permutations(Topic)
            \cup Permutations(Drain \ Cli) \cup Permutations(Drain \cap Cli)
=============================================================================
