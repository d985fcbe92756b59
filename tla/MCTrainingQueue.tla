--------------------------- MODULE MCTrainingQueue ---------------------------
(* Instances of TrainingQueue for TLC.                                     *)
EXTENDS TrainingQueue, TLC

Symmetry == Permutations(User) \cup Permutations(Worker)
=============================================================================
