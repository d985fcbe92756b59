---------------------------- MODULE LearnContent ----------------------------
(***************************************************************************)
(* The authored content of the two learn flows: the chapters and scenes of *)
(* each walkthrough, the ladder of its closing page, and the rules the      *)
(* suites hold them to (content/walkthrough/checks.ts and                   *)
(* content/abstraction/checks.ts).  Words, source text and drawings are     *)
(* left out.  What stays is what the player and the closing page compute    *)
(* with: which scene follows which, for how long, in which chapter, what    *)
(* its stage is, where its code comes from, and what each rung of the       *)
(* ladder decided for the reader.                                           *)
(***************************************************************************)
EXTENDS Integers, Sequences, SequencesExt, FiniteSets

(* One scene.  of is the rest of the stage ("" when the kind says it all),  *)
(* code the file its code panel slices, "aside" or "none".                  *)
Scene(id, chapter, seconds, kind, of, code) ==
  [id |-> id, chapter |-> chapter, seconds |-> seconds,
   kind |-> kind, of |-> of, code |-> code]

Step0Chapters == <<"overview", "math", "logistic_regression", "main">>

Step0Scenes == <<
  Scene("overview-inputs", "overview", 14, "neuron", "inputs", "none"),
  Scene("overview-weights", "overview", 16, "neuron", "weights", "none"),
  Scene("overview-sum", "overview", 14, "neuron", "sum", "none"),
  Scene("overview-bias", "overview", 12, "neuron", "bias", "none"),
  Scene("overview-sigmoid", "overview", 18, "neuron", "sigmoid", "none"),
  Scene("overview-why-nonlinear", "overview", 24, "neuron", "all", "none"),
  Scene("overview-plan", "overview", 14, "neuron", "all", "none"),
  Scene("math-sigmoid-formula", "math", 20, "sigmoid", "", "none"),
  Scene("math-sigmoid-code", "math", 22, "sigmoid", "", "math.hpp"),
  Scene("math-sigmoid-derivative", "math", 26, "sigmoid", "derivative", "none"),
  Scene("math-dot-formula", "math", 18, "neuron", "sum", "none"),
  Scene("math-dot-numpy", "math", 18, "neuron", "sum", "aside"),
  Scene("math-dot-code", "math", 24, "neuron", "sum", "math.hpp"),
  Scene("logreg-init", "logistic_regression", 26, "sigmoid", "", "logistic_regression.hpp"),
  Scene("logreg-forward", "logistic_regression", 22, "neuron", "all", "logistic_regression.hpp"),
  Scene("logreg-loss-math", "logistic_regression", 26, "bceLoss", "", "none"),
  Scene("logreg-loss-clamp", "logistic_regression", 22, "bceLoss", "", "logistic_regression.hpp"),
  Scene("logreg-derivative", "logistic_regression", 28, "none", "", "none"),
  Scene("logreg-cancellation", "logistic_regression", 32, "none", "", "none"),
  Scene("logreg-gradient-code", "logistic_regression", 30, "none", "", "logistic_regression.hpp"),
  Scene("logreg-update", "logistic_regression", 22, "none", "", "logistic_regression.hpp"),
  Scene("logreg-learning-rate", "logistic_regression", 24, "learningRate", "", "none"),
  Scene("main-epoch", "main", 24, "neuron", "all", "main.cpp"),
  Scene("main-training-tiny", "main", 34, "training", "tiny", "none"),
  Scene("main-accuracy", "main", 18, "training", "tiny", "main.cpp"),
  Scene("main-xor-points", "main", 22, "xor", "", "none"),
  Scene("main-xor-boundary", "main", 30, "xor", "boundary", "none"),
  Scene("main-xor-training", "main", 28, "training", "xor", "none"),
  Scene("main-next", "main", 24, "none", "", "none") >>

Step1Chapters == <<"overview", "matrix", "math", "layer", "mlp", "main">>

(* Stacking neurons, matrix.hpp and math.hpp: what a network needs.         *)
Step1Parts == <<
  Scene("overview-stack", "overview", 22, "mlp", "", "none"),
  Scene("overview-xor", "overview", 24, "xorTransform", "", "none"),
  Scene("overview-transform", "overview", 28, "xorTransform", "moved", "none"),
  Scene("overview-plan", "overview", 16, "mlpStack", "", "none"),
  Scene("matrix-why", "matrix", 24, "mlpStack", "", "none"),
  Scene("matrix-flat", "matrix", 26, "matrixFlat", "", "none"),
  Scene("matrix-matmul", "matrix", 30, "matrixIndex", "", "matrix.hpp"),
  Scene("matrix-bias", "matrix", 24, "matrixOp", "bias", "matrix.hpp"),
  Scene("matrix-inplace", "matrix", 26, "matrixOp", "apply", "matrix.hpp"),
  Scene("math-activations", "math", 26, "activation", "tanh", "none"),
  Scene("math-deriv-trick", "math", 30, "activation", "tanh", "math.hpp"),
  Scene("math-relu", "math", 18, "activation", "relu", "none"),
  Scene("math-softmax", "math", 30, "loss", "softmax", "math.hpp"),
  Scene("math-softmax-stability", "math", 24, "none", "", "none"),
  Scene("math-crossentropy", "math", 28, "loss", "crossEntropy", "math.hpp"),
  Scene("math-absorbed", "math", 34, "none", "", "math.hpp"),
  Scene("math-absorbed-why", "math", 26, "none", "", "none") >>

(* layer.hpp, MLP.hpp and main.cpp: the network and its training.           *)
Step1Network == <<
  Scene("layer-holds", "layer", 28, "layerFlow", "forward", "layer.hpp"),
  Scene("layer-forward", "layer", 30, "layerFlow", "forward", "layer.hpp"),
  Scene("layer-cache", "layer", 24, "none", "", "none"),
  Scene("layer-chain", "layer", 32, "layerFlow", "backward", "none"),
  Scene("layer-gradw", "layer", 30, "layerFlow", "backward", "layer.hpp"),
  Scene("layer-gradb", "layer", 24, "none", "", "none"),
  Scene("layer-shapes", "layer", 28, "layerFlow", "backward", "none"),
  Scene("layer-update", "layer", 22, "none", "", "layer.hpp"),
  Scene("mlp-stack", "mlp", 24, "mlpStack", "", "MLP.hpp"),
  Scene("mlp-forward", "mlp", 24, "mlpStack", "", "none"),
  Scene("mlp-backward", "mlp", 30, "mlpStack", "", "MLP.hpp"),
  Scene("mlp-linear", "mlp", 32, "none", "", "none"),
  Scene("mlp-gradcheck", "mlp", 26, "none", "", "none"),
  Scene("main-defaults", "main", 26, "none", "", "main.cpp"),
  Scene("main-xor-works", "main", 26, "xorHidden", "", "none"),
  Scene("main-mnist", "main", 28, "mnist", "", "none"),
  Scene("main-batches", "main", 26, "miniBatch", "", "none"),
  Scene("main-loop", "main", 32, "none", "", "main.cpp"),
  Scene("main-next", "main", 20, "none", "", "none") >>

-----------------------------------------------------------------------------
(* The ladders: per concept, what each rung decided unasked, in verdicts.   *)

Dif == "differs"
Same == "matches"
NoEq == "no-equivalent"

(* Most abstract first; the last is the code the reader wrote.              *)
Rungs == <<"sklearn", "pytorch", "numpy", "cpp">>

(* A concept: its three authored cells, and the cell of real source, given  *)
(* by the files it is sliced from and hiding nothing.                       *)
Concept(slug, sklearn, pytorch, numpy, files) ==
  [slug |-> slug, source |-> files,
   cells |-> [sklearn |-> sklearn, pytorch |-> pytorch, numpy |-> numpy, cpp |-> <<>>]]

Init0 == Concept("init", <<Dif, NoEq>>, <<Dif, Dif>>, <<Same>>, {"logistic_regression.hpp"})
Forward0 == Concept("forward", <<Same, Same>>, <<Same, Dif>>, <<NoEq>>, {"logistic_regression.hpp", "math.hpp"})
Loss0 == Concept("loss", <<Dif, NoEq>>, <<Dif, Same>>, <<NoEq>>, {"logistic_regression.hpp"})
Optimiser0 == Concept("optimiser", <<Dif, NoEq>>, <<Same, Same, Same>>, <<>>, {"logistic_regression.hpp"})
Stopping0 == Concept("stopping", <<Dif, Dif>>, <<Same>>, <<>>, {"main.cpp"})

Init1 == Concept("init", <<Dif, Dif, Dif, Same>>, <<Dif, Dif>>, <<Same>>, {"layer.hpp", "matrix.hpp"})
Forward1 == Concept("forward", <<Dif, NoEq>>, <<Same>>, <<Same>>, {"MLP.hpp", "layer.hpp"})
Loss1 == Concept("loss", <<NoEq, Same>>, <<Same, Same, NoEq>>, <<Same>>, {"math.hpp"})
Backward1 == Concept("backward", <<Dif>>, <<Dif, NoEq>>, <<Dif>>, {"MLP.hpp", "layer.hpp"})
TrainingLoop1 ==
  Concept("training-loop", <<Dif, Dif, Dif, Dif, Same>>, <<Same, Same, NoEq>>, <<Dif>>, {"main.cpp", "layer.hpp"})

-----------------------------------------------------------------------------
(* The registry: what getModelContent answers for a model with content.     *)

Models == {"step0", "step1"}

Chapters == [step0 |-> Step0Chapters, step1 |-> Step1Chapters]
Scenes == [step0 |-> Step0Scenes, step1 |-> Step1Parts \o Step1Network]
Concepts == [step0 |-> <<Init0, Forward0, Loss0, Optimiser0, Stopping0>>,
             step1 |-> <<Init1, Forward1, Loss1, Backward1, TrainingLoop1>>]
Epilogue == "python"

-----------------------------------------------------------------------------
(* The rules of the shared suites.                                          *)

Draws(scene) == scene.kind # "none"

Indices(s) == DOMAIN s

(* Playing time in minutes, as each model's own suite bounds it.            *)
Runtime == [step0 |-> [min |-> 6, max |-> 15], step1 |-> [min |-> 12, max |-> 20]]

WalkthroughChecks(m) ==
  LET scenes == Scenes[m]
      chapters == Chapters[m]
      total == FoldLeft(LAMBDA sum, s : sum + s.seconds, 0, scenes)
      At(c) == {i \in Indices(scenes) : scenes[i].chapter = c}
  IN  /\ Cardinality({scenes[i].id : i \in Indices(scenes)}) = Len(scenes)
      /\ \A i \in Indices(scenes) : \E k \in Indices(chapters) : scenes[i].chapter = chapters[k]
      /\ \A k \in Indices(chapters) : At(chapters[k]) # {}
      \* chapters are contiguous and in rail order
      /\ \A k, l \in Indices(chapters) :
           k < l => \A i \in At(chapters[k]), j \in At(chapters[l]) : i < j
      /\ \A i \in Indices(scenes) : scenes[i].seconds \in 1..60
      /\ total > Runtime[m].min * 60 /\ total < Runtime[m].max * 60
      /\ \E i \in Indices(scenes) : scenes[i].code \notin {"none", "aside"}

(* What one rung decided across the whole ladder, and the closing page's    *)
(* count of it: how many decisions, how many that differ from the code.     *)
Hidden(m, rung) ==
  FoldLeft(LAMBDA all, c : all \o c.cells[rung], <<>>, Concepts[m])

Tally(m, rung) ==
  [total |-> Len(Hidden(m, rung)),
   differs |-> Len(SelectSeq(Hidden(m, rung), LAMBDA v : v = Dif))]

LadderChecks(m) ==
  LET concepts == Concepts[m]
      Verdicts == UNION {ToSet(Hidden(m, Rungs[r])) : r \in Indices(Rungs)}
  IN  /\ Cardinality({concepts[i].slug : i \in Indices(concepts)}) = Len(concepts)
      /\ \A i \in Indices(concepts) :
           /\ DOMAIN concepts[i].cells = ToSet(Rungs)
           /\ concepts[i].cells["cpp"] = <<>> /\ concepts[i].source # {}
           /\ \A r \in Indices(Rungs) : Len(concepts[i].cells[Rungs[r]]) <= 5
      /\ Rungs[1] = "sklearn" /\ Last(Rungs) = "cpp"
      \* a lower rung never hides more than the one above it
      /\ \A r \in 2..Len(Rungs) : Tally(m, Rungs[r]).total <= Tally(m, Rungs[r - 1]).total
      /\ Tally(m, "sklearn").total > 0
      /\ {Dif, Same} \subseteq Verdicts

(* The shipped content passes its own suites, and the slug of the closing   *)
(* page is no chapter's.                                                    *)
ContentChecks ==
  \A m \in Models : /\ WalkthroughChecks(m)
                    /\ LadderChecks(m)
                    /\ Epilogue \notin ToSet(Chapters[m])
=============================================================================
