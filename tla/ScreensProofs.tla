----------------------------- MODULE ScreensProofs -----------------------------
(***************************************************************************)
(* What is proved of the screens of NC++ (Screens.tla), for every value of *)
(* the constants that ScreensAssumption allows.                            *)
(*                                                                         *)
(* Each screen has an inductive invariant of its own; ScreensInv is the    *)
(* learn flow's, which rests on the other screens, with that of the screen *)
(* that is shown.  The order is: the content that ships, the landing       *)
(* demo, the learn flow, a verdict's page, the training pages, the finder, *)
(* the account pages, the slicer of the code panels, and the screens side  *)
(* by side.                                                                *)
(***************************************************************************)
EXTENDS Screens, FiniteSetTheorems, SequenceTheorems, WellFoundedInduction, TLAPS

\* A function on the first n numbers is a sequence of length n.
LEMMA FunctionIsSeq ==
  ASSUME NEW S, NEW n \in Nat, NEW f \in [1..n -> S]
  PROVE  f \in Seq(S) /\ Len(f) = n
<1>1. f \in Seq(S)
  BY SeqDef
<1> QED BY <1>1, LenProperties

\* Two lists make one, whatever they hold.
LEMMA ConcatIsSeq ==
  ASSUME NEW s, NEW n \in Nat, NEW t, NEW k \in Nat,
         s \in Seq(ToSet(s)), Len(s) = n, t \in Seq(ToSet(t)), Len(t) = k
  PROVE  s \o t \in Seq(ToSet(s \o t)) /\ Len(s \o t) = n + k
<1> DEFINE S == ToSet(s) \cup ToSet(t)
<1>1. s \in Seq(S) /\ t \in Seq(S)
  BY SeqMonotonic
<1> HIDE DEF S
<1>2. s \o t \in Seq(S) /\ Len(s \o t) = n + k
  BY <1>1, ConcatProperties
<1>3. DOMAIN (s \o t) = 1..(n + k)
  BY <1>2, LenProperties
<1>4. s \o t \in [1..(n + k) -> ToSet(s \o t)]
  BY <1>2, <1>3, LenProperties DEF ToSet
<1>5. n + k \in Nat
  OBVIOUS
<1>6. s \o t \in Seq(ToSet(s \o t))
  BY ONLY <1>4, <1>5, FunctionIsSeq, Zenon
<1> QED BY <1>2, <1>6

\* What a model ships is a list of scenes and a list of chapters.
LEMMA ScenesAreLists ==
  ASSUME NEW m \in Models
  PROVE  /\ Scenes[m] \in Seq(ToSet(Scenes[m])) /\ Len(Scenes[m]) \in Nat \ {0}
         /\ Chapters[m] \in Seq(ToSet(Chapters[m]))
         /\ Concepts[m] \in Seq(ToSet(Concepts[m])) /\ Len(Concepts[m]) \in Nat \ {0}
<1>1. DOMAIN Step0Scenes = 1..29 /\ Len(Step0Scenes) = 29
  BY DEF Step0Scenes
<1>2. DOMAIN Step1Parts = 1..17 /\ Len(Step1Parts) = 17
  BY DEF Step1Parts
<1>3. DOMAIN Step1Network = 1..19 /\ Len(Step1Network) = 19
  BY DEF Step1Network
<1>4. Step0Scenes \in Seq(ToSet(Step0Scenes))
  <2>1. Step0Scenes \in [1..29 -> ToSet(Step0Scenes)]
    BY <1>1 DEF ToSet, Step0Scenes
  <2> QED BY ONLY <2>1, FunctionIsSeq
<1>5. Step1Parts \in Seq(ToSet(Step1Parts))
  <2>1. Step1Parts \in [1..17 -> ToSet(Step1Parts)]
    BY <1>2 DEF ToSet, Step1Parts
  <2> QED BY ONLY <2>1, FunctionIsSeq
<1>6. Step1Network \in Seq(ToSet(Step1Network))
  <2>1. Step1Network \in [1..19 -> ToSet(Step1Network)]
    BY <1>3 DEF ToSet, Step1Network
  <2> QED BY ONLY <2>1, FunctionIsSeq
<1>7. /\ Step1Parts \o Step1Network \in Seq(ToSet(Step1Parts \o Step1Network))
      /\ Len(Step1Parts \o Step1Network) = 36
  <2>1. 17 \in Nat /\ 19 \in Nat /\ 17 + 19 = 36
    OBVIOUS
  <2>2. /\ Step1Parts \o Step1Network \in Seq(ToSet(Step1Parts \o Step1Network))
        /\ Len(Step1Parts \o Step1Network) = 17 + 19
    <3> DEFINE s == Step1Parts  t == Step1Network  n == 17  k == 19
    <3>1. s \in Seq(ToSet(s)) /\ Len(s) = n /\ t \in Seq(ToSet(t)) /\ Len(t) = k
      BY ONLY <1>2, <1>3, <1>5, <1>6
    <3>2. n \in Nat /\ k \in Nat
      OBVIOUS
    <3> HIDE DEF s, t, n, k
    <3>3. s \o t \in Seq(ToSet(s \o t)) /\ Len(s \o t) = n + k
      BY ONLY <3>1, <3>2, ConcatIsSeq
    <3> QED BY <3>3 DEF s, t, n, k
  <2> QED BY ONLY <2>1, <2>2
<1>8. \A k \in Models : /\ Scenes[k] \in Seq(ToSet(Scenes[k]))
                        /\ Len(Scenes[k]) \in Nat \ {0}
  <2> DEFINE s1 == Step1Parts \o Step1Network
  <2>1. Scenes = [step0 |-> Step0Scenes, step1 |-> s1]
    BY DEF Scenes
  <2> HIDE DEF s1
  <2>2. s1 \in Seq(ToSet(s1)) /\ Len(s1) = 36
    BY <1>7 DEF s1
  <2>3. Scenes["step0"] = Step0Scenes /\ Scenes["step1"] = s1
    BY <2>1
  <2>4. 29 \in Nat \ {0} /\ 36 \in Nat \ {0}
    OBVIOUS
  <2> QED BY ONLY <1>1, <1>4, <2>2, <2>3, <2>4 DEF Models
<1>9. \A k \in Models : Chapters[k] \in Seq(ToSet(Chapters[k]))
  <2>1. Step0Chapters \in [1..4 -> ToSet(Step0Chapters)]
    BY DEF ToSet, Step0Chapters
  <2>2. Step1Chapters \in [1..6 -> ToSet(Step1Chapters)]
    BY DEF ToSet, Step1Chapters
  <2>3. Step0Chapters \in Seq(ToSet(Step0Chapters)) /\ Step1Chapters \in Seq(ToSet(Step1Chapters))
    BY ONLY <2>1, <2>2, FunctionIsSeq
  <2> QED BY ONLY <2>3 DEF Chapters, Models
<1>10. \A k \in Models : Concepts[k] \in Seq(ToSet(Concepts[k])) /\ Len(Concepts[k]) = 5
  <2> DEFINE c0 == <<Init0, Forward0, Loss0, Optimiser0, Stopping0>>
             c1 == <<Init1, Forward1, Loss1, Backward1, TrainingLoop1>>
  <2>1. c0 \in [1..5 -> ToSet(c0)] /\ c1 \in [1..5 -> ToSet(c1)]
    BY DEF ToSet
  <2>2. Concepts = [step0 |-> c0, step1 |-> c1]
    BY DEF Concepts
  <2> HIDE DEF c0, c1
  <2>3. c0 \in Seq(ToSet(c0)) /\ Len(c0) = 5 /\ c1 \in Seq(ToSet(c1)) /\ Len(c1) = 5
    <3>1. 5 \in Nat
      OBVIOUS
    <3>2. c0 \in Seq(ToSet(c0)) /\ Len(c0) = 5
      BY ONLY <2>1, <3>1, FunctionIsSeq, Zenon
    <3>3. c1 \in Seq(ToSet(c1)) /\ Len(c1) = 5
      BY ONLY <2>1, <3>1, FunctionIsSeq, Zenon
    <3> QED BY ONLY <3>2, <3>3
  <2>4. Concepts["step0"] = c0 /\ Concepts["step1"] = c1
    BY <2>2
  <2> QED BY ONLY <2>3, <2>4 DEF Models
<1>11. 5 \in Nat \ {0}
  OBVIOUS
<1> QED BY ONLY <1>8, <1>9, <1>10, <1>11, m \in Models

\* The shipped content keeps its suites' rules: what the player needs of them.
LEMMA ContentHolds ==
  ASSUME NEW m \in Models
  PROVE  /\ \A i \in DOMAIN Scenes[m] : Scenes[m][i].chapter \in ToSet(Chapters[m])
         /\ \A i \in DOMAIN Scenes[m] : Scenes[m][i].seconds \in Nat \ {0}
         /\ \A c \in ToSet(Chapters[m]) : \E i \in DOMAIN Scenes[m] : Scenes[m][i].chapter = c
         /\ Epilogue \notin ToSet(Chapters[m]) /\ "" \notin ToSet(Chapters[m])
         /\ \A i \in DOMAIN Concepts[m] : DOMAIN Concepts[m][i].cells = ToSet(Rungs)
         /\ Draws(Scenes[m][1])
<1>1. WalkthroughChecks(m) /\ LadderChecks(m) /\ Epilogue \notin ToSet(Chapters[m])
  BY ScreensAssumption DEF ContentChecks
<1>2. /\ \A i \in DOMAIN Scenes[m] : \E k \in DOMAIN Chapters[m] : Scenes[m][i].chapter = Chapters[m][k]
      /\ \A k \in DOMAIN Chapters[m] : {i \in DOMAIN Scenes[m] : Scenes[m][i].chapter = Chapters[m][k]} # {}
      /\ \A i \in DOMAIN Scenes[m] : Scenes[m][i].seconds \in 1..60
  BY <1>1 DEF WalkthroughChecks, Indices
<1>3. \A i \in DOMAIN Concepts[m] : DOMAIN Concepts[m][i].cells = ToSet(Rungs)
  BY <1>1 DEF LadderChecks, Indices
<1>4. "" \notin ToSet(Chapters[m])
  <2>1. ToSet(Step0Chapters) = {"overview", "math", "logistic_regression", "main"}
    BY DEF Step0Chapters, ToSet
  <2>2. ToSet(Step1Chapters) = {"overview", "matrix", "math", "layer", "mlp", "main"}
    BY DEF Step1Chapters, ToSet
  <2>3. Chapters["step0"] = Step0Chapters /\ Chapters["step1"] = Step1Chapters
    BY DEF Chapters
  <2>4. "" \notin ToSet(Step0Chapters) /\ "" \notin ToSet(Step1Chapters)
    BY <2>1, <2>2
  <2>5. Chapters[m] = Step0Chapters \/ Chapters[m] = Step1Chapters
    BY <2>3 DEF Models
  <2> QED BY ONLY <2>4, <2>5
<1>5. Draws(Scenes[m][1])
  <2>1. Step0Scenes[1].kind = "neuron"
    BY DEF Step0Scenes, Scene
  <2>2. Step1Parts[1].kind = "mlp"
    BY DEF Step1Parts, Scene
  <2>3. (Step1Parts \o Step1Network)[1] = Step1Parts[1]
    BY DEF Step1Parts, Step1Network
  <2>4. Scenes["step0"] = Step0Scenes /\ Scenes["step1"][1] = Step1Parts[1]
    BY <2>3 DEF Scenes
  <2> QED BY <2>1, <2>2, <2>4 DEF Draws, Models
<1>6. \A i \in DOMAIN Scenes[m] : Scenes[m][i].seconds \in Nat \ {0}
  BY <1>2
<1>7. /\ \A i \in DOMAIN Scenes[m] : Scenes[m][i].chapter \in ToSet(Chapters[m])
      /\ \A c \in ToSet(Chapters[m]) : \E i \in DOMAIN Scenes[m] : Scenes[m][i].chapter = c
  BY ONLY <1>2 DEF ToSet
<1> QED BY <1>1, <1>3, <1>4, <1>5, <1>6, <1>7

\* Of some natural numbers one is the least.
LEMMA LeastNat ==
  ASSUME NEW Bad \in SUBSET Nat, Bad # {}
  PROVE  \E n \in Bad : \A k \in Bad : n <= k
<1>1. PICK n \in Bad : \A k \in Bad : ~(<<k, n>> \in OpToRel(<, Nat))
  BY NatLessThanWellFounded, WFMin
<1>2. \A k \in Bad : ~(k < n)
  BY <1>1 DEF OpToRel
<1> QED BY <1>2

\* What MapThenFoldSet computes: choice says which element of a set is taken next, and
\* step what it does.
Folds(fold, S, base, choice, step) ==
    fold = [Part \in SUBSET S |->
               IF Part = {} THEN base ELSE step[choice[Part]][fold[Part \ {choice[Part]}]]]

\* A fold over a finite set exists: what MapThenFoldSet chooses is there to be chosen.
LEMMA FoldExists ==
  ASSUME NEW S, IsFiniteSet(S), NEW Val, NEW base \in Val,
         NEW choice, \A Part \in SUBSET S : Part # {} => choice[Part] \in Part,
         NEW step, \A x \in S, v \in Val : step[x][v] \in Val
  PROVE  \E fold : Folds(fold, S, base, choice, step) /\ fold \in [SUBSET S -> Val]
<1> DEFINE Upto(n) == {Part \in SUBSET S : Cardinality(Part) <= n}
           Rest(Part) == Part \ {choice[Part]}
           IsFold(f, n) == f \in [Upto(n) -> Val] /\ \A Part \in Upto(n) :
                             f[Part] = IF Part = {} THEN base ELSE step[choice[Part]][f[Rest(Part)]]
           Bad == {n \in Nat : ~\E f : IsFold(f, n)}
<1>0. ASSUME NEW Part \in SUBSET S
      PROVE  /\ IsFiniteSet(Part) /\ Cardinality(Part) \in Nat /\ Cardinality(Part) <= Cardinality(S)
             /\ Part # {} => Rest(Part) \in SUBSET S /\ Cardinality(Rest(Part)) = Cardinality(Part) - 1
             /\ Cardinality(Part) <= 0 <=> Part = {}
  <2>1. IsFiniteSet(Part) /\ Cardinality(Part) \in Nat /\ Cardinality(Part) <= Cardinality(S)
    BY FS_Subset, FS_CardinalityType
  <2>2. Cardinality(Part) = 0 <=> Part = {}
    BY <2>1, FS_EmptySet
  <2>3. Part # {} => Rest(Part) \in SUBSET S /\ Cardinality(Rest(Part)) = Cardinality(Part) - 1
    BY <2>1, FS_RemoveElement
  <2> QED BY <2>1, <2>2, <2>3
<1>1. \E f : IsFold(f, 0)
  <2> DEFINE f == [Part \in Upto(0) |-> base]
  <2>1. \A Part \in Upto(0) : Part = {}
    BY <1>0
  <2>2. IsFold(f, 0)
    BY <2>1
  <2> QED BY <2>2
<1>2. ASSUME NEW n \in Nat, NEW g, IsFold(g, n) PROVE \E f : IsFold(f, n + 1)
  <2> DEFINE f == [Part \in Upto(n + 1) |-> IF Part \in Upto(n) THEN g[Part] ELSE step[choice[Part]][g[Rest(Part)]]]
  <2>1. ASSUME NEW Part \in Upto(n + 1), Part # {} PROVE Rest(Part) \in Upto(n) /\ choice[Part] \in S
    <3>1. /\ Cardinality(Part) \in Nat /\ Cardinality(Part) <= n + 1
          /\ Rest(Part) \in SUBSET S /\ Cardinality(Rest(Part)) = Cardinality(Part) - 1
      BY <1>0, <2>1
    <3> QED BY <2>1, <3>1
  <2>2. {} \in Upto(n) /\ Upto(n) \subseteq Upto(n + 1)
    <3>1. Cardinality({}) <= n
      BY FS_EmptySet
    <3>2. ASSUME NEW Part \in Upto(n) PROVE Part \in Upto(n + 1)
      <4>1. Cardinality(Part) \in Nat
        BY <1>0
      <4> QED BY <4>1
    <3> QED BY <3>1, <3>2
  <2>3. ASSUME NEW Part \in Upto(n + 1)
        PROVE  f[Part] \in Val /\ f[Part] = IF Part = {} THEN base ELSE step[choice[Part]][f[Rest(Part)]]
    <3>1. CASE Part = {}
      BY <1>2, <2>2, <3>1
    <3>2. CASE Part # {}
      <4>1. Rest(Part) \in Upto(n) /\ choice[Part] \in S /\ f[Rest(Part)] = g[Rest(Part)] /\ g[Rest(Part)] \in Val
        BY <1>2, <2>1, <2>2, <3>2
      <4>2. f[Part] = step[choice[Part]][g[Rest(Part)]]
        BY <1>2, <2>2, <3>2
      <4> QED BY <3>2, <4>1, <4>2
    <3> QED BY <3>1, <3>2
  <2>4. f \in [Upto(n + 1) -> Val]
    BY <2>3
  <2> HIDE DEF f
  <2> QED BY <2>3, <2>4
<1>3. ASSUME Bad # {} PROVE FALSE
  <2>1. PICK n \in Bad : \A k \in Bad : n <= k
    <3>1. Bad \in SUBSET Nat
      OBVIOUS
    <3> HIDE DEF Bad
    <3> QED BY <1>3, <3>1, LeastNat
  <2>2. n \in Nat /\ ~\E f : IsFold(f, n)
    BY <2>1
  <2> HIDE DEF IsFold
  <2>3. n # 0
    BY <1>1, <2>2
  <2>4. n - 1 \in Nat /\ \E f : IsFold(f, n - 1)
    BY <2>1, <2>2, <2>3
  <2>5. \E f : IsFold(f, (n - 1) + 1)
    BY <2>4, <1>2
  <2>6. (n - 1) + 1 = n
    BY <2>2
  <2> QED BY <2>2, <2>5, <2>6
<1>4. Cardinality(S) \in Nat
  BY <1>0
<1>5. PICK f : IsFold(f, Cardinality(S))
  BY <1>3, <1>4
<1>6. Upto(Cardinality(S)) = SUBSET S
  BY <1>0
<1>7. f = [Part \in SUBSET S |-> IF Part = {} THEN base ELSE step[choice[Part]][f[Rest(Part)]]]
  BY <1>5, <1>6
<1>8. f \in [SUBSET S -> Val]
  BY <1>5, <1>6
<1> QED BY <1>7, <1>8 DEF Folds

\* What holds of 0, and of each number up to n if it holds of the one before.
LEMMA NumbersUpTo ==
  ASSUME NEW n \in Nat, NEW G, 0 \in G, \A k \in 1..n : k - 1 \in G => k \in G
  PROVE  0..n \subseteq G
<1> DEFINE Bad == {k \in 0..n : k \notin G}
<1>1. ASSUME Bad # {} PROVE FALSE
  <2>1. PICK k \in Bad : \A m \in Bad : k <= m
    <3>1. Bad \in SUBSET Nat
      OBVIOUS
    <3> HIDE DEF Bad
    <3> QED BY <1>1, <3>1, LeastNat
  <2>2. k \in 1..n
    BY <2>1
  <2>3. k - 1 \in 0..n /\ k - 1 \notin Bad
    BY <2>1, <2>2
  <2> QED BY <2>1, <2>2, <2>3
<1> QED BY <1>1

\* A set of numbers up to n has a greatest one.
LEMMA GreatestOf ==
  ASSUME NEW n \in Nat, NEW Part \in SUBSET (0..n), Part # {}
  PROVE  Max(Part) \in Part /\ \A k \in Part : Max(Part) >= k
<1> DEFINE Below == {n - k : k \in Part}
<1>1. PICK l \in Below : \A k \in Below : l <= k
  <2>0. PICK k \in Part : TRUE
    OBVIOUS
  <2>1. n - k \in Below /\ \A l \in Part : n - l \in Nat
    OBVIOUS
  <2>2. Below \in SUBSET Nat /\ Below # {}
    BY <2>1
  <2> HIDE DEF Below
  <2> QED BY <2>2, LeastNat
<1>2. PICK g \in Part : l = n - g
  BY <1>1
<1>3. \A k \in Part : g >= k
  <2> TAKE k \in Part
  <2>1. n - g <= n - k
    BY <1>1, <1>2
  <2> QED BY <2>1
<1>4. \E x \in Part : \A k \in Part : x >= k
  BY <1>3
<1> QED BY ONLY <1>4 DEF Max

\* The greatest of the first numbers is the last of them.
LEMMA GreatestOfFirst ==
  ASSUME NEW k \in Nat \ {0}
  PROVE  Max(1..k) = k
<1>1. 1..k \in SUBSET (0..k) /\ 1..k # {} /\ k \in 1..k
  OBVIOUS
<1>2. Max(1..k) \in 1..k /\ Max(1..k) >= k
  BY ONLY <1>1, GreatestOf, k \in Nat \ {0}
<1> QED BY <1>2

\* What a playing time adds up to, and the sums on the way.
PlayingTime(s) == FoldLeft(LAMBDA sum, x : sum + x.seconds, 0, s)
Adds(p, s) ==
    p \in [0..Len(s) -> Nat] /\ p[0] = 0 /\ \A k \in 1..Len(s) : p[k] = p[k - 1] + s[k].seconds

\* The sum of a list is the last of the sums on the way.
LEMMA SumAdds ==
  ASSUME NEW S, NEW s \in Seq(S), \A k \in 1..Len(s) : s[k].seconds \in Nat
  PROVE  \E p : Adds(p, s) /\ PlayingTime(s) = p[Len(s)]
<1> DEFINE n == Len(s)
           F(f) == [Part \in SUBSET (1..n) |-> IF Part = {} THEN 0 ELSE f[Part \ {Max(Part)}] + s[Max(Part)].seconds]
           f0 == CHOOSE f : f = F(f)
           choice == [Part \in SUBSET (1..n) |-> Max(Part)]
           step == [k \in 1..n |-> [v \in Nat |-> v + s[k].seconds]]
           p == [k \in 0..n |-> f0[1..k]]
<1>1. n \in Nat /\ DOMAIN s = 1..n
  BY LenProperties
<1>2. \A k \in 1..n, v \in Nat : step[k][v] \in Nat
  OBVIOUS
<1>3. PlayingTime(s) = f0[1..n]
  BY ONLY <1>1 DEF PlayingTime, FoldLeft, MapThenFoldSet
<1>4. \A Part \in SUBSET (1..n) : Part # {} => Max(Part) \in Part
  <2> TAKE Part \in SUBSET (1..n)
  <2>1. Part \in SUBSET (0..n)
    OBVIOUS
  <2> QED BY <1>1, <2>1, GreatestOf
<1>5. \A k \in 1..n : Max(1..k) = k /\ 1..k \in SUBSET (1..n) /\ 1..k # {} /\ (1..k) \ {k} = 1..(k - 1)
  <2> TAKE k \in 1..n
  <2>1. 1..k \in SUBSET (1..n) /\ 1..k # {} /\ k \in Nat \ {0}
    BY <1>1
  <2>2. Max(1..k) = k
    BY ONLY <2>1, GreatestOfFirst
  <2>3. (1..k) \ {k} = 1..(k - 1)
    BY <2>1
  <2> QED BY <2>1, <2>2, <2>3
<1>6. PICK f : Folds(f, 1..n, 0, choice, step) /\ f \in [SUBSET (1..n) -> Nat]
  <2>1. \A Part \in SUBSET (1..n) : Part # {} => choice[Part] \in Part
    BY <1>4
  <2>2. IsFiniteSet(1..n) /\ 0 \in Nat
    <3> HIDE DEF n
    <3>1. 1 \in Int /\ n \in Int
      BY <1>1
    <3> QED BY <3>1, FS_Interval
  <2> HIDE DEF choice, step, n
  <2> QED BY <1>2, <2>1, <2>2, FoldExists
<1>7. f = F(f)
  <2>1. ASSUME NEW Part \in SUBSET (1..n), Part # {}
        PROVE  step[choice[Part]][f[Part \ {choice[Part]}]] = f[Part \ {Max(Part)}] + s[Max(Part)].seconds
    <3>1. Max(Part) \in Part /\ choice[Part] = Max(Part)
      BY <1>4, <2>1
    <3>2. f[Part \ {Max(Part)}] \in Nat
      BY <1>6
    <3> QED BY <2>1, <3>1, <3>2
  <2> HIDE DEF choice, step
  <2> QED BY <1>6, <2>1 DEF Folds
<1>8. f0 = F(f0)
  <2> HIDE DEF F
  <2> QED BY <1>7
<1> HIDE DEF f0
<1>9. p[0] = 0
  <2>1. f0[{}] = 0
    BY <1>8
  <2>2. 1..0 = {} /\ 0 \in 0..n
    BY <1>1
  <2> QED BY <2>1, <2>2
<1>10. \A k \in 1..n : p[k] = p[k - 1] + s[k].seconds
  <2> TAKE k \in 1..n
  <2>1. k \in 0..n /\ k - 1 \in 0..n
    BY <1>1
  <2>2. f0[1..k] = f0[(1..k) \ {Max(1..k)}] + s[Max(1..k)].seconds
    BY <1>5, <1>8
  <2> QED BY <1>5, <2>1, <2>2
<1>11. \A k \in 0..n : p[k] \in Nat
  <2> DEFINE G == {k \in 0..n : p[k] \in Nat}
  <2>1. 0 \in G
    BY <1>1, <1>9
  <2>2. ASSUME NEW k \in 1..n, k - 1 \in G PROVE k \in G
    <3> HIDE DEF p
    <3>1. p[k] = p[k - 1] + s[k].seconds /\ p[k - 1] \in Nat
      BY <1>10, <2>2
    <3>2. s[k].seconds \in Nat /\ k \in 0..n
      BY <1>1
    <3> QED BY <3>1, <3>2
  <2> HIDE DEF G, p
  <2>3. 0..n \subseteq G
    BY <1>1, <2>1, <2>2, NumbersUpTo
  <2> QED BY <2>3 DEF G
<1>12. p \in [0..n -> Nat]
  BY <1>11
<1>13. PlayingTime(s) = p[n]
  BY <1>1, <1>3
<1> HIDE DEF p
<1> QED BY <1>9, <1>10, <1>12, <1>13 DEF Adds
\* The sums on the way of a list are those of its beginnings, as far as these go.
LEMMA SumsOnTheWay ==
  ASSUME NEW S, NEW s \in Seq(S), \A k \in 1..Len(s) : s[k].seconds \in Nat,
         NEW p, Adds(p, s), NEW i \in 1..Len(s)
  PROVE  PlayingTime(SubSeq(s, 1, i - 1)) = p[i - 1]
<1> DEFINE u == SubSeq(s, 1, i - 1)
<1>1. Len(s) \in Nat /\ i \in 1..Len(s) /\ i - 1 \in 0..Len(s) /\ i - 1 \in Nat
  BY LenProperties
<1>2. u \in Seq(S) /\ Len(u) = i - 1 /\ \A k \in 1..(i - 1) : u[k] = s[k]
  BY <1>1, SubSeqProperties
<1> HIDE DEF u
<1>3. PICK q : Adds(q, u) /\ PlayingTime(u) = q[Len(u)]
  <2>1. \A k \in 1..Len(u) : u[k].seconds \in Nat
    BY <1>1, <1>2
  <2> QED BY <1>2, <2>1, SumAdds
<1> DEFINE G == {k \in 0..(i - 1) : q[k] = p[k]}
<1>4. 0 \in G
  BY <1>1, <1>2, <1>3 DEF Adds
<1>5. ASSUME NEW k \in 1..(i - 1), k - 1 \in G PROVE k \in G
  <2>1. q[k] = q[k - 1] + s[k].seconds
    BY <1>2, <1>3 DEF Adds
  <2>2. k \in 1..Len(s) /\ k \in 0..(i - 1)
    BY <1>1
  <2>3. p[k] = p[k - 1] + s[k].seconds
    BY <2>2 DEF Adds
  <2> QED BY <1>5, <2>1, <2>2, <2>3
<1> HIDE DEF G
<1>6. 0..(i - 1) \subseteq G
  <2> DEFINE n == i - 1
  <2>1. n \in Nat /\ \A k \in 1..n : k - 1 \in G => k \in G
    BY <1>1, <1>5
  <2> HIDE DEF n
  <2>2. 0..n \subseteq G
    BY <1>4, <2>1, NumbersUpTo
  <2> QED BY <2>2 DEF n
<1>7. q[i - 1] = p[i - 1]
  <2>1. i - 1 \in 0..(i - 1)
    BY <1>1
  <2> QED BY <1>6, <2>1 DEF G
<1> QED BY <1>2, <1>3, <1>7 DEF u

\* The sums on the way of scenes that all take time grow.
LEMMA SumsGrow ==
  ASSUME NEW n \in Nat, NEW p \in [0..n -> Nat], \A k \in 1..n : p[k - 1] < p[k],
         NEW j \in 0..n
  PROVE  \A k \in 0..n : (j < k => p[j] < p[k]) /\ (j <= k => p[j] <= p[k])
<1> DEFINE G == {k \in 0..n : j < k => p[j] < p[k]}
<1>1. 0 \in G
  OBVIOUS
<1>2. ASSUME NEW k \in 1..n, k - 1 \in G PROVE k \in G
  <2>1. k \in 0..n /\ k - 1 \in 0..n /\ p[k - 1] < p[k]
    OBVIOUS
  <2>2. p[j] \in Nat /\ p[k - 1] \in Nat /\ p[k] \in Nat
    BY <2>1
  <2>3. CASE j = k - 1
    BY <2>1, <2>3
  <2>4. CASE j < k - 1
    <3>1. p[j] < p[k - 1]
      BY <1>2, <2>4
    <3> QED BY <2>1, <2>2, <3>1
  <2>5. CASE j >= k
    BY <2>1, <2>5
  <2> QED BY <2>1, <2>3, <2>4, <2>5
<1> HIDE DEF G
<1>3. 0..n \subseteq G
  BY <1>1, <1>2, NumbersUpTo
<1>4. \A k \in 0..n : j < k => p[j] < p[k]
  BY <1>3 DEF G
<1> QED
  <2> TAKE k \in 0..n
  <2>1. p[j] \in Nat /\ p[k] \in Nat
    OBVIOUS
  <2>2. CASE j < k
    BY <1>4, <2>1, <2>2
  <2>3. CASE j = k
    BY <2>1, <2>3
  <2>4. CASE j > k
    BY <2>4
  <2> QED BY <2>2, <2>3, <2>4

\* The timeline of a model: when each scene starts, and when the last one ends.
LEMMA Timeline ==
  ASSUME NEW m \in Models
  PROVE  \E p : /\ p \in [0..Len(Scenes[m]) -> Nat] /\ TotalDuration[m] = p[Len(Scenes[m])]
                /\ \A i \in 1..Len(Scenes[m]) : SceneStarts[m][i] = p[i - 1]
                /\ \A i, k \in 0..Len(Scenes[m]) : (i < k => p[i] < p[k]) /\ (i <= k => p[i] <= p[k])
<1> DEFINE s == Scenes[m]
           n == Len(Scenes[m])
<1>1. s \in Seq(ToSet(s)) /\ n \in Nat \ {0} /\ DOMAIN s = 1..n
  BY ScenesAreLists, LenProperties
<1>2. \A k \in 1..n : s[k].seconds \in Nat \ {0}
  BY <1>1, ContentHolds
<1>3. TotalDuration[m] = PlayingTime(s)
  BY DEF TotalDuration, PlayingTime
<1>4. \A i \in 1..n : SceneStarts[m][i] = PlayingTime(SubSeq(s, 1, i - 1))
  BY <1>1 DEF SceneStarts, PlayingTime, Indices
<1> HIDE DEF s
<1>5. PICK p : Adds(p, s) /\ PlayingTime(s) = p[Len(s)]
  <2>1. \A k \in 1..Len(s) : s[k].seconds \in Nat
    BY <1>2 DEF s
  <2> QED BY <1>1, <2>1, SumAdds
<1>6. \A i \in 1..n : SceneStarts[m][i] = p[i - 1]
  <2>1. \A k \in 1..Len(s) : s[k].seconds \in Nat
    BY <1>2 DEF s
  <2>2. \A i \in 1..Len(s) : PlayingTime(SubSeq(s, 1, i - 1)) = p[i - 1]
    BY <1>1, <1>5, <2>1, SumsOnTheWay
  <2> QED BY <1>4, <2>2 DEF s
<1>7. p \in [0..n -> Nat] /\ \A k \in 1..n : p[k] = p[k - 1] + s[k].seconds
  BY <1>5 DEF Adds, s
<1> HIDE DEF n
<1>8. \A k \in 1..n : p[k - 1] < p[k]
  <2> TAKE k \in 1..n
  <2>1. k - 1 \in 0..n /\ p[k - 1] \in Nat
    BY <1>1, <1>7
  <2>2. s[k].seconds \in Nat \ {0} /\ p[k] = p[k - 1] + s[k].seconds
    BY <1>2, <1>7
  <2> QED BY <2>1, <2>2
<1>9. \A i, k \in 0..n : (i < k => p[i] < p[k]) /\ (i <= k => p[i] <= p[k])
  BY <1>1, <1>7, <1>8, SumsGrow
<1> QED BY <1>3, <1>5, <1>6, <1>7, <1>9 DEF n, s
\* Wherever the clock stands there is a scene, and the stage holds a picture.
LEMMA StageHeld ==
  ASSUME NEW m \in Models, NEW t
  PROVE  SceneAt(m, t) \in 1..Len(Scenes[m]) /\ Held(m, t) # {}
<1> DEFINE n == Len(Scenes[m])
           Begun == {1} \cup {i \in Indices(Scenes[m]) : SceneStarts[m][i] <= t}
<1>1. n \in Nat \ {0} /\ DOMAIN Scenes[m] = 1..n
  BY ScenesAreLists, LenProperties
<1>2. Begun \in SUBSET (1..n) /\ Begun \in SUBSET (0..n) /\ Begun # {}
  BY <1>1 DEF Indices
<1>3. SceneAt(m, t) = Max(Begun)
  BY DEF SceneAt
<1> HIDE DEF Begun
<1>4. SceneAt(m, t) \in 1..n
  <2>1. Max(Begun) \in Begun
    BY <1>1, <1>2, GreatestOf
  <2> QED BY <1>2, <1>3, <2>1
<1>5. 1 \in {i \in 1..SceneAt(m, t) : Draws(Scenes[m][i])}
  <2>1. 1 \in 1..SceneAt(m, t)
    BY <1>1, <1>4
  <2>2. Draws(Scenes[m][1])
    BY ContentHolds
  <2> QED BY <2>1, <2>2
<1>6. Held(m, t) # {}
  BY <1>5 DEF Held
<1> QED BY <1>4, <1>6

\* A chapter's start is on the clock, and there the player is in that chapter.
LEMMA ChapterBegins ==
  ASSUME NEW m \in Models, NEW c \in ToSet(Chapters[m])
  PROVE  /\ TotalDuration[m] \in Nat /\ ChapterStart(m, c) \in 0..TotalDuration[m]
         /\ ChapterAt(m, ChapterStart(m, c)) = c
<1> DEFINE n == Len(Scenes[m])
           At == {i \in Indices(Scenes[m]) : Scenes[m][i].chapter = c}
           k == Min(At)
<1>1. n \in Nat \ {0} /\ DOMAIN Scenes[m] = 1..n
  BY ScenesAreLists, LenProperties
<1>2. k \in At
  <2>0. \E i \in DOMAIN Scenes[m] : Scenes[m][i].chapter = c
    BY ContentHolds
  <2>1. At \in SUBSET Nat /\ At # {}
    BY <1>1, <2>0 DEF Indices
  <2> HIDE DEF At
  <2>2. \E i \in At : \A j \in At : i <= j
    BY <2>1, LeastNat
  <2> QED BY <2>2 DEF Min
<1>3. k \in 1..n /\ Scenes[m][k].chapter = c /\ ChapterStart(m, c) = SceneStarts[m][k]
  BY <1>1, <1>2 DEF ChapterStart, Indices
<1> HIDE DEF k
<1>4. PICK p : /\ p \in [0..n -> Nat] /\ TotalDuration[m] = p[n]
               /\ \A i \in 1..n : SceneStarts[m][i] = p[i - 1]
               /\ \A i, j \in 0..n : (i < j => p[i] < p[j]) /\ (i <= j => p[i] <= p[j])
  BY Timeline
<1> HIDE DEF n
<1>5. ChapterStart(m, c) = p[k - 1] /\ k - 1 \in 0..n /\ p[k - 1] \in Nat
  <2>1. k - 1 \in 0..n
    BY <1>1, <1>3
  <2>2. ChapterStart(m, c) = p[k - 1]
    BY <1>3, <1>4
  <2> QED BY <1>4, <2>1, <2>2
<1>6. TotalDuration[m] \in Nat /\ ChapterStart(m, c) \in 0..TotalDuration[m]
  <2>1. n \in 0..n /\ k - 1 <= n
    BY <1>1, <1>3
  <2>2. p[k - 1] <= p[n] /\ p[n] \in Nat
    BY <1>4, <1>5, <2>1
  <2> QED BY <1>4, <1>5, <2>2
<1>7. {1} \cup {i \in 1..n : SceneStarts[m][i] <= ChapterStart(m, c)} = 1..k
  <2>1. \A i \in 1..n : SceneStarts[m][i] <= ChapterStart(m, c) <=> i <= k
    <3> TAKE i \in 1..n
    <3>1. SceneStarts[m][i] = p[i - 1] /\ i - 1 \in 0..n /\ p[i - 1] \in Nat
      BY <1>1, <1>4
    <3>2. CASE i <= k
      <4>1. p[i - 1] <= p[k - 1]
        BY <1>3, <1>4, <1>5, <3>1, <3>2
      <4> QED BY <1>5, <3>1, <3>2, <4>1
    <3>3. CASE i > k
      <4>1. k - 1 < i - 1
        BY <1>3, <3>3
      <4>2. p[k - 1] < p[i - 1]
        BY <1>4, <1>5, <3>1, <4>1
      <4>3. ~(p[i - 1] <= p[k - 1])
        BY <1>5, <3>1, <4>2
      <4> QED BY <1>3, <1>5, <3>1, <3>3, <4>3
    <3> QED BY <1>3, <3>2, <3>3
  <2> QED BY <1>1, <1>3, <2>1
<1>8. SceneAt(m, ChapterStart(m, c)) = k
  <2>1. SceneAt(m, ChapterStart(m, c)) = Max(1..k)
    BY <1>1, <1>7 DEF SceneAt, Indices, n
  <2>2. Max(1..k) = k
    BY <1>3, GreatestOfFirst
  <2> QED BY <2>1, <2>2
<1> QED BY <1>3, <1>6, <1>8 DEF ChapterAt

\* The clock never needs more than the longest walkthrough.
Longest == Max({TotalDuration[m] : m \in Models})

\* Every walkthrough lasts a whole number of time units, none more than the longest.
LEMMA DurationsBounded ==
  ASSUME NEW m \in Models
  PROVE  Longest \in Nat /\ TotalDuration[m] \in 0..Longest
<1> DEFINE a == TotalDuration["step0"]
           b == TotalDuration["step1"]
           Both == {a, b}
<1>1. \A k \in Models : TotalDuration[k] \in Nat
  <2> TAKE k \in Models
  <2>1. PICK p : p \in [0..Len(Scenes[k]) -> Nat] /\ TotalDuration[k] = p[Len(Scenes[k])]
    BY Timeline
  <2>2. Len(Scenes[k]) \in 0..Len(Scenes[k])
    BY ScenesAreLists
  <2> QED BY <2>1, <2>2
<1>2. a \in Nat /\ b \in Nat
  BY <1>1 DEF Models
<1>3. {TotalDuration[k] : k \in Models} = Both
  BY DEF Models
<1> HIDE DEF a, b
<1>4. a + b \in Nat /\ Both \in SUBSET (0..(a + b)) /\ Both # {}
  BY <1>2
<1>5. Max(Both) \in Both /\ \A k \in Both : Max(Both) >= k
  <2> DEFINE n == a + b
  <2> HIDE DEF Both, n
  <2>1. n \in Nat /\ Both \in SUBSET (0..n) /\ Both # {}
    BY <1>4 DEF n
  <2> QED BY <2>1, GreatestOf
<1>6. Longest \in Both /\ \A k \in Both : Longest >= k
  BY <1>3, <1>5 DEF Longest
<1>7. TotalDuration[m] \in Both
  BY DEF Models, a, b
<1> QED BY <1>2, <1>6, <1>7

\* A seek is clamped to the clock.
LEMMA Clamped ==
  ASSUME NEW s \in Int, NEW t \in Nat
  PROVE  Max({0, Min({s, t})}) \in 0..t
<1>1. Min({s, t}) \in {s, t} /\ Min({s, t}) <= t /\ Min({s, t}) <= s
  <2>1. \E x \in {s, t} : \A y \in {s, t} : x <= y
    <3>1. CASE s <= t
      BY <3>1
    <3>2. CASE t <= s
      BY <3>2
    <3> QED BY <3>1, <3>2
  <2> QED BY <2>1 DEF Min
<1> DEFINE l == Min({s, t})
<1>2. l \in Int /\ l <= t
  BY <1>1
<1> HIDE DEF l
<1>3. Max({0, l}) \in {0, l} /\ Max({0, l}) >= 0
  <2>1. \E x \in {0, l} : \A y \in {0, l} : x >= y
    <3>1. CASE 0 <= l
      BY <1>2, <3>1
    <3>2. CASE l <= 0
      BY <1>2, <3>2
    <3> QED BY <1>2, <3>1, <3>2
  <2> QED BY <2>1 DEF Max
<1>4. Max({0, l}) \in 0..t
  BY <1>2, <1>3
<1> QED BY <1>4 DEF l

DemoInv == next \in Nat /\ N!LogNeverFreezes

\* The demo's log has a first line.
LEMMA LogHasLines ==
  ASSUME N!EpochsConstants
  PROVE  N!total \in Nat \ {0}
<1> DEFINE logged == {e \in 0..(Epochs - 1) : e % (IF Epochs \div 10 > 1 THEN Epochs \div 10 ELSE 1) = 0 \/ e = Epochs - 1}
           Kinds == {"header", "epoch", "final", "result"}
           middle == [i \in 1..Cardinality(logged) |-> "epoch"]
<1>1. IsFiniteSet(0..(Epochs - 1))
  BY FS_Interval DEF N!EpochsConstants
<1>2. IsFiniteSet(logged)
  BY <1>1, FS_Subset
<1>3. Cardinality(logged) \in Nat
  BY <1>2, FS_CardinalityType
<1>4. N!total = Len(<<"header">> \o middle \o <<"final", "result">>)
  BY DEF N!total, N!Lines, N!Cardinality, N!IsFiniteSet, Cardinality
<1> HIDE DEF logged
<1>5. middle \in Seq(Kinds) /\ Len(middle) = Cardinality(logged)
  <2> DEFINE n == Cardinality(logged)
  <2>1. n \in Nat
    BY <1>3
  <2> HIDE DEF n
  <2>2. [i \in 1..n |-> "epoch"] \in [1..n -> Kinds]
    OBVIOUS
  <2>3. [i \in 1..n |-> "epoch"] \in Seq(Kinds) /\ Len([i \in 1..n |-> "epoch"]) = n
    BY <2>1, <2>2, IsASeq
  <2> QED BY <2>3 DEF n
<1> HIDE DEF middle
<1> QED BY <1>3, <1>4, <1>5

\* The demo starts with its interval, or with its log finished.
LEMMA DemoInit ==
  ASSUME N!EpochsConstants, N!Init
  PROVE  DemoInv
BY LogHasLines DEF N!Init, DemoInv, N!LogNeverFreezes

\* Each step of the demo keeps one interval at the last line set.
LEMMA DemoStep ==
  ASSUME N!EpochsConstants, DemoInv, N!Next
  PROVE  DemoInv'
<1> USE DEF DemoInv
<1> DEFINE All == N!total
<1>0. All \in Nat \ {0} /\ All' = All
  BY LogHasLines DEF N!total, N!Lines
<1>1. CASE N!Tick
  <2>1. PICK i \in DOMAIN timers :
           /\ next' = timers[i] + 1
           /\ timers' = IF timers[i] + 1 >= All THEN N!RemoveAt(timers, i)
                                              ELSE [timers EXCEPT ![i] = timers[i] + 1]
    BY <1>1 DEF N!Tick
  <2>2. next < All /\ timers = <<next>> /\ i = 1
    BY <2>1 DEF N!LogNeverFreezes
  <2>3. N!RemoveAt(timers, 1) = <<>>
    BY <2>2 DEF N!RemoveAt
  <2> HIDE DEF All
  <2>4. next' = next + 1 /\ timers' = IF next + 1 >= All THEN <<>> ELSE <<next + 1>>
    BY <2>1, <2>2, <2>3
  <2> QED BY <2>2, <2>4, <1>0 DEF N!LogNeverFreezes, All
<1>2. CASE N!Render
  BY <1>0, <1>2 DEF N!Render, N!LogNeverFreezes
<1>3. CASE N!Pick \/ N!RunAgain
  <2>1. PICK still \in BOOLEAN : N!Restart(still)
    BY <1>3 DEF N!Pick, N!RunAgain
  <2> QED BY <2>1, <1>0 DEF N!Restart, N!LogNeverFreezes
<1> QED BY <1>1, <1>2, <1>3 DEF N!Next
\* The inductive invariant of the learn flow.  OnCourse is what LinksShowSomething
\* needs: while nothing has moved the clock it stands at the start of the chapter that
\* the address names, or that a rail click has navigated to.
LearnTypes ==
  /\ at \in Places
  /\ goingTo # "" => Watching /\ goingTo \in ToSet(Chapters[at.model])
  /\ clock \in 0..Longest
  /\ playing \in BOOLEAN /\ shown \in BOOLEAN /\ untouched \in BOOLEAN
  /\ loops = 0 \/ loops = 1
  /\ mode \in {"play", "text"}
  /\ concept = "" \/ \E m \in Models : \E i \in Indices(Concepts[m]) : concept = Concepts[m][i].slug
Aim == IF goingTo # "" THEN goingTo ELSE at.slug
OnCourse == untouched /\ Watching /\ Aim \in ToSet(Chapters[at.model]) => clock = ChapterStart(at.model, Aim)
LearnInv == LearnTypes /\ OneFrameLoop /\ OnCourse

\* An address is Away, or a model that has content and a slug.
LEMMA Addresses ==
  ASSUME NEW p \in Places
  PROVE  /\ p.model \in Models => p = [model |-> p.model, slug |-> p.slug]
         /\ p.model \in Models => p.slug \in ToSet(Chapters[p.model]) \cup {"", Epilogue, Unwritten}
         /\ p.model \notin Models => p = Away
         /\ Page(p) \in {"away", "closing", "walkthrough"}
         /\ Page(p) = "away" <=> p = Away
         /\ Page(p) = "walkthrough" <=> p.model \in Models /\ p.slug # Epilogue
         /\ Page(p) = "closing" => p.model \in Models
         /\ Known(p) => Page(p) = "walkthrough"
<1>1. Away.model \notin Models
  BY DEF Away, Models
<1>2. CASE p = Away
  BY <1>1, <1>2 DEF Page, Known
<1>3. ASSUME NEW m \in Models, p \in [model : {m}, slug : ToSet(Chapters[m]) \cup {"", Epilogue, Unwritten}]
      PROVE  p.model = m /\ p = [model |-> p.model, slug |-> p.slug]
             /\ p.slug \in ToSet(Chapters[m]) \cup {"", Epilogue, Unwritten}
  BY <1>3
<1>4. p = Away \/ \E m \in Models : p \in [model : {m}, slug : ToSet(Chapters[m]) \cup {"", Epilogue, Unwritten}]
  BY DEF Places
<1>5. CASE p # Away
  <2>1. PICK m \in Models : p \in [model : {m}, slug : ToSet(Chapters[m]) \cup {"", Epilogue, Unwritten}]
    BY <1>4, <1>5
  <2>2. p.model = m /\ p = [model |-> p.model, slug |-> p.slug]
             /\ p.slug \in ToSet(Chapters[m]) \cup {"", Epilogue, Unwritten}
    BY <1>3, <2>1
  <2> QED BY <1>5, <2>2 DEF Page, Known
<1> QED BY <1>2, <1>5

\* A chapter's address is one.
LEMMA ChapterAddress ==
  ASSUME NEW m \in Models, NEW c \in ToSet(Chapters[m])
  PROVE  /\ [model |-> m, slug |-> c] \in Places
         /\ Page([model |-> m, slug |-> c]) = "walkthrough"
<1>1. [model |-> m, slug |-> c] \in [model : {m}, slug : ToSet(Chapters[m]) \cup {"", Epilogue, Unwritten}]
  OBVIOUS
<1>2. c # Epilogue
  BY ContentHolds
<1> QED BY <1>1, <1>2 DEF Places, Page

\* Every model's first concept is one of its concepts.
LEMMA FirstConcept ==
  ASSUME NEW m \in Models
  PROVE  1 \in Indices(Concepts[m])
<1>1. DOMAIN Concepts[m] = 1..Len(Concepts[m])
  BY ScenesAreLists, LenProperties
<1> QED BY <1>1, ScenesAreLists DEF Indices

\* What the deep-link effect leaves on the clock.
LEMMA OpenedOnTheClock ==
  ASSUME clock \in 0..Longest, NEW p \in Places, NEW old \in Places
  PROVE  Opened(p, old) \in 0..Longest
<1>1. Longest \in Nat /\ clock \in 0..Longest /\ 0 \in 0..Longest
  <2>1. "step0" \in Models
    BY DEF Models
  <2>2. Longest \in Nat
    BY <2>1, DurationsBounded
  <2> QED BY <2>2
<1>2. CASE Known(p)
  <2>1. p.model \in Models /\ p.slug \in ToSet(Chapters[p.model])
    BY <1>2, Addresses DEF Known
  <2>2. ChapterStart(p.model, p.slug) \in 0..TotalDuration[p.model] /\ TotalDuration[p.model] \in 0..Longest
    BY <2>1, ChapterBegins, DurationsBounded
  <2>3. ChapterStart(p.model, p.slug) \in 0..Longest
    BY <1>1, <2>2
  <2> QED BY <1>1, <2>3 DEF Opened
<1>3. CASE ~Known(p)
  BY <1>1, <1>3 DEF Opened
<1> QED BY <1>2, <1>3

\* The player and the slicer start in their invariants.
LEMMA LearnInit == Init => LearnInv
<1> SUFFICES ASSUME Init PROVE LearnInv
  OBVIOUS
<1>1. at \in Places
  BY DEF Init
<1>2. Longest \in Nat /\ 0 \in 0..Longest
  <2>1. "step0" \in Models
    BY DEF Models
  <2> QED BY <2>1, DurationsBounded
<1>3. clock \in 0..Longest
  <2>1. CASE Known(at)
    <3>1. at.model \in Models /\ at.slug \in ToSet(Chapters[at.model])
      BY <1>1, <2>1, Addresses DEF Known
    <3>2. ChapterStart(at.model, at.slug) \in 0..TotalDuration[at.model] /\ TotalDuration[at.model] \in 0..Longest
      BY <3>1, ChapterBegins, DurationsBounded
    <3>3. ChapterStart(at.model, at.slug) \in 0..Longest
      BY <1>2, <3>2
    <3> QED BY <2>1, <3>3 DEF Init
  <2>2. CASE ~Known(at)
    BY <1>2, <2>2 DEF Init
  <2> QED BY <2>1, <2>2
<1>4. concept = "" \/ \E m \in Models : \E i \in Indices(Concepts[m]) : concept = Concepts[m][i].slug
  <2>1. CASE at = Away
    BY <2>1 DEF Init
  <2>2. CASE at # Away
    <3>1. at.model \in Models
      BY <1>1, <2>2, Addresses
    <3>2. 1 \in Indices(Concepts[at.model])
      BY <3>1, FirstConcept
    <3>3. concept = Concepts[at.model][1].slug
      BY <2>2 DEF Init
    <3> QED BY <3>1, <3>2, <3>3
  <2> QED BY <2>1, <2>2
<1>5. LearnTypes
  <2>1. Known(at) \in BOOLEAN
    BY DEF Known
  <2> QED BY <1>1, <1>3, <1>4, <2>1 DEF Init, LearnTypes
<1>6. OneFrameLoop /\ OnCourse
  BY DEF Init, OneFrameLoop, OnCourse, Aim, Known, Watching
<1> QED BY <1>5, <1>6 DEF LearnInv

\* The types are the component's.
LEMMA LearnTyped == LearnTypes => TypeOK
<1> SUFFICES ASSUME LearnTypes PROVE TypeOK
  OBVIOUS
<1>1. goingTo \in {""} \cup (IF Watching THEN ToSet(Chapters[at.model]) ELSE {})
  BY DEF LearnTypes
<1>2. concept \in {""} \cup UNION {{Concepts[m][i].slug : i \in Indices(Concepts[m])} : m \in Models}
  <2>1. CASE concept = ""
    BY <2>1
  <2>2. ASSUME NEW m \in Models, NEW i \in Indices(Concepts[m]), concept = Concepts[m][i].slug
        PROVE  concept \in UNION {{Concepts[k][j].slug : j \in Indices(Concepts[k])} : k \in Models}
    <3>1. concept \in {Concepts[m][j].slug : j \in Indices(Concepts[m])}
      BY <2>2
    <3> QED BY <3>1
  <2> QED BY <2>1, <2>2 DEF LearnTypes
<1>3. clock \in 0..Max({TotalDuration[m] : m \in Models})
  BY DEF LearnTypes, Longest
<1>4. /\ at \in Places /\ playing \in BOOLEAN /\ shown \in BOOLEAN /\ untouched \in BOOLEAN
      /\ mode \in {"play", "text"}
  BY DEF LearnTypes
<1>5. loops \in 0..1
  <2>1. loops = 0 \/ loops = 1
    BY DEF LearnTypes
  <2> QED BY <2>1
<1> QED BY ONLY <1>1, <1>2, <1>3, <1>4, <1>5 DEF TypeOK

\* What is seen of the invariant: a link lands where it says, and something is there.
LEMMA LearnShows == LearnInv => LinksShowSomething
<1> SUFFICES ASSUME LearnInv PROVE LinksShowSomething
  OBVIOUS
<1>1. at \in Places
  BY DEF LearnInv, LearnTypes
<1>2. LinkLands
  <2> SUFFICES ASSUME Known(at), goingTo = "", untouched
               PROVE  clock = ChapterStart(at.model, at.slug) /\ ChapterAt(at.model, clock) = at.slug
    BY DEF LinkLands
  <2>1. at.model \in Models /\ at.slug \in ToSet(Chapters[at.model]) /\ Watching
    BY <1>1, Addresses DEF Known, Watching
  <2>2. clock = ChapterStart(at.model, at.slug)
    BY <2>1 DEF LearnInv, OnCourse, Aim
  <2> QED BY <2>1, <2>2, ChapterBegins
<1>3. Watching => Held(at.model, clock) # {}
  <2> SUFFICES ASSUME Watching PROVE Held(at.model, clock) # {}
    OBVIOUS
  <2>1. at.model \in Models
    BY <1>1, Addresses DEF Watching
  <2> QED BY <2>1, StageHeld
<1>4. ASSUME Page(at) = "closing"
      PROVE  \E i \in Indices(Concepts[at.model]) :
               /\ Concepts[at.model][i].slug = ShownConcept(at.model)
               /\ DOMAIN Concepts[at.model][i].cells = ToSet(Rungs)
  <2>1. at.model \in Models
    BY <1>1, <1>4, Addresses
  <2>2. \A i \in Indices(Concepts[at.model]) : DOMAIN Concepts[at.model][i].cells = ToSet(Rungs)
    BY <2>1, ContentHolds DEF Indices
  <2>3. \E i \in Indices(Concepts[at.model]) : Concepts[at.model][i].slug = ShownConcept(at.model)
    BY <2>1, FirstConcept DEF ShownConcept
  <2> QED BY <2>2, <2>3
<1>5. NothingBlank
  BY <1>3, <1>4 DEF NothingBlank
<1> QED BY <1>2, <1>5 DEF LinksShowSomething

\* A learn flow that rests keeps its invariant.
LEMMA LearnRests == LearnInv /\ UNCHANGED vars => LearnInv'
<1> SUFFICES ASSUME LearnInv, UNCHANGED vars PROVE LearnInv'
  OBVIOUS
<1>1. /\ at' = at /\ goingTo' = goingTo /\ clock' = clock /\ playing' = playing /\ shown' = shown
      /\ loops' = loops /\ mode' = mode /\ concept' = concept /\ untouched' = untouched
  BY DEF vars
<1>2. Watching' <=> Watching
  BY <1>1 DEF Watching
<1>3. LearnTypes'
  BY <1>1, <1>2 DEF LearnInv, LearnTypes
<1>4. OneFrameLoop' /\ OnCourse'
  BY <1>1, <1>2 DEF LearnInv, OneFrameLoop, OnCourse, Aim
<1> QED BY <1>3, <1>4 DEF LearnInv

\* Rendering what was set leaves one loop or none, as it should be.
LEMMA CommitLoops ==
  ASSUME OneFrameLoop, Watching, NEW p \in BOOLEAN, shown \in BOOLEAN, playing \in BOOLEAN,
         p = shown => shown = playing, Commit(p), Watching'
  PROVE  OneFrameLoop' /\ playing' \in BOOLEAN /\ shown' \in BOOLEAN /\ (loops' = 0 \/ loops' = 1)
  BY DEF Commit, AfterEffect, OneFrameLoop

\* Every step of the learn flow keeps its invariant.
LEMMA LearnStep == LearnInv /\ Next => LearnInv'
<1> SUFFICES ASSUME LearnInv, Next PROVE LearnInv'
  OBVIOUS
<1> USE DEF LearnInv
<1>0. /\ at \in Places
      /\ playing \in BOOLEAN /\ shown \in BOOLEAN /\ untouched \in BOOLEAN /\ mode \in {"play", "text"}
      /\ goingTo # "" => Watching /\ goingTo \in ToSet(Chapters[at.model])
      /\ concept = "" \/ \E m \in Models : \E i \in Indices(Concepts[m]) : concept = Concepts[m][i].slug
      /\ Watching => at.model \in Models
  <2>3. at \in Places
    BY DEF LearnTypes
  <2>4. Watching => at.model \in Models
    BY <2>3, Addresses DEF Watching
  <2> QED BY <2>3, <2>4 DEF LearnTypes
<1>l. loops = 0 \/ loops = 1
  BY DEF LearnTypes
<1>c. clock \in Nat /\ Longest \in Nat /\ clock \in 0..Longest
  <2>1. "step0" \in Models
    BY DEF Models
  <2>2. Longest \in Nat
    BY <2>1, DurationsBounded
  <2>3. clock \in 0..Longest
    BY DEF LearnTypes
  <2> QED BY <2>2, <2>3
<1>t. Watching => Total \in Nat /\ Total \in 0..Longest /\ 0 \in 0..Longest
  <2> SUFFICES ASSUME Watching PROVE Total \in Nat /\ Total \in 0..Longest /\ 0 \in 0..Longest
    OBVIOUS
  <2>1. Total \in 0..Longest
    BY <1>0, DurationsBounded DEF Total
  <2> QED BY <1>c, <2>1
<1>s. ASSUME at' = at PROVE Watching' <=> Watching
  BY <1>s DEF Watching
<1>1. CASE Tick
  <2>0. Watching /\ loops = 1 /\ shown = playing /\ playing
    <3>1. Watching /\ loops # 0
      BY <1>1, <1>l DEF Tick
    <3> QED BY <1>0, <1>l, <3>1 DEF OneFrameLoop
  <2>1. /\ at' = at /\ goingTo' = goingTo /\ shown' = shown /\ mode' = mode /\ concept' = concept
        /\ untouched' = FALSE
    BY <1>1 DEF Tick
  <2>2. PICK rate \in RATES :
          \/ clock' = Total /\ playing' = FALSE /\ loops' = loops - 1
          \/ /\ ~(clock + (FrameGap * rate) \div 4 >= Total)
             /\ clock' = clock + (FrameGap * rate) \div 4 /\ playing' = playing /\ loops' = loops
    BY <1>1 DEF Tick
  <2>3. clock' \in 0..Longest
    <3>1. clock + (FrameGap * rate) \div 4 \in Nat
      <4>1. FrameGap \in Nat /\ rate \in Nat
        BY ScreensAssumption DEF FrameConstants, RATES
      <4>2. FrameGap * rate \in Nat
        BY <4>1
      <4> DEFINE f == FrameGap * rate
      <4>3. f \in Nat
        BY <4>2
      <4> HIDE DEF f
      <4>4. f \div 4 \in Nat
        BY <4>3
      <4> QED BY <1>c, <4>4 DEF f
    <3>2. Total \in 0..Longest /\ Total \in Nat
      BY <1>t, <2>0
    <3>3. CASE clock' = Total
      BY <3>2, <3>3
    <3>4. CASE clock' # Total
      BY <1>c, <2>2, <3>1, <3>2, <3>4
    <3> QED BY <3>3, <3>4
  <2>l. playing' \in BOOLEAN /\ (loops' = 0 \/ loops' = 1) /\ (loops' = IF playing' THEN 1 ELSE 0)
        /\ (playing' = shown' \/ loops' = 0)
    <3>1. CASE playing' = FALSE /\ loops' = loops - 1
      <4>1. loops' = 0
        BY <2>0, <3>1
      <4> QED BY <3>1, <4>1
    <3>2. CASE playing' = playing /\ loops' = loops
      BY <2>0, <2>1, <3>2
    <3> QED BY <2>2, <3>1, <3>2
  <2>4. LearnTypes'
    BY <1>0, <1>s, <2>1, <2>l, <2>3 DEF LearnTypes
  <2>5. OneFrameLoop'
    BY <1>s, <2>0, <2>1, <2>l DEF OneFrameLoop
  <2> QED BY <2>1, <2>4, <2>5 DEF OnCourse
<1>2. CASE Render
  <2>1. /\ Watching /\ shown # playing /\ Commit(playing) /\ at' = at /\ goingTo' = goingTo
        /\ clock' = clock /\ mode' = mode /\ concept' = concept /\ untouched' = untouched
    BY <1>2 DEF Render
  <2>2. OneFrameLoop' /\ playing' \in BOOLEAN /\ shown' \in BOOLEAN /\ (loops' = 0 \/ loops' = 1)
    BY <1>0, <1>s, <2>1, CommitLoops
  <2>3. LearnTypes'
    BY <1>0, <1>c, <1>s, <2>1, <2>2 DEF LearnTypes
  <2>4. OnCourse'
    BY <1>s, <2>1 DEF OnCourse, Aim
  <2> QED BY <2>2, <2>3, <2>4
<1>3. ASSUME NEW s \in Int, Watching, Seek(s) PROVE LearnInv'
  <2>1. /\ Commit(playing) /\ at' = at /\ goingTo' = goingTo /\ mode' = mode /\ concept' = concept
        /\ untouched' = FALSE /\ clock' = Max({0, Min({s, Total})})
    BY <1>3 DEF Seek
  <2>2. OneFrameLoop' /\ playing' \in BOOLEAN /\ shown' \in BOOLEAN /\ (loops' = 0 \/ loops' = 1)
    BY <1>0, <1>3, <1>s, <2>1, CommitLoops
  <2>3. clock' \in 0..Longest
    <3>1. clock' \in 0..Total
      BY <1>3, <1>t, <2>1, Clamped
    <3>2. Total \in 0..Longest /\ Total \in Nat
      BY <1>3, <1>t
    <3> QED BY <1>c, <3>1, <3>2
  <2>4. LearnTypes'
    BY <1>0, <1>3, <1>s, <2>1, <2>2, <2>3 DEF LearnTypes
  <2>5. OnCourse'
    BY <2>1 DEF OnCourse
  <2> QED BY <2>2, <2>4, <2>5
<1>4. CASE Scrub
  <2>1. PICK s \in {0, Total \div 2, Total} : Seek(s)
    BY <1>4 DEF Scrub
  <2>2. Watching
    BY <1>4 DEF Scrub
  <2>3. s \in Int
    BY <1>t, <2>2
  <2> QED BY <1>3, <2>1, <2>2, <2>3
<1>5. CASE Arrow
  <2>1. Watching /\ (Seek(clock - 5) \/ Seek(clock + 5))
    BY <1>5 DEF Arrow
  <2>2. clock - 5 \in Int /\ clock + 5 \in Int
    BY <1>c
  <2> QED BY <1>3, <2>1, <2>2
<1>6. CASE Toggle
  <2>1. /\ Watching /\ at' = at /\ goingTo' = goingTo /\ mode' = mode /\ concept' = concept
        /\ untouched' = FALSE /\ (clock' = clock \/ clock' = 0)
        /\ shown => Commit(FALSE)
        /\ ~shown => Commit(TRUE)
    BY <1>6 DEF Toggle
  <2>2. OneFrameLoop' /\ playing' \in BOOLEAN /\ shown' \in BOOLEAN /\ (loops' = 0 \/ loops' = 1)
    <3>1. CASE shown
      BY <1>0, <1>s, <2>1, <3>1, CommitLoops
    <3>2. CASE ~shown
      BY <1>0, <1>s, <2>1, <3>2, CommitLoops
    <3> QED BY <3>1, <3>2
  <2>c. clock' \in 0..Longest
    BY <1>c, <2>1
  <2>3. LearnTypes'
    BY <1>0, <1>s, <2>1, <2>2, <2>c DEF LearnTypes
  <2>4. OnCourse'
    BY <2>1 DEF OnCourse
  <2> QED BY <2>2, <2>3, <2>4
<1>7. CASE RailClick
  <2>1. PICK c \in ToSet(Chapters[at.model]) : clock' = ChapterStart(at.model, c) /\ goingTo' = c
    BY <1>7 DEF RailClick
  <2>2. /\ Watching /\ at' = at /\ mode' = "play" /\ concept' = concept /\ untouched' = TRUE
        /\ Commit(IF shown THEN playing ELSE TRUE)
    BY <1>7 DEF RailClick
  <2>3. OneFrameLoop' /\ playing' \in BOOLEAN /\ shown' \in BOOLEAN /\ (loops' = 0 \/ loops' = 1)
    <3> DEFINE p == IF shown THEN playing ELSE TRUE
    <3>1. p \in BOOLEAN /\ (p = shown => shown = playing) /\ Commit(p)
      BY <1>0, <2>2
    <3> HIDE DEF p
    <3> QED BY <1>0, <1>s, <2>2, <3>1, CommitLoops
  <2>4. clock' \in 0..Longest /\ c # "" /\ at.model \in Models
    <3>1. ChapterStart(at.model, c) \in 0..TotalDuration[at.model]
      BY <1>0, <2>1, <2>2, ChapterBegins
    <3>2. TotalDuration[at.model] \in 0..Longest
      BY <1>0, <2>2, DurationsBounded
    <3>3. c # ""
      BY <1>0, <2>1, <2>2, ContentHolds
    <3>4. clock' \in 0..Longest
      BY <1>c, <2>1, <3>1, <3>2
    <3> QED BY <1>0, <2>2, <3>3, <3>4
  <2>5. LearnTypes'
    BY <1>0, <1>s, <2>1, <2>2, <2>3, <2>4 DEF LearnTypes
  <2>6. OnCourse'
    BY <2>1, <2>2, <2>4 DEF OnCourse, Aim
  <2> QED BY <2>3, <2>5, <2>6
<1>8. CASE Arrive
  <2>1. /\ Watching /\ goingTo # "" /\ at' = [at EXCEPT !.slug = goingTo] /\ goingTo' = ""
        /\ clock' = Opened(at', at) /\ untouched' = (untouched \/ at' # at)
        /\ playing' = playing /\ shown' = shown /\ loops' = loops /\ mode' = mode /\ concept' = concept
    BY <1>8 DEF Arrive
  <2>2. at.model \in Models /\ goingTo \in ToSet(Chapters[at.model])
    BY <1>0, <2>1
  <2>3. at' = [model |-> at.model, slug |-> goingTo]
    <3>1. at = [model |-> at.model, slug |-> at.slug]
      BY <1>0, <2>2, Addresses
    <3> QED BY <2>1, <3>1
  <2>4. at' \in Places /\ Watching' /\ at'.model = at.model /\ at'.slug = goingTo
    BY <2>2, <2>3, ChapterAddress DEF Watching
  <2>5. clock' \in 0..Longest
    BY <1>0, <1>c, <2>1, <2>4, OpenedOnTheClock
  <2>6. LearnTypes'
    BY <1>0, <1>l, <2>1, <2>4, <2>5 DEF LearnTypes
  <2>7. OneFrameLoop'
    BY <2>1, <2>4 DEF OneFrameLoop
  <2>8. OnCourse'
    <3>0. goingTo' = "" /\ Aim' = at'.slug
      BY <2>1 DEF Aim
    <3>1. Known(at')
      BY <2>2, <2>4 DEF Known, Watching
    <3>2. CASE at' # at
      <4>1. clock' = ChapterStart(at'.model, at'.slug)
        BY <2>1, <3>1, <3>2 DEF Opened
      <4> QED BY <3>0, <4>1 DEF OnCourse
    <3>3. CASE at' = at
      <4>1. clock' = clock /\ untouched' = untouched
        BY <1>0, <2>1, <3>3 DEF Opened, Watching
      <4>2. Aim = goingTo /\ at'.slug = goingTo
        BY <2>1, <2>4 DEF Aim
      <4>3. untouched => clock = ChapterStart(at.model, goingTo)
        BY <2>1, <2>2, <4>2 DEF OnCourse
      <4>4. untouched' => clock' = ChapterStart(at'.model, at'.slug)
        BY ONLY <2>4, <4>1, <4>2, <4>3
      <4> QED BY ONLY <3>0, <4>4 DEF OnCourse
    <3> QED BY <3>2, <3>3
  <2> QED BY <2>6, <2>7, <2>8
<1>9. CASE SetMode
  <2>1. /\ at' = at /\ goingTo' = goingTo /\ clock' = clock /\ playing' = playing /\ shown' = shown
        /\ loops' = loops /\ concept' = concept /\ untouched' = untouched /\ mode' \in {"play", "text"}
    BY <1>9 DEF SetMode
  <2>2. LearnTypes'
    BY <1>0, <1>c, <1>l, <1>s, <2>1 DEF LearnTypes
  <2>3. OneFrameLoop' /\ OnCourse'
    BY <1>s, <2>1 DEF OneFrameLoop, OnCourse, Aim
  <2> QED BY <2>2, <2>3
<1>10. CASE Visit
  <2>1. /\ goingTo = "" /\ goingTo' = "" /\ at' \in Places /\ at' # at
        /\ clock' = IF Page(at') = "walkthrough" THEN Opened(at', at) ELSE 0
        /\ untouched' = Known(at')
    BY <1>10 DEF Visit
  <2>2. clock' \in 0..Longest
    <3>1. Opened(at', at) \in 0..Longest
      BY <1>0, <1>c, <2>1, OpenedOnTheClock
    <3>2. clock' = Opened(at', at) \/ clock' = 0
      BY <2>1
    <3> QED BY <1>c, <3>1, <3>2
  <2>3. concept' = "" \/ \E m \in Models : \E i \in Indices(Concepts[m]) : concept' = Concepts[m][i].slug
    <3>1. concept' = concept \/ concept' = "" \/ (at' # Away /\ concept' = Concepts[at'.model][1].slug)
      BY <1>10 DEF Visit
    <3>2. ASSUME at' # Away, concept' = Concepts[at'.model][1].slug
          PROVE  \E m \in Models : \E i \in Indices(Concepts[m]) : concept' = Concepts[m][i].slug
      <4>1. at'.model \in Models
        BY <2>1, <3>2, Addresses
      <4>2. 1 \in Indices(Concepts[at'.model])
        BY <4>1, FirstConcept
      <4> QED BY <3>2, <4>1, <4>2
    <3> QED BY <1>0, <3>1, <3>2
  <2>4. /\ playing' \in BOOLEAN /\ shown' \in BOOLEAN /\ (loops' = 0 \/ loops' = 1)
        /\ mode' \in {"play", "text"} /\ OneFrameLoop'
    <3>1. CASE Page(at') = "walkthrough" /\ Watching
      <4>1. Watching' /\ playing' = playing /\ shown' = shown /\ loops' = loops /\ mode' = mode
        BY <1>10, <3>1 DEF Visit, Watching
      <4> QED BY <1>0, <1>l, <3>1, <4>1 DEF OneFrameLoop
    <3>2. CASE ~(Page(at') = "walkthrough" /\ Watching)
      <4>1. playing' = FALSE /\ shown' = FALSE /\ loops' = 0 /\ mode' \in {"play", "text"}
        BY <1>10, <3>2 DEF Visit
      <4> QED BY <4>1 DEF OneFrameLoop
    <3> QED BY <3>1, <3>2
  <2>5. untouched' \in BOOLEAN
    BY <2>1 DEF Known
  <2>6. LearnTypes'
    BY <2>1, <2>2, <2>3, <2>4, <2>5 DEF LearnTypes
  <2>7. OnCourse'
    <3>1. CASE Known(at')
      <4>1. clock' = ChapterStart(at'.model, at'.slug)
        BY <2>1, <3>1 DEF Opened, Known
      <4> QED BY <2>1, <4>1 DEF OnCourse, Aim
    <3>2. CASE ~Known(at')
      BY <2>1, <3>2 DEF OnCourse
    <3> QED BY <3>1, <3>2
  <2> QED BY <2>4, <2>6, <2>7
<1>11. CASE PickConcept
  <2>1. PICK i \in Indices(Concepts[at.model]) : concept' = Concepts[at.model][i].slug
    BY <1>11 DEF PickConcept
  <2>2. /\ at' = at /\ goingTo' = goingTo /\ clock' = clock /\ playing' = playing /\ shown' = shown
        /\ loops' = loops /\ mode' = mode /\ untouched' = untouched /\ at.model \in Models
    BY <1>0, <1>11, Addresses DEF PickConcept, player
  <2>3. LearnTypes'
    BY <1>0, <1>c, <1>l, <1>s, <2>1, <2>2 DEF LearnTypes
  <2>4. OneFrameLoop' /\ OnCourse'
    BY <1>s, <2>2 DEF OneFrameLoop, OnCourse, Aim
  <2> QED BY <2>3, <2>4
<1> QED BY <1>1, <1>2, <1>4, <1>5, <1>6, <1>7, <1>8, <1>9, <1>10, <1>11 DEF Next

\* The inductive invariant of a verdict's page: one request at most, and it is of the
\* topic that the route names.
VerdictRequests ==
    /\ \A r, q \in flight : r = q
    /\ \A r \in flight :
          /\ r \in [topic : Shelf, phase : {"asked", "ok", "refused"}, verdict : V!Artefact \cup {None}]
          /\ r.topic = link
          /\ r.phase = "ok" => r.verdict \in V!Artefact
VerdictInv == V!TypeOK /\ VerdictRequests /\ V!VerdictFollowsLink

\* Whatever the pipeline stores, the page does not contradict itself about it.
LEMMA ArtefactsAgree ==
  ASSUME NEW a \in V!Artefact
  PROVE  LET p == V!Page(a)
         IN  /\ p.heading = "Why it does not suit this model" <=> p.banner.label = "Not for this model"
             /\ p.heading = "Why it suits this model" => p.banner.tone = "ok"
             /\ p.data <=> p.banner.label \in {"Good fit", "Not for this model"}
             /\ p.banner.label = "Gather the data first" => p.collect
<1> DEFINE p == V!Page(a)
<1>1. PICK c \in V!Found \cup V!Missing :
        a = [verdict |-> V!decide_verdict_value(c), dataset |-> c.dataset,
             outcome |-> c.outcome, api_path |-> c.apis]
  BY DEF V!Artefact
<1>2. /\ a.verdict = V!decide_verdict_value(c) /\ a.dataset = c.dataset
      /\ a.outcome = c.outcome /\ a.api_path = c.apis
  BY <1>1
<1>3. /\ p.banner = V!VERDICT_PRESENTATION[a.verdict] /\ p.data = c.dataset
      /\ p.collect = (c.apis # <<>>)
      /\ c.outcome = "pass" => p.heading = "Why it suits this model"
      /\ c.outcome = "fail" => p.heading = "Why it does not suit this model"
      /\ c.outcome \notin {"pass", "fail"} => p.heading = "How it fits this model"
  BY <1>2 DEF V!Page
<1> HIDE DEF p
<1>4. /\ a.verdict = "buildable_now" => p.banner.label = "Good fit" /\ p.banner.tone = "ok"
      /\ a.verdict = "buildable_after_collection" => p.banner.label = "Gather the data first"
      /\ a.verdict = "not_at_this_step" => p.banner.label = "Not for this model"
      /\ a.verdict = "not_at_hobby_scale" => p.banner.label = "Nothing usable"
  <2> DEFINE w == V!VERDICT_PRESENTATION
  <2>2. p.banner = w[a.verdict]
    BY <1>3
  <2>3. /\ w["buildable_now"].label = "Good fit" /\ w["buildable_now"].tone = "ok"
        /\ w["buildable_after_collection"].label = "Gather the data first"
        /\ w["not_at_this_step"].label = "Not for this model"
        /\ w["not_at_hobby_scale"].label = "Nothing usable"
    BY ONLY DEF V!VERDICT_PRESENTATION
  <2> HIDE DEF w
  <2> QED BY ONLY <2>2, <2>3, Zenon
<1>5. CASE c \in V!Found
  <2>1. c.dataset = TRUE /\ c.outcome \in {"pass", "fail", "unconfirmed", "none"}
    BY <1>5 DEF V!Found, V!Outcome
  <2>2. CASE c.outcome = "fail"
    <3>1. a.verdict = "not_at_this_step"
      BY <1>2, <2>1, <2>2 DEF V!decide_verdict_value
    <3> QED BY <1>3, <1>4, <2>1, <2>2, <3>1 DEF p
  <2>3. CASE c.outcome # "fail"
    <3>1. a.verdict = "buildable_now"
      BY <1>2, <2>1, <2>3 DEF V!decide_verdict_value
    <3> QED BY <1>3, <1>4, <2>1, <2>3, <3>1 DEF p
  <2> QED BY <2>2, <2>3
<1>6. CASE c \in V!Missing
  <2>1. c.dataset = FALSE /\ c.outcome = "none"
    BY <1>6 DEF V!Missing
  <2>2. CASE TRUE \in {c.apis[i] : i \in DOMAIN c.apis}
    <3>1. a.verdict = "buildable_after_collection"
      BY <1>2, <2>1, <2>2 DEF V!decide_verdict_value
    <3>2. c.apis # <<>>
      <4>1. PICK i \in DOMAIN c.apis : TRUE
        BY <2>2
      <4>2. DOMAIN <<>> = {}
        OBVIOUS
      <4> QED BY <4>1, <4>2
    <3> QED BY <1>3, <1>4, <2>1, <3>1, <3>2 DEF p
  <2>3. CASE TRUE \notin {c.apis[i] : i \in DOMAIN c.apis}
    <3>1. a.verdict = "not_at_hobby_scale"
      BY <1>2, <2>1, <2>3 DEF V!decide_verdict_value
    <3> QED BY <1>3, <1>4, <2>1, <3>1 DEF p
  <2> QED BY <2>2, <2>3
<1> QED BY <1>1, <1>5, <1>6

\* Whatever verdict the page shows agrees with itself, because only such artefacts are stored.
LEMMA VerdictShows == VerdictInv => V!PageAgreesWithItself
<1> SUFFICES ASSUME VerdictInv, record # None PROVE V!PageAgreesWithItself
  BY DEF V!PageAgreesWithItself
<1>1. record.verdict \in V!Artefact
  BY DEF VerdictInv, V!TypeOK
<1> QED BY <1>1, ArtefactsAgree DEF V!PageAgreesWithItself

\* The verdict page starts in its invariant.
LEMMA VerdictInit == V!Init => VerdictInv
<1> SUFFICES ASSUME V!Init PROVE VerdictInv
  OBVIOUS
<1>1. flight = {V!Ask(link)} /\ link \in Shelf
  BY DEF V!Init
<1>2. VerdictRequests
  BY <1>1 DEF VerdictRequests, V!Ask
<1>3. V!TypeOK
  <2>1. \A r \in flight : r.topic \in Shelf /\ r.phase \in {"asked", "ok", "refused"}
    BY <1>1 DEF V!Ask
  <2> QED BY <1>1, <2>1 DEF V!Init, V!TypeOK
<1>4. V!VerdictFollowsLink
  BY <1>1 DEF V!VerdictFollowsLink
<1> QED BY <1>2, <1>3, <1>4 DEF VerdictInv

\* Every step of the verdict page keeps its invariant.
LEMMA VerdictStep == VerdictInv /\ V!Next => VerdictInv'
<1> SUFFICES ASSUME VerdictInv, V!Next PROVE VerdictInv'
  OBVIOUS
<1>0. /\ V!TypeOK /\ VerdictRequests /\ V!VerdictFollowsLink
      /\ link \in Shelf /\ stored \in [Shelf -> V!Artefact \cup {None}]
      /\ record = None \/ record \in [topic : Shelf, verdict : V!Artefact]
      /\ loading \in BOOLEAN /\ error \in BOOLEAN
  BY DEF VerdictInv, V!TypeOK
<1>1. ASSUME NEW t \in Shelf, V!Follow(t) PROVE VerdictInv'
  <2>1. /\ link' = t /\ flight' = {V!Ask(t)} /\ stored' = stored /\ record' = record
        /\ loading' = loading /\ error' = error
    BY <1>1 DEF V!Follow, V!Survives
  <2>2. VerdictRequests'
    BY <2>1 DEF VerdictRequests, V!Ask
  <2>3. V!TypeOK'
    BY <1>0, <2>1 DEF V!TypeOK, V!Ask
  <2>4. V!VerdictFollowsLink'
    BY <2>1 DEF V!VerdictFollowsLink
  <2> QED BY <2>2, <2>3, <2>4 DEF VerdictInv
<1>2. ASSUME NEW t \in Shelf, V!Store(t) PROVE VerdictInv'
  <2>1. PICK a \in V!Artefact : stored' = [stored EXCEPT ![t] = a]
    BY <1>2 DEF V!Store
  <2>2. link' = link /\ record' = record /\ loading' = loading /\ error' = error /\ flight' = flight
    BY <1>2 DEF V!Store
  <2>3. stored' \in [Shelf -> V!Artefact \cup {None}]
    BY <1>0, <2>1
  <2>4. VerdictRequests'
    BY <1>0, <2>2 DEF VerdictRequests
  <2>5. V!TypeOK'
    BY <1>0, <2>2, <2>3 DEF V!TypeOK
  <2>6. V!VerdictFollowsLink'
    BY <1>0, <2>2 DEF V!VerdictFollowsLink
  <2> QED BY <2>4, <2>5, <2>6 DEF VerdictInv
<1>3. ASSUME NEW r \in flight, NEW q, flight' = (flight \ {r}) \cup {q},
             q \in [topic : Shelf, phase : {"asked", "ok", "refused"}, verdict : V!Artefact \cup {None}],
             q.topic = r.topic, q.phase = "ok" => q.verdict \in V!Artefact,
             link' = link, stored' = stored, record' = record, loading' = loading, error' = error
      PROVE  VerdictInv'
  <2>1. flight' = {q} /\ q.topic = link
    BY <1>0, <1>3 DEF VerdictRequests
  <2>2. VerdictRequests'
    BY <1>3, <2>1 DEF VerdictRequests
  <2>3. V!TypeOK'
    BY <1>0, <1>3, <2>1 DEF V!TypeOK
  <2>4. V!VerdictFollowsLink'
    BY <2>1 DEF V!VerdictFollowsLink
  <2> QED BY <2>2, <2>3, <2>4 DEF VerdictInv
<1>4. ASSUME NEW r \in flight, V!Serve(r) PROVE VerdictInv'
  <2> DEFINE v == stored[r.topic]
             q == [r EXCEPT !.verdict = v, !.phase = IF v = None THEN "refused" ELSE "ok"]
  <2>1. /\ flight' = (flight \ {r}) \cup {q}
        /\ link' = link /\ stored' = stored /\ record' = record /\ loading' = loading /\ error' = error
    BY <1>4 DEF V!Serve
  <2>2. /\ r \in [topic : Shelf, phase : {"asked", "ok", "refused"}, verdict : V!Artefact \cup {None}]
        /\ v \in V!Artefact \cup {None}
    BY <1>0 DEF VerdictRequests
  <2>3. q.topic = r.topic /\ q.phase = (IF v = None THEN "refused" ELSE "ok") /\ q.verdict = v
    BY <2>2
  <2>4. q \in [topic : Shelf, phase : {"asked", "ok", "refused"}, verdict : V!Artefact \cup {None}]
    BY <2>2
  <2> HIDE DEF q, v
  <2>5. q.phase = "ok" => q.verdict \in V!Artefact
    BY <2>2, <2>3
  <2> QED BY <1>3, <2>1, <2>3, <2>4, <2>5
<1>5. ASSUME NEW r \in flight, V!Lose(r) PROVE VerdictInv'
  <2> DEFINE q == [r EXCEPT !.phase = "refused", !.verdict = None]
  <2>1. /\ flight' = (flight \ {r}) \cup {q}
        /\ link' = link /\ stored' = stored /\ record' = record /\ loading' = loading /\ error' = error
    BY <1>5 DEF V!Lose
  <2>2. r \in [topic : Shelf, phase : {"asked", "ok", "refused"}, verdict : V!Artefact \cup {None}]
    BY <1>0 DEF VerdictRequests
  <2>3. q.topic = r.topic /\ q.phase = "refused"
    BY <2>2
  <2>4. q \in [topic : Shelf, phase : {"asked", "ok", "refused"}, verdict : V!Artefact \cup {None}]
    BY <2>2
  <2> HIDE DEF q
  <2> QED BY <1>3, <2>1, <2>3, <2>4
<1>6. ASSUME NEW r \in flight, V!Lands(r) \/ V!Fails(r) PROVE VerdictInv'
  <2>1. flight' = {} /\ loading' = FALSE /\ link' = link /\ stored' = stored
    BY <1>0, <1>6 DEF V!Lands, V!Fails, VerdictRequests
  <2>2. /\ r \in [topic : Shelf, phase : {"asked", "ok", "refused"}, verdict : V!Artefact \cup {None}]
        /\ r.topic = link /\ (r.phase = "ok" => r.verdict \in V!Artefact)
    BY <1>0 DEF VerdictRequests
  <2>3. CASE V!Lands(r)
    <3>1. r.phase = "ok" /\ record' = [topic |-> r.topic, verdict |-> r.verdict] /\ error' = error
      BY <2>3 DEF V!Lands
    <3>2. record' \in [topic : Shelf, verdict : V!Artefact] /\ record'.topic = link
      BY <2>2, <3>1
    <3>3. V!VerdictFollowsLink' /\ V!TypeOK' /\ VerdictRequests'
      <4>1. VerdictRequests'
        BY <2>1 DEF VerdictRequests
      <4>2. V!TypeOK'
        BY <1>0, <2>1, <3>1, <3>2 DEF V!TypeOK
      <4>3. V!VerdictFollowsLink'
        BY <2>1, <3>2, ScreensAssumption DEF V!VerdictFollowsLink, V!VerdictPageConstants
      <4> QED BY <4>1, <4>2, <4>3
    <3> QED BY <3>3 DEF VerdictInv
  <2>4. CASE V!Fails(r)
    <3>1. error' = TRUE /\ record' = record
      BY <2>4 DEF V!Fails
    <3>2. VerdictRequests'
      BY <2>1 DEF VerdictRequests
    <3>3. V!TypeOK'
      BY <1>0, <2>1, <3>1 DEF V!TypeOK
    <3>4. V!VerdictFollowsLink'
      BY <2>1, <3>1 DEF V!VerdictFollowsLink
    <3> QED BY <3>2, <3>3, <3>4 DEF VerdictInv
  <2> QED BY <1>6, <2>3, <2>4
<1> QED BY <1>1, <1>2, <1>4, <1>5, <1>6 DEF V!Next

\* The inductive invariant of the training pages.  A read on the wire is of the page and
\* the route that are shown; every job list that lands, and the rows, unless a read is
\* still to come, are at most behind the server, never beside it.
Behind(G, s) == \A j \in Job : G[j] = s[j] \/ (G[j] \in T!ACTIVE /\ s[j] \in {"running", "ended"})
Current(r, m, u) ==
    /\ r.kind \in {"models", "jobs"} => r.mount = m /\ r.url = u
    /\ r.kind = "jobs" => r.why # "form"
    /\ r.kind = "models" => r.why = "load"
    /\ u = "list" /\ r.kind = "run" => r.mount # m
    /\ r.kind = "clear" => r.why = "clear" /\ (r.mount = m => u = "list")
ToCome(r, m) == r.mount = m /\ r.kind # "run" /\ r.why # "poll"

TrainingCounts ==
    /\ mount \in Nat \ {0} /\ lost \in Nat /\ mount + lost <= MaxMoves + 2
    /\ route # "list" => mount + lost <= MaxMoves + 1
    /\ lost <= MaxMoves
TrainingFlags ==
    /\ loading \in BOOLEAN /\ error \in BOOLEAN /\ clearing \in BOOLEAN /\ busy \in BOOLEAN
    /\ raced \in BOOLEAN
TrainingData ==
    /\ route \in Model \cup {"list"} /\ srv \in T!Rows /\ rows \in T!Rows
    /\ formOf \in Model \cup {None} /\ values \in T!Values
TrainingRequests ==
    \A r \in flight : r \in T!Request /\ r.mount <= mount /\ Current(r, mount, route)
RowsAreBehind ==
    route = "list" /\ ~raced =>
        /\ \A r \in flight : r.kind = "jobs" /\ r.phase = "ok" => Behind(r.got, srv)
        /\ ~error => Behind(rows, srv) \/ \E r \in flight : ToCome(r, mount)
PageIsCurrent ==
    route # "list" => error \/ formOf = route \/ \E r \in flight : r.kind = "models"
TrainingInv ==
    /\ TrainingCounts /\ TrainingFlags /\ TrainingData /\ TrainingRequests
    /\ RowsAreBehind /\ PageIsCurrent /\ T!DefaultsFollowDataset

\* What is seen of it.
LEMMA TrainingShows ==
  TrainingInv => T!TypeOK /\ T!RestingRowsAreTrue /\ T!ShownModelIsCurrent /\ T!DefaultsFollowDataset
<1> SUFFICES ASSUME TrainingInv
             PROVE  T!TypeOK /\ T!RestingRowsAreTrue /\ T!ShownModelIsCurrent /\ T!DefaultsFollowDataset
  OBVIOUS
<1>1. T!TypeOK
  <2>0. MaxMoves \in Nat
    BY ScreensAssumption DEF T!TrainingPagesConstants
  <2>1. mount \in 1..MaxMoves + 2 /\ lost \in 0..MaxMoves
    BY <2>0 DEF TrainingInv, TrainingCounts
  <2>2. flight \subseteq T!Request /\ \A r \in flight : r.mount <= mount
    BY DEF TrainingInv, TrainingRequests
  <2>3. TrainingFlags /\ TrainingData
    BY DEF TrainingInv
  <2> QED BY <2>1, <2>2, <2>3 DEF T!TypeOK, TrainingFlags, TrainingData
<1>2. T!RestingRowsAreTrue
  <2> SUFFICES ASSUME route = "list", ~T!Polls, ~error, ~raced,
                      \A r \in flight : ~T!Mounted(r) \/ r.kind = "run"
               PROVE  rows = srv
    BY DEF T!RestingRowsAreTrue
  <2>1. ~\E r \in flight : ToCome(r, mount)
    BY DEF ToCome, T!Mounted
  <2>2. Behind(rows, srv)
    BY <2>1 DEF TrainingInv, RowsAreBehind
  <2>3. \A j \in Job : rows[j] \notin T!ACTIVE
    BY DEF T!Polls, T!HasActive
  <2>4. \A j \in Job : rows[j] = srv[j]
    BY <2>2, <2>3 DEF Behind
  <2>5. rows \in T!Rows /\ srv \in T!Rows
    BY DEF TrainingInv, TrainingData
  <2> QED BY <2>4, <2>5 DEF T!Rows
<1>3. T!ShownModelIsCurrent
  BY DEF TrainingInv, PageIsCurrent, T!ShownModelIsCurrent
<1> QED BY <1>1, <1>2, <1>3 DEF TrainingInv

\* A request as it is made, and as it is answered.
LEMMA TrainingAsked ==
  ASSUME NEW k \in T!Kind, NEW w \in T!Why, NEW n \in Nat, NEW i \in Nat, NEW u \in Model \cup {"list"}
  PROVE  /\ T!Ask(k, w, n, i, u) \in T!Request
         /\ T!Ask(k, w, n, i, u).kind = k /\ T!Ask(k, w, n, i, u).why = w
         /\ T!Ask(k, w, n, i, u).mount = n /\ T!Ask(k, w, n, i, u).url = u
         /\ T!Ask(k, w, n, i, u).phase = "asked"
<1>1. T!NoRows \in T!Rows
  BY DEF T!NoRows, T!Rows, T!Status
<1> QED BY <1>1 DEF T!Ask, T!Request

\* An answered request is a request that has its answer and is otherwise what was sent.
LEMMA TrainingAnswered ==
  ASSUME NEW r \in T!Request, NEW p \in {"ok", "refused"}, NEW G \in T!Rows
  PROVE  LET q == [r EXCEPT !.phase = p, !.got = G]
         IN  /\ q \in T!Request /\ q.kind = r.kind /\ q.why = r.why /\ q.mount = r.mount
             /\ q.url = r.url /\ q.phase = p /\ q.got = G
  BY DEF T!Request

\* A refused request is a request that is otherwise what was sent.
LEMMA TrainingRefused ==
  ASSUME NEW r \in T!Request
  PROVE  LET q == [r EXCEPT !.phase = "refused"]
         IN  /\ q \in T!Request /\ q.kind = r.kind /\ q.why = r.why /\ q.mount = r.mount
             /\ q.url = r.url /\ q.phase = "refused"
  BY DEF T!Request

\* The form: it follows its dataset when it is seeded, after a choice, and after a key.
Ov == [m \in Model |-> [d \in Dataset |-> IF m = "step0" THEN {} ELSE {"epochs"}]]
Follows(v, m) ==
    \A f \in Field : v.of[f] \in {"typed", IF f \in Ov[m][v.dataset] THEN v.dataset ELSE "base"}

\* The page's property in the words of the lemmas below.
LEMMA FollowsMeans == T!DefaultsFollowDataset <=> (formOf # None => Follows(values, formOf))
  BY DEF T!DefaultsFollowDataset, Follows, Ov

\* A dataset's defaults replace the fields it owns and leave the others alone.
LEMMA Overlay ==
  ASSUME NEW m \in Model, NEW d \in Dataset, NEW v \in T!Values
  PROVE  LET u == T!WithDatasetDefaults(m, v, d)
         IN  /\ u \in T!Values /\ u.dataset = v.dataset
             /\ \A f \in Field : u.of[f] = IF f \in Ov[m][d] THEN d ELSE v.of[f]
<1> DEFINE of == [f \in Field |-> IF f \in Ov[m][d] THEN d ELSE v.of[f]]
<1>1. v = [dataset |-> v.dataset, of |-> v.of] /\ v.dataset \in Dataset /\ v.of \in [Field -> T!Source]
  BY DEF T!Values
<1>2. of \in [Field -> T!Source] /\ \A f \in Field : of[f] = IF f \in Ov[m][d] THEN d ELSE v.of[f]
  BY <1>1 DEF T!Source
<1>3. T!WithDatasetDefaults(m, v, d) = [v EXCEPT !.of = of]
  BY DEF T!WithDatasetDefaults, Ov
<1> HIDE DEF of
<1>4. T!WithDatasetDefaults(m, v, d) = [dataset |-> v.dataset, of |-> of]
  BY <1>1, <1>3
<1> QED BY <1>1, <1>2, <1>4 DEF T!Values

\* The form a model opens with follows its dataset.
LEMMA FormSeeded ==
  ASSUME NEW m \in Model
  PROVE  T!InitialValues(m) \in T!Values /\ Follows(T!InitialValues(m), m)
<1> DEFINE v == [dataset |-> T!SomeDataset, of |-> [f \in Field |-> "base"]]
<1>1. T!SomeDataset \in Dataset
  BY ScreensAssumption DEF T!TrainingPagesConstants, T!SomeDataset
<1>2. v \in T!Values /\ v.dataset = T!SomeDataset /\ \A f \in Field : v.of[f] = "base"
  BY <1>1 DEF T!Values, T!Source
<1>3. T!InitialValues(m) = T!WithDatasetDefaults(m, v, T!SomeDataset)
  BY DEF T!InitialValues
<1> HIDE DEF v
<1>4. /\ T!InitialValues(m) \in T!Values /\ T!InitialValues(m).dataset = T!SomeDataset
      /\ \A f \in Field : T!InitialValues(m).of[f] = IF f \in Ov[m][T!SomeDataset] THEN T!SomeDataset ELSE v.of[f]
  BY <1>1, <1>2, <1>3, Overlay
<1> QED BY <1>2, <1>4 DEF Follows

\* A form that follows its dataset follows the next one after a choice.
LEMMA FormChosen ==
  ASSUME NEW m \in Model, NEW d \in Dataset, NEW v \in T!Values, Follows(v, m)
  PROVE  T!SetDataset(v, m, d) \in T!Values /\ Follows(T!SetDataset(v, m, d), m)
<1> DEFINE u == [v EXCEPT !.dataset = d]
           w == T!SetDataset(v, m, d)
<1>1. v = [dataset |-> v.dataset, of |-> v.of] /\ v.dataset \in Dataset /\ v.of \in [Field -> T!Source]
  BY DEF T!Values
<1>2. u = [dataset |-> d, of |-> v.of]
  BY <1>1
<1>3. u \in T!Values /\ u.dataset = d /\ u.of = v.of
  BY <1>1, <1>2 DEF T!Values
<1>4. w = T!WithDatasetDefaults(m, u, d)
  BY DEF T!SetDataset
<1> HIDE DEF u, w
<1>5. /\ w \in T!Values /\ w.dataset = d
      /\ \A f \in Field : w.of[f] = IF f \in Ov[m][d] THEN d ELSE v.of[f]
  BY <1>3, <1>4, Overlay
<1>6. Ov[m][d] = Ov[m][v.dataset]
  BY <1>1 DEF Ov
<1>7. Follows(w, m)
  BY <1>5, <1>6 DEF Follows
<1> QED BY <1>5, <1>7 DEF w

\* A form that follows its dataset still does after a key.
LEMMA FormTyped ==
  ASSUME NEW m \in Model, NEW f \in Field, NEW v \in T!Values, Follows(v, m)
  PROVE  [v EXCEPT !.of[f] = "typed"] \in T!Values /\ Follows([v EXCEPT !.of[f] = "typed"], m)
<1> DEFINE of == [v.of EXCEPT ![f] = "typed"]
           w == [v EXCEPT !.of[f] = "typed"]
<1>1. v = [dataset |-> v.dataset, of |-> v.of] /\ v.dataset \in Dataset /\ v.of \in [Field -> T!Source]
  BY DEF T!Values
<1>2. w = [dataset |-> v.dataset, of |-> of]
  BY <1>1
<1>3. of \in [Field -> T!Source] /\ \A g \in Field : of[g] = "typed" \/ of[g] = v.of[g]
  BY <1>1 DEF T!Source
<1> HIDE DEF of, w
<1>4. w.dataset = v.dataset /\ w.of = of /\ w \in T!Values
  BY <1>1, <1>2, <1>3 DEF T!Values
<1>5. Follows(w, m)
  BY <1>3, <1>4 DEF Follows
<1> QED BY <1>4, <1>5 DEF w

\* A request that joins the wire, or takes the place of one on it.
LEMMA WireKept ==
  ASSUME TrainingRequests, mount' = mount, route' = route,
         NEW q, q \in T!Request, q.mount <= mount, Current(q, mount, route), flight' \subseteq flight \cup {q}
  PROVE  TrainingRequests'
  BY DEF TrainingRequests

\* Requests that leave the wire leave the rest as they were.
LEMMA WireShrinks ==
  ASSUME TrainingRequests, mount' = mount, route' = route, flight' \subseteq flight
  PROVE  TrainingRequests'
  BY DEF TrainingRequests

\* The list stays behind the server where neither changes, unless what was to come is lost.
LEMMA RowsStayBehind ==
  ASSUME RowsAreBehind, mount' = mount, route' = route, srv' = srv, rows' = rows, raced => raced',
         \A x \in flight' : x.kind = "jobs" /\ x.phase = "ok" => x \in flight \/ Behind(x.got, srv),
         error' \/ (~error /\ \A r \in flight : ToCome(r, mount) => \E x \in flight' : ToCome(x, mount))
           \/ \E x \in flight' : ToCome(x, mount)
  PROVE  RowsAreBehind'
<1> SUFFICES ASSUME route = "list", ~raced'
             PROVE  /\ \A x \in flight' : x.kind = "jobs" /\ x.phase = "ok" => Behind(x.got, srv)
                    /\ ~error' => Behind(rows, srv) \/ \E x \in flight' : ToCome(x, mount)
  BY DEF RowsAreBehind
<1>1. ~raced
  OBVIOUS
<1>2. \A r \in flight : r.kind = "jobs" /\ r.phase = "ok" => Behind(r.got, srv)
  BY <1>1 DEF RowsAreBehind
<1>3. ~error => Behind(rows, srv) \/ \E r \in flight : ToCome(r, mount)
  BY <1>1 DEF RowsAreBehind
<1> QED BY <1>2, <1>3

\* The training pages start in their invariant.
LEMMA TrainingInit == T!Init => TrainingInv
<1> SUFFICES ASSUME T!Init PROVE TrainingInv
  OBVIOUS
<1> DEFINE q == T!Ask("models", "load", 1, 0, route)
<1>1. /\ route \in Model \cup {"list"} /\ mount = 1 /\ lost = 0 /\ rows = T!NoRows /\ raced = FALSE
      /\ loading = TRUE /\ error = FALSE /\ clearing = FALSE /\ busy = FALSE
      /\ formOf = None /\ values = T!Blank /\ flight = {q}
      /\ srv \in {T!NoRows} \cup {[T!NoRows EXCEPT ![j] = "queued"] : j \in Job}
  BY DEF T!Init
<1>2. T!NoRows \in T!Rows /\ srv \in T!Rows
  <2>1. T!NoRows \in T!Rows
    BY DEF T!NoRows, T!Rows, T!Status
  <2>2. \A j \in Job : [T!NoRows EXCEPT ![j] = "queued"] \in T!Rows
    BY <2>1 DEF T!Rows, T!Status
  <2> QED BY <1>1, <2>1, <2>2
<1>3. /\ q \in T!Request /\ q.kind = "models" /\ q.why = "load" /\ q.mount = 1 /\ q.url = route
      /\ q.phase = "asked"
  <2>1. "models" \in T!Kind /\ "load" \in T!Why /\ 1 \in Nat /\ 0 \in Nat
    BY DEF T!Kind, T!Why
  <2> HIDE DEF q
  <2> QED BY <1>1, <2>1, TrainingAsked DEF q
<1> HIDE DEF q
<1>4. values \in T!Values
  <2>1. (CHOOSE m \in Model : TRUE) \in Model
    BY ScreensAssumption DEF T!TrainingPagesConstants
  <2> QED BY <1>1, <2>1, FormSeeded DEF T!Blank
<1>5. TrainingCounts
  <2>1. MaxMoves \in Nat
    BY ScreensAssumption DEF T!TrainingPagesConstants
  <2> QED BY <1>1, <2>1 DEF TrainingCounts
<1>6. TrainingFlags
  BY <1>1 DEF TrainingFlags
<1>7. TrainingData
  BY <1>1, <1>2, <1>4 DEF TrainingData
<1>8. TrainingRequests
  BY <1>1, <1>3 DEF TrainingRequests, Current
<1>9. RowsAreBehind /\ PageIsCurrent
  BY <1>1, <1>3 DEF RowsAreBehind, PageIsCurrent, ToCome
<1>10. T!DefaultsFollowDataset
  BY <1>1 DEF T!DefaultsFollowDataset
<1> QED BY <1>5, <1>6, <1>7, <1>8, <1>9, <1>10 DEF TrainingInv

\* Another route: the reads of the one that is left are dropped.
LEMMA TrainingGoes ==
  ASSUME TrainingInv, NEW u \in Model \cup {"list"}, u # route, NEW remaining, remaining \subseteq flight,
         T!GoTo(u, remaining), mount + lost <= MaxMoves \/ route # "list",
         srv' = srv, raced' = raced, lost' = lost
  PROVE  TrainingInv'
<1> DEFINE same == route # "list" /\ u # "list"
           n == IF same THEN mount ELSE mount + 1
           q == T!Ask("models", "load", n, 0, u)
<1>0. TrainingCounts /\ TrainingFlags /\ TrainingData /\ TrainingRequests /\ T!DefaultsFollowDataset
  BY DEF TrainingInv
<1>1. route' = u /\ mount' = n
  BY DEF T!GoTo
<1>2. /\ q \in flight'
      /\ \A x \in flight' : x = q \/ (x \in flight /\ (x.kind \in {"clear", "run"} \/ (same /\ x.why = "form")))
  BY <1>1 DEF T!GoTo, T!Cancelled
<1>n. n \in Nat /\ n \in Nat \ {0} /\ mount \in Nat /\ mount <= n
  BY <1>0 DEF TrainingCounts
<1>3. q \in T!Request /\ q.kind = "models" /\ q.why = "load" /\ q.mount = n /\ q.url = u /\ q.phase = "asked"
  <2>1. "models" \in T!Kind /\ "load" \in T!Why /\ 0 \in Nat
    BY DEF T!Kind, T!Why
  <2> HIDE DEF q, n
  <2> QED BY <1>n, <2>1, TrainingAsked DEF q
<1>4. /\ same => /\ rows' = rows /\ loading' = loading /\ error' = error /\ clearing' = clearing
                 /\ formOf' = formOf /\ busy' = busy /\ values' = values
      /\ ~same => /\ rows' = T!NoRows /\ loading' = TRUE /\ error' = FALSE /\ clearing' = FALSE
                  /\ formOf' = None /\ busy' = FALSE /\ values' = T!Blank
  BY DEF T!GoTo, T!page
<1>5. TrainingCounts'
  <2>1. CASE same
    <3>1. n = mount
      BY <2>1
    <3> QED BY <1>0, <1>1, <2>1, <3>1 DEF TrainingCounts
  <2>2. CASE ~same
    <3>1. n = mount + 1
      BY <2>2
    <3>2. mount + lost <= MaxMoves \/ u = "list"
      BY <2>2
    <3>3. mount + lost <= MaxMoves + 1 /\ lost <= MaxMoves /\ mount \in Nat /\ lost \in Nat /\ MaxMoves \in Nat
      BY <1>0, ScreensAssumption DEF TrainingCounts, T!TrainingPagesConstants
    <3> HIDE DEF same, n
    <3>4. n \in Nat \ {0} /\ n + lost <= MaxMoves + 2
      BY <3>1, <3>3
    <3>5. u # "list" => n + lost <= MaxMoves + 1
      BY <3>1, <3>2, <3>3
    <3> QED BY <1>1, <3>3, <3>4, <3>5 DEF TrainingCounts
  <2> QED BY <2>1, <2>2
<1> HIDE DEF q
<1>6. TrainingRequests'
  <2> SUFFICES ASSUME NEW x \in flight' PROVE x \in T!Request /\ x.mount <= n /\ Current(x, n, u)
    BY <1>1 DEF TrainingRequests
  <2>1. CASE x = q
    BY <1>3, <1>n, <2>1 DEF Current
  <2>2. CASE x # q
    <3>1. x \in flight /\ (x.kind \in {"clear", "run"} \/ (same /\ x.why = "form"))
      BY <1>2, <2>2
    <3>2. x \in T!Request /\ x.mount <= mount /\ Current(x, mount, route) /\ x.mount \in Nat
      BY <1>0, <3>1 DEF TrainingRequests, T!Request
    <3>3. x.kind \notin {"models", "jobs"}
      BY <3>1, <3>2 DEF Current
    <3>4. u = "list" => x.mount # n
      <4>1. u = "list" => n = mount + 1
        OBVIOUS
      <4> HIDE DEF n
      <4> QED BY <1>n, <3>2, <4>1
    <3>5. x.mount <= n
      BY <1>n, <3>2
    <3>6. x.kind = "clear" => x.why = "clear" /\ (x.mount = n => u = "list")
      <4>1. CASE same
        <5>1. n = mount
          BY <4>1
        <5> QED BY <3>2, <4>1, <5>1 DEF Current
      <4>2. CASE ~same
        <5>1. n = mount + 1
          BY <4>2
        <5> HIDE DEF n
        <5>2. x.mount # n
          BY <1>n, <3>2, <5>1
        <5> QED BY <3>2, <5>2 DEF Current
      <4> QED BY <4>1, <4>2
    <3> QED BY <3>2, <3>3, <3>4, <3>5, <3>6 DEF Current
  <2> QED BY <2>1, <2>2
<1>7. RowsAreBehind'
  <2>1. ToCome(q, mount')
    BY <1>1, <1>3 DEF ToCome
  <2>2. \A x \in flight' : ~(x.kind = "jobs" /\ x.phase = "ok")
    <3> TAKE x \in flight'
    <3>1. CASE x = q
      BY <1>3, <3>1
    <3>2. CASE x # q
      <4>1. x \in flight /\ (x.kind \in {"clear", "run"} \/ (same /\ x.why = "form"))
        BY <1>2, <3>2
      <4>2. Current(x, mount, route)
        BY <1>0, <4>1 DEF TrainingRequests
      <4> QED BY <4>1, <4>2 DEF Current
    <3> QED BY <3>1, <3>2
  <2> QED BY <1>2, <2>1, <2>2 DEF RowsAreBehind
<1>8. PageIsCurrent'
  BY <1>2, <1>3 DEF PageIsCurrent
<1>9. TrainingFlags'
  BY <1>0, <1>4 DEF TrainingFlags
<1>10. TrainingData' /\ T!DefaultsFollowDataset'
  <2>1. CASE same
    BY <1>0, <1>1, <1>4, <2>1 DEF TrainingData, T!DefaultsFollowDataset
  <2>2. CASE ~same
    <3>1. T!NoRows \in T!Rows
      BY DEF T!NoRows, T!Rows, T!Status
    <3>2. T!Blank \in T!Values
      <4>1. (CHOOSE m \in Model : TRUE) \in Model
        BY ScreensAssumption DEF T!TrainingPagesConstants
      <4> QED BY <4>1, FormSeeded DEF T!Blank
    <3> QED BY <1>0, <1>1, <1>4, <2>2, <3>1, <3>2 DEF TrainingData, T!DefaultsFollowDataset
  <2> QED BY <2>1, <2>2
<1> QED BY <1>5, <1>6, <1>7, <1>8, <1>9, <1>10 DEF TrainingInv

\* A read that is made again and again, or a button that is pressed.
LEMMA TrainingAsks ==
  ASSUME TrainingInv, NEW k \in T!Kind, NEW w \in T!Why, NEW i \in Nat, NEW u \in Model \cup {"list"},
         Current(T!Ask(k, w, mount, i, u), mount, route), k # "run" \/ route # "list"
  PROVE  /\ T!Ask(k, w, mount, i, u) \in T!Request
         /\ \A x : x \subseteq flight \cup {T!Ask(k, w, mount, i, u)} /\ flight' = x
                     /\ mount' = mount /\ route' = route => TrainingRequests'
<1> DEFINE q == T!Ask(k, w, mount, i, u)
<1>1. mount \in Nat /\ TrainingRequests
  BY DEF TrainingInv, TrainingCounts
<1>2. q \in T!Request /\ q.mount = mount
  BY <1>1, TrainingAsked
<1>3. q.mount <= mount
  BY <1>1, <1>2
<1> HIDE DEF q
<1>4. Current(q, mount, route)
  BY DEF q
<1>5. ASSUME NEW x, x \subseteq flight \cup {q}, flight' = x, mount' = mount, route' = route
      PROVE  TrainingRequests'
  BY <1>1, <1>2, <1>3, <1>4, <1>5, WireKept
<1> QED BY <1>2, <1>5 DEF q

\* Every step of the training pages keeps their invariant.
LEMMA TrainingStep == TrainingInv /\ T!Next => TrainingInv'
<1> SUFFICES ASSUME TrainingInv, T!Next PROVE TrainingInv'
  OBVIOUS
<1>0. /\ TrainingCounts /\ TrainingFlags /\ TrainingData /\ TrainingRequests
      /\ RowsAreBehind /\ PageIsCurrent /\ T!DefaultsFollowDataset
  BY DEF TrainingInv
<1>a. "list" \notin Model /\ None \notin Model
  BY ScreensAssumption DEF T!TrainingPagesConstants
<1>f. formOf # None => Follows(values, formOf) /\ formOf \in Model /\ values \in T!Values
  BY <1>0, FollowsMeans DEF TrainingData
\* Only the form changes.
<1>1. ASSUME values' \in T!Values, formOf # None, Follows(values', formOf),
             UNCHANGED <<route, mount, srv, rows, loading, error, clearing, formOf, busy, flight, raced, lost>>
      PROVE  TrainingInv'
  <2>1. TrainingCounts' /\ TrainingFlags' /\ TrainingData'
    BY <1>0, <1>1 DEF TrainingCounts, TrainingFlags, TrainingData
  <2>2. TrainingRequests' /\ RowsAreBehind' /\ PageIsCurrent'
    BY <1>0, <1>1 DEF TrainingRequests, RowsAreBehind, PageIsCurrent
  <2>3. T!DefaultsFollowDataset'
    <3>1. formOf' = formOf
      BY <1>1
    <3> QED BY <1>1, <3>1 DEF T!DefaultsFollowDataset, Follows, Ov
  <2> QED BY <2>1, <2>2, <2>3 DEF TrainingInv
<1>2. ASSUME NEW d \in Dataset, T!Choose(d) PROVE TrainingInv'
  <2>1. /\ formOf # None /\ values' = T!SetDataset(values, formOf, d)
        /\ UNCHANGED <<route, mount, srv, rows, loading, error, clearing, formOf, busy, flight, raced, lost>>
    BY <1>2 DEF T!Choose
  <2>2. values' \in T!Values /\ Follows(values', formOf)
    BY <1>f, <2>1, FormChosen
  <2> QED BY <1>1, <2>1, <2>2
<1>3. ASSUME NEW f \in Field, T!Type(f) PROVE TrainingInv'
  <2>1. /\ formOf # None /\ values' = [values EXCEPT !.of[f] = "typed"]
        /\ UNCHANGED <<route, mount, srv, rows, loading, error, clearing, formOf, busy, flight, raced, lost>>
    BY <1>3 DEF T!Type
  <2>2. values' \in T!Values /\ Follows(values', formOf)
    BY <1>f, <2>1, FormTyped
  <2> QED BY <1>1, <2>1, <2>2
\* Only the wire changes, by what the page asks.
<1>4. ASSUME NEW k \in T!Kind, NEW w \in T!Why, NEW i \in Nat, NEW u \in Model \cup {"list"},
             Current(T!Ask(k, w, mount, i, u), mount, route), k # "run" \/ route # "list",
             flight' = flight \cup {T!Ask(k, w, mount, i, u)}, TrainingFlags',
             error' = error \/ ToCome(T!Ask(k, w, mount, i, u), mount), route = "list" \/ error' = error,
             UNCHANGED <<route, mount, srv, rows, formOf, values, raced, lost>>
      PROVE  TrainingInv'
  <2> DEFINE q == T!Ask(k, w, mount, i, u)
  <2>1. q.phase = "asked"
    BY DEF T!Ask
  <2>2. TrainingRequests'
    BY <1>4, TrainingAsks
  <2> HIDE DEF q
  <2>3. flight' = flight \cup {q}
    BY <1>4 DEF q
  <2>4. TrainingCounts' /\ TrainingData' /\ T!DefaultsFollowDataset'
    BY <1>0, <1>4 DEF TrainingCounts, TrainingData, T!DefaultsFollowDataset
  <2>5. RowsAreBehind'
    <3>1. \A x \in flight' : x.kind = "jobs" /\ x.phase = "ok" => x \in flight \/ Behind(x.got, srv)
      BY <2>1, <2>3
    <3>2. error' = error \/ ToCome(q, mount)
      BY <1>4 DEF q
    <3>3. error' \/ (~error /\ \A r \in flight : ToCome(r, mount) => \E x \in flight' : ToCome(x, mount))
           \/ \E x \in flight' : ToCome(x, mount)
      BY <2>3, <3>2
    <3> QED BY <1>0, <1>4, <3>1, <3>3, RowsStayBehind
  <2>6. PageIsCurrent'
    BY <1>0, <1>4, <2>3 DEF PageIsCurrent
  <2> QED BY <1>4, <2>2, <2>4, <2>5, <2>6 DEF TrainingInv
<1>5. CASE T!Submit
  <2>1. /\ route # "list" /\ busy' = TRUE /\ flight' = flight \cup {T!Ask("run", "form", mount, 0, route)}
        /\ UNCHANGED <<route, mount, srv, rows, loading, error, clearing, formOf, values, raced, lost>>
    BY <1>5 DEF T!Submit
  <2>2. Current(T!Ask("run", "form", mount, 0, route), mount, route)
    BY <2>1 DEF Current, T!Ask
  <2>3. TrainingFlags' /\ error' = error
    BY <1>0, <2>1 DEF TrainingFlags
  <2>4. "run" \in T!Kind /\ "form" \in T!Why /\ 0 \in Nat /\ route \in Model \cup {"list"}
    BY <1>0 DEF T!Kind, T!Why, TrainingData
  <2> QED BY <1>4, <2>1, <2>2, <2>3, <2>4
<1>6. CASE T!Tick
  <2>1. PICK i \in 1..JobPolls : flight' = flight \cup {T!Ask("jobs", "poll", mount, i, "list")}
    BY <1>6 DEF T!Tick
  <2>2. /\ route = "list"
        /\ UNCHANGED <<route, mount, srv, rows, loading, error, clearing, formOf, values, busy, raced, lost>>
    BY <1>6 DEF T!Tick, T!page
  <2>3. Current(T!Ask("jobs", "poll", mount, i, "list"), mount, route)
    BY <2>2 DEF Current, T!Ask
  <2>4. TrainingFlags' /\ error' = error
    BY <1>0, <2>2 DEF TrainingFlags
  <2>5. "jobs" \in T!Kind /\ "poll" \in T!Why /\ i \in Nat /\ "jobs" # "run"
    <3>1. JobPolls \in Nat
      BY ScreensAssumption DEF T!TrainingPagesConstants
    <3>2. i \in Nat
      BY <3>1
    <3> QED BY <3>2 DEF T!Kind, T!Why
  <2> QED BY <1>4, <2>1, <2>2, <2>3, <2>4, <2>5
<1>7. CASE T!ClearFinished
  <2>1. /\ route = "list" /\ clearing' = TRUE /\ error' = FALSE
        /\ flight' = flight \cup {T!Ask("clear", "clear", mount, 0, "list")}
        /\ UNCHANGED <<route, mount, srv, rows, loading, formOf, values, busy, raced, lost>>
    BY <1>7 DEF T!ClearFinished
  <2>2. /\ Current(T!Ask("clear", "clear", mount, 0, "list"), mount, route)
        /\ ToCome(T!Ask("clear", "clear", mount, 0, "list"), mount)
    BY <2>1 DEF Current, ToCome, T!Ask
  <2>3. TrainingFlags'
    BY <1>0, <2>1 DEF TrainingFlags
  <2>4. "clear" \in T!Kind /\ "clear" \in T!Why /\ 0 \in Nat /\ "clear" # "run"
    BY DEF T!Kind, T!Why
  <2> QED BY <1>4, <2>1, <2>2, <2>3, <2>4
<1>8. ASSUME NEW u \in Model \cup {"list"}, T!Navigate(u) PROVE TrainingInv'
  <2>1. u # route /\ mount + lost <= MaxMoves /\ T!GoTo(u, flight) /\ srv' = srv /\ raced' = raced /\ lost' = lost
    BY <1>8 DEF T!Navigate
  <2> QED BY <2>1, TrainingGoes
<1>9. ASSUME NEW j \in Job, T!Work(j) PROVE TrainingInv'
  <2>1. /\ srv[j] \in T!ACTIVE /\ srv' = [srv EXCEPT ![j] = IF srv[j] = "queued" THEN "running" ELSE "ended"]
        /\ UNCHANGED <<route, mount, rows, loading, error, clearing, formOf, values, busy, flight, raced, lost>>
    BY <1>9 DEF T!Work, T!page
  <2>2. srv \in T!Rows /\ srv' \in T!Rows
    BY <1>0, <2>1 DEF TrainingData, T!Rows, T!Status
  <2>3. ASSUME NEW G, Behind(G, srv) PROVE Behind(G, srv')
    <3> SUFFICES ASSUME NEW k \in Job
                 PROVE  G[k] = srv'[k] \/ (G[k] \in T!ACTIVE /\ srv'[k] \in {"running", "ended"})
      BY DEF Behind
    <3>1. G[k] = srv[k] \/ (G[k] \in T!ACTIVE /\ srv[k] \in {"running", "ended"})
      BY <2>3 DEF Behind
    <3>2. CASE k # j
      BY <2>1, <2>2, <3>1, <3>2 DEF T!Rows
    <3>3. CASE k = j
      <4>1. srv'[k] = IF srv[k] = "queued" THEN "running" ELSE "ended"
        BY <2>1, <2>2, <3>3 DEF T!Rows
      <4> QED BY <2>1, <3>1, <3>3, <4>1 DEF T!ACTIVE
    <3> QED BY <3>2, <3>3
  <2>4. TrainingCounts' /\ TrainingFlags'
    BY <1>0, <2>1 DEF TrainingCounts, TrainingFlags
  <2>5. TrainingData'
    BY <1>0, <2>1, <2>2 DEF TrainingData
  <2>6. TrainingRequests' /\ PageIsCurrent' /\ T!DefaultsFollowDataset'
    BY <1>0, <2>1 DEF TrainingRequests, PageIsCurrent, T!DefaultsFollowDataset
  <2>7. RowsAreBehind'
    BY <1>0, <2>1, <2>3 DEF RowsAreBehind
  <2> QED BY <2>4, <2>5, <2>6, <2>7 DEF TrainingInv

\* A request is answered: it stays on the wire as what it was.
<1>10. ASSUME NEW r \in flight, NEW q \in T!Request, flight' = (flight \ {r}) \cup {q},
              q.kind = r.kind, q.why = r.why, q.mount = r.mount, q.url = r.url,
              TrainingCounts', srv' \in T!Rows, raced' \in BOOLEAN,
              route = "list" /\ ~raced' =>
                 /\ ~raced
                 /\ \A x \in flight : x.kind = "jobs" /\ x.phase = "ok" /\ Behind(x.got, srv) => Behind(x.got, srv')
                 /\ q.kind = "jobs" /\ q.phase = "ok" => Behind(q.got, srv')
                 /\ Behind(rows, srv) => Behind(rows, srv') \/ ToCome(q, mount),
              UNCHANGED <<route, mount, rows, loading, error, clearing, formOf, values, busy>>
       PROVE  TrainingInv'
  <2>1. r.mount <= mount /\ Current(r, mount, route)
    BY <1>0 DEF TrainingRequests
  <2>2. q.mount <= mount /\ Current(q, mount, route)
    BY <1>10, <2>1 DEF Current
  <2>3. TrainingRequests'
    BY <1>0, <1>10, <2>2, WireKept
  <2>4. TrainingData' /\ TrainingFlags' /\ T!DefaultsFollowDataset'
    BY <1>0, <1>10 DEF TrainingData, TrainingFlags, T!DefaultsFollowDataset
  <2>5. PageIsCurrent'
    <3>1. ASSUME NEW x \in flight, x.kind = "models" PROVE \E y \in flight' : y.kind = "models"
      BY <1>10, <3>1
    <3> QED BY <1>0, <1>10, <3>1 DEF PageIsCurrent
  <2>6. RowsAreBehind'
    <3> SUFFICES ASSUME route = "list", ~raced'
                 PROVE  /\ \A x \in flight' : x.kind = "jobs" /\ x.phase = "ok" => Behind(x.got, srv')
                        /\ ~error => Behind(rows, srv') \/ \E x \in flight' : ToCome(x, mount)
      BY <1>10 DEF RowsAreBehind
    <3>1. /\ \A x \in flight : x.kind = "jobs" /\ x.phase = "ok" => Behind(x.got, srv)
          /\ ~error => Behind(rows, srv) \/ \E x \in flight : ToCome(x, mount)
      BY <1>0, <1>10 DEF RowsAreBehind
    <3>2. \A x \in flight : ToCome(x, mount) => \E y \in flight' : ToCome(y, mount)
      BY <1>10 DEF ToCome
    <3> QED BY <1>10, <3>1, <3>2
  <2> QED BY <1>10, <2>3, <2>4, <2>5, <2>6 DEF TrainingInv
<1>11. ASSUME NEW r \in flight, T!Serve(r) PROVE TrainingInv'
  <2>1. /\ UNCHANGED <<route, mount, rows, loading, error, clearing, formOf, values, busy, lost>>
        /\ raced' = \/ raced
                    \/ r.kind = "clear" /\ \E q \in flight : q.kind = "jobs" /\ q.phase = "ok"
                    \/ r.kind \in {"clear", "run"} /\ ~T!Mounted(r)
    BY <1>11 DEF T!Serve, T!page
  <2>2. /\ r \in T!Request /\ Current(r, mount, route)
        /\ srv \in T!Rows /\ T!NoRows \in T!Rows
    BY <1>0 DEF TrainingRequests, TrainingData, T!NoRows, T!Rows, T!Status
  <2>3. TrainingCounts'
    BY <1>0, <2>1 DEF TrainingCounts
  <2>4. raced' \in BOOLEAN
    <3>1. raced \in BOOLEAN
      BY <1>0 DEF TrainingFlags
    <3> QED BY <2>1, <3>1
  <2>5. /\ raced => raced'
        /\ r.kind = "clear" /\ ~raced' => r.mount = mount /\ \A q \in flight : ~(q.kind = "jobs" /\ q.phase = "ok")
        /\ r.kind = "run" /\ ~raced' => r.mount = mount
    BY <2>1 DEF T!Mounted
  <2>6. r.kind \in {"run", "clear", "jobs", "models"}
    BY <2>2 DEF T!Request, T!Kind
  <2>7. CASE r.kind = "run"
    <3>1. CASE T!HasActive(srv)
      <4> DEFINE q == [r EXCEPT !.phase = "refused"]
      <4>1. flight' = (flight \ {r}) \cup {q} /\ srv' = srv
        BY <1>11, <2>7, <3>1 DEF T!Serve
      <4>2. /\ q \in T!Request /\ q.kind = r.kind /\ q.why = r.why /\ q.mount = r.mount
            /\ q.url = r.url /\ q.phase = "refused"
        BY <2>2, TrainingRefused
      <4> HIDE DEF q
      <4> QED BY <1>10, <2>1, <2>2, <2>3, <2>4, <2>5, <4>1, <4>2
    <3>2. CASE ~T!HasActive(srv)
      <4>1. PICK j \in Job : srv' = [srv EXCEPT ![j] = "queued"] /\ T!Served(r, T!NoRows)
        BY <1>11, <2>7, <3>2 DEF T!Serve
      <4> DEFINE q == [r EXCEPT !.phase = "ok", !.got = T!NoRows]
      <4>2. flight' = (flight \ {r}) \cup {q}
        BY <4>1 DEF T!Served
      <4>3. srv' \in T!Rows
        BY <2>2, <4>1 DEF T!Rows, T!Status
      <4>4. /\ q \in T!Request /\ q.kind = r.kind /\ q.why = r.why /\ q.mount = r.mount
            /\ q.url = r.url /\ q.phase = "ok"
        BY <2>2 DEF T!Request
      <4> HIDE DEF q
      <4>5. route = "list" => raced'
        BY <2>2, <2>5, <2>7 DEF Current
      <4> QED BY <1>10, <2>1, <2>3, <2>4, <4>2, <4>3, <4>4, <4>5
    <3> QED BY <3>1, <3>2
  <2>8. CASE r.kind = "clear"
    <3> DEFINE q == [r EXCEPT !.phase = "ok", !.got = T!NoRows]
               s == [j \in Job |-> IF srv[j] = "ended" THEN "none" ELSE srv[j]]
    <3>1. srv' = s /\ T!Served(r, T!NoRows)
      BY <1>11, <2>8 DEF T!Serve
    <3>2. flight' = (flight \ {r}) \cup {q}
      BY <3>1 DEF T!Served
    <3>3. srv' \in T!Rows
      BY <2>2, <3>1 DEF T!Rows, T!Status
    <3>4. /\ q \in T!Request /\ q.kind = r.kind /\ q.why = r.why /\ q.mount = r.mount
          /\ q.url = r.url /\ q.phase = "ok"
      BY <2>2 DEF T!Request
    <3> HIDE DEF q, s
    <3>5. ~raced' => ToCome(q, mount)
      BY <2>2, <2>5, <2>8, <3>4 DEF ToCome, Current
    <3> QED BY <1>10, <2>1, <2>3, <2>4, <2>5, <2>8, <3>2, <3>3, <3>4, <3>5
  <2>9. CASE r.kind = "jobs"
    <3> DEFINE q == [r EXCEPT !.phase = "ok", !.got = srv]
    <3>1. srv' = srv /\ T!Served(r, srv)
      BY <1>11, <2>9 DEF T!Serve
    <3>2. flight' = (flight \ {r}) \cup {q}
      BY <3>1 DEF T!Served
    <3>4. /\ q \in T!Request /\ q.kind = r.kind /\ q.why = r.why /\ q.mount = r.mount
          /\ q.url = r.url /\ q.phase = "ok" /\ q.got = srv
      BY <2>2, TrainingAnswered
    <3> HIDE DEF q
    <3>5. Behind(q.got, srv')
      BY <3>1, <3>4 DEF Behind
    <3> QED BY <1>10, <2>1, <2>2, <2>3, <2>4, <2>5, <3>1, <3>2, <3>4, <3>5
  <2>10. CASE r.kind = "models"
    <3> DEFINE q == [r EXCEPT !.phase = "ok", !.got = T!NoRows]
    <3>1. srv' = srv /\ T!Served(r, T!NoRows)
      BY <1>11, <2>10 DEF T!Serve
    <3>2. flight' = (flight \ {r}) \cup {q}
      BY <3>1 DEF T!Served
    <3>4. /\ q \in T!Request /\ q.kind = r.kind /\ q.why = r.why /\ q.mount = r.mount
          /\ q.url = r.url /\ q.phase = "ok"
      BY <2>2 DEF T!Request
    <3> HIDE DEF q
    <3> QED BY <1>10, <2>1, <2>2, <2>3, <2>4, <2>5, <2>10, <3>1, <3>2, <3>4
  <2> QED BY <2>6, <2>7, <2>8, <2>9, <2>10
<1>12. ASSUME NEW r \in flight, T!Lose(r) PROVE TrainingInv'
  <2> DEFINE q == [r EXCEPT !.phase = "refused", !.got = T!NoRows]
  <2>1. /\ mount + lost <= MaxMoves /\ lost' = lost + 1 /\ flight' = (flight \ {r}) \cup {q}
        /\ UNCHANGED <<route, mount, srv, rows, loading, error, clearing, formOf, values, busy, raced>>
    BY <1>12 DEF T!Lose, T!page
  <2>2. r \in T!Request /\ T!NoRows \in T!Rows /\ srv \in T!Rows /\ raced \in BOOLEAN
    BY <1>0 DEF TrainingRequests, TrainingData, TrainingFlags, T!NoRows, T!Rows, T!Status
  <2>3. /\ q \in T!Request /\ q.kind = r.kind /\ q.why = r.why /\ q.mount = r.mount
        /\ q.url = r.url /\ q.phase = "refused"
    BY <2>2, TrainingAnswered
  <2>4. TrainingCounts'
    <3>1. MaxMoves \in Nat /\ mount \in Nat \ {0} /\ lost \in Nat
      BY <1>0, ScreensAssumption DEF TrainingCounts, T!TrainingPagesConstants
    <3>2. lost + 1 \in Nat /\ lost + 1 <= MaxMoves /\ mount + (lost + 1) <= MaxMoves + 1
      BY <2>1, <3>1
    <3> QED BY <2>1, <3>1, <3>2 DEF TrainingCounts
  <2> HIDE DEF q
  <2> QED BY <1>10, <2>1, <2>2, <2>3, <2>4

\* An answer lands, or what it brings: the request leaves the wire.
<1>13. ASSUME NEW r \in flight, flight' = flight \ {r}, TrainingFlags', rows' \in T!Rows,
              formOf' \in Model \cup {None}, values' \in T!Values, T!DefaultsFollowDataset',
              route = "list" /\ ~raced /\ ~error' => Behind(rows', srv) \/ (rows' = rows /\ ~error /\ ~ToCome(r, mount)),
              route # "list" => error' \/ formOf' = route \/ (error' = error /\ formOf' = formOf /\ r.kind # "models"),
              UNCHANGED <<route, mount, srv, raced, lost>>
       PROVE  TrainingInv'
  <2>1. TrainingCounts' /\ TrainingData'
    BY <1>0, <1>13 DEF TrainingCounts, TrainingData
  <2>2. TrainingRequests'
    BY <1>0, <1>13, WireShrinks
  <2>3. RowsAreBehind'
    <3> SUFFICES ASSUME route = "list", ~raced
                 PROVE  /\ \A x \in flight' : x.kind = "jobs" /\ x.phase = "ok" => Behind(x.got, srv)
                        /\ ~error' => Behind(rows', srv) \/ \E x \in flight' : ToCome(x, mount)
      BY <1>13 DEF RowsAreBehind
    <3>1. /\ \A x \in flight : x.kind = "jobs" /\ x.phase = "ok" => Behind(x.got, srv)
          /\ ~error => Behind(rows, srv) \/ \E x \in flight : ToCome(x, mount)
      BY <1>0 DEF RowsAreBehind
    <3> QED BY <1>13, <3>1
  <2>4. PageIsCurrent'
    BY <1>0, <1>13 DEF PageIsCurrent
  <2> QED BY <1>13, <2>1, <2>2, <2>3, <2>4 DEF TrainingInv
\* An answer lands, and the page asks for the list.
<1>14. ASSUME NEW r \in flight, NEW w \in T!Why, w # "form", w # "poll", route = "list",
              flight' = (flight \ {r}) \cup {T!Ask("jobs", w, mount, 0, "list")},
              UNCHANGED <<route, mount, srv, rows, loading, error, clearing, formOf, values, busy, raced, lost>>
       PROVE  TrainingInv'
  <2> DEFINE q == T!Ask("jobs", w, mount, 0, "list")
  <2>0. "jobs" \in T!Kind /\ 0 \in Nat /\ mount \in Nat
    BY <1>0 DEF T!Kind, TrainingCounts
  <2>1. /\ q \in T!Request /\ q.kind = "jobs" /\ q.why = w /\ q.mount = mount /\ q.url = "list"
        /\ q.phase = "asked"
    BY <2>0, TrainingAsked
  <2> HIDE DEF q
  <2>2. Current(q, mount, route) /\ ToCome(q, mount) /\ q.mount <= mount
    BY <1>14, <2>0, <2>1 DEF Current, ToCome
  <2>3. q \in flight' /\ flight' \subseteq flight \cup {q}
    BY <1>14 DEF q
  <2>4. TrainingRequests'
    BY <1>0, <1>14, <2>1, <2>2, <2>3, WireKept
  <2>5. RowsAreBehind'
    <3>1. \A x \in flight' : x.kind = "jobs" /\ x.phase = "ok" => x \in flight \/ Behind(x.got, srv)
      BY <2>1, <2>3
    <3>2. \E x \in flight' : ToCome(x, mount)
      BY <2>2, <2>3
    <3> QED BY <1>0, <1>14, <3>1, <3>2, RowsStayBehind
  <2>6. TrainingCounts' /\ TrainingFlags' /\ TrainingData' /\ T!DefaultsFollowDataset'
    BY <1>0, <1>14 DEF TrainingCounts, TrainingFlags, TrainingData, T!DefaultsFollowDataset
  <2>7. PageIsCurrent'
    BY <1>14 DEF PageIsCurrent
  <2> QED BY <2>4, <2>5, <2>6, <2>7 DEF TrainingInv
<1>15. ASSUME NEW r \in flight, T!ModelsLand(r) PROVE TrainingInv'
  <2>1. /\ r.kind = "models" /\ UNCHANGED <<route, mount, srv, raced, lost>>
        /\ r \in T!Request /\ Current(r, mount, route) /\ r.url = route
    BY <1>0, <1>15 DEF T!ModelsLand, TrainingRequests, Current
  <2>2. CASE route = "list"
    <3>1. /\ flight' = (flight \ {r}) \cup {T!Ask("jobs", "load", mount, 0, "list")}
          /\ UNCHANGED <<rows, loading, error, clearing, formOf, values, busy>>
      BY <1>15, <2>1, <2>2 DEF T!ModelsLand, T!page
    <3>2. "load" \in T!Why
      BY DEF T!Why
    <3> QED BY <1>14, <2>1, <2>2, <3>1, <3>2
  <2>3. CASE route # "list"
    <3>1. /\ flight' = flight \ {r} /\ formOf' = route /\ loading' = FALSE
          /\ UNCHANGED <<rows, error, clearing>>
          /\ \/ route = formOf /\ values' = values /\ busy' = busy
             \/ route # formOf /\ values' = T!InitialValues(route) /\ busy' = FALSE
      BY <1>15, <2>1, <2>3 DEF T!ModelsLand
    <3>2. route \in Model
      BY <1>0, <2>3 DEF TrainingData
    <3>3. values' \in T!Values /\ Follows(values', route)
      <4>1. CASE route = formOf
        BY <1>a, <1>f, <3>1, <3>2, <4>1
      <4>2. CASE route # formOf
        BY <3>1, <3>2, <4>2, FormSeeded
      <4> QED BY <4>1, <4>2
    <3>4. T!DefaultsFollowDataset'
      BY <3>1, <3>3 DEF T!DefaultsFollowDataset, Follows, Ov
    <3>5. TrainingFlags' /\ rows' \in T!Rows
      BY <1>0, <2>1, <3>1 DEF TrainingFlags, TrainingData
    <3> QED BY <1>13, <2>1, <2>3, <3>1, <3>2, <3>3, <3>4, <3>5
  <2> QED BY <2>2, <2>3
<1>16. ASSUME NEW r \in flight, T!JobsLand(r) PROVE TrainingInv'
  <2>1. /\ r.kind = "jobs" /\ r.phase = "ok" /\ flight' = flight \ {r} /\ rows' = r.got
        /\ loading' = (loading /\ r.why # "load") /\ clearing' = (clearing /\ r.why # "clear")
        /\ UNCHANGED <<route, mount, srv, error, formOf, values, busy, raced, lost>>
    BY <1>16 DEF T!JobsLand
  <2>2. rows' \in T!Rows
    BY <1>0, <2>1 DEF TrainingRequests, T!Request
  <2>3. TrainingFlags' /\ T!DefaultsFollowDataset' /\ formOf' \in Model \cup {None} /\ values' \in T!Values
    <3>1. loading' \in BOOLEAN /\ clearing' \in BOOLEAN
      BY <1>0, <2>1 DEF TrainingFlags
    <3> QED BY <1>0, <2>1, <3>1 DEF TrainingFlags, TrainingData, T!DefaultsFollowDataset
  <2>4. route = "list" /\ ~raced => Behind(rows', srv)
    BY <1>0, <2>1 DEF RowsAreBehind
  <2> QED BY <1>13, <2>1, <2>2, <2>3, <2>4
<1>17. ASSUME NEW r \in flight, T!ClearLands(r) PROVE TrainingInv'
  <2>1. /\ r.kind = "clear" /\ Current(r, mount, route)
        /\ UNCHANGED <<route, mount, srv, rows, loading, error, clearing, formOf, values, busy, raced, lost>>
    BY <1>0, <1>17 DEF T!ClearLands, T!page, TrainingRequests
  <2>2. CASE r.mount = mount
    <3>1. flight' = (flight \ {r}) \cup {T!Ask("jobs", "clear", mount, 0, "list")} /\ route = "list"
      BY <1>17, <2>1, <2>2 DEF T!ClearLands, T!Mounted, Current
    <3>2. "clear" \in T!Why
      BY DEF T!Why
    <3> QED BY <1>14, <2>1, <3>1, <3>2
  <2>3. CASE r.mount # mount
    <3>1. flight' = flight \ {r}
      BY <1>17, <2>3 DEF T!ClearLands, T!Mounted
    <3>2. ~ToCome(r, mount)
      BY <2>3 DEF ToCome
    <3>3. TrainingFlags' /\ T!DefaultsFollowDataset' /\ formOf' \in Model \cup {None} /\ values' \in T!Values /\ rows' \in T!Rows
      BY <1>0, <2>1 DEF TrainingFlags, TrainingData, T!DefaultsFollowDataset
    <3>4. error' = error /\ rows' = rows
      BY <2>1
    <3> QED BY <1>13, <2>1, <3>1, <3>2, <3>3, <3>4
  <2> QED BY <2>2, <2>3
<1>18. ASSUME NEW r \in flight, T!RunLands(r) PROVE TrainingInv'
  <2>1. r.kind = "run" /\ UNCHANGED <<srv, raced, lost>>
    BY <1>18 DEF T!RunLands
  <2>2. CASE route = "list"
    <3>1. /\ flight' = flight \ {r}
          /\ UNCHANGED <<route, mount, rows, loading, error, clearing, formOf, values, busy>>
      BY <1>18, <2>2 DEF T!RunLands, T!page
    <3>2. ~ToCome(r, mount)
      BY <2>1 DEF ToCome
    <3>3. TrainingFlags' /\ T!DefaultsFollowDataset' /\ formOf' \in Model \cup {None} /\ values' \in T!Values /\ rows' \in T!Rows
      BY <1>0, <2>1, <3>1 DEF TrainingFlags, TrainingData, T!DefaultsFollowDataset
    <3> QED BY <1>13, <2>1, <2>2, <3>1, <3>2, <3>3
  <2>3. CASE route # "list"
    <3>1. T!GoTo("list", flight \ {r})
      BY <1>18, <2>3 DEF T!RunLands
    <3>2. "list" \in Model \cup {"list"} /\ flight \ {r} \subseteq flight /\ srv' = srv /\ raced' = raced /\ lost' = lost
      BY <2>1
    <3> DEFINE remaining == flight \ {r}
    <3> HIDE DEF remaining
    <3>3. T!GoTo("list", remaining) /\ remaining \subseteq flight
      BY <3>1, <3>2 DEF remaining
    <3> QED BY <2>3, <3>2, <3>3, TrainingGoes
  <2> QED BY <2>2, <2>3
<1>19. ASSUME NEW r \in flight, T!Fails(r) PROVE TrainingInv'
  <2>1. /\ flight' = flight \ {r} /\ UNCHANGED <<route, mount, srv, raced, lost>>
        /\ r \in T!Request /\ Current(r, mount, route)
    BY <1>0, <1>19 DEF T!Fails, TrainingRequests
  <2>2. CASE r.mount = mount /\ r.why # "poll"
    <3>1. /\ error' = TRUE /\ UNCHANGED <<rows, formOf, values>>
          /\ loading' = (loading /\ r.why # "load") /\ clearing' = (clearing /\ r.why # "clear")
          /\ busy' = (busy /\ r.why # "form")
      BY <1>19, <2>2 DEF T!Fails, T!Mounted
    <3>2. loading' \in BOOLEAN /\ clearing' \in BOOLEAN /\ busy' \in BOOLEAN
      BY <1>0, <3>1 DEF TrainingFlags
    <3>3. TrainingFlags' /\ T!DefaultsFollowDataset' /\ formOf' \in Model \cup {None} /\ values' \in T!Values /\ rows' \in T!Rows
      BY <1>0, <2>1, <3>1, <3>2 DEF TrainingFlags, TrainingData, T!DefaultsFollowDataset
    <3> QED BY <1>13, <2>1, <3>1, <3>3
  <2>3. CASE ~(r.mount = mount /\ r.why # "poll")
    <3>1. UNCHANGED <<rows, loading, error, clearing, formOf, values, busy>>
      BY <1>19, <2>3 DEF T!Fails, T!Mounted, T!page
    <3>2. ~ToCome(r, mount)
      BY <2>3 DEF ToCome
    <3>3. r.kind # "models"
      BY <2>1, <2>3 DEF Current
    <3>4. TrainingFlags' /\ T!DefaultsFollowDataset' /\ formOf' \in Model \cup {None} /\ values' \in T!Values /\ rows' \in T!Rows
      BY <1>0, <2>1, <3>1 DEF TrainingFlags, TrainingData, T!DefaultsFollowDataset
    <3>5. error' = error /\ rows' = rows /\ formOf' = formOf
      BY <3>1
    <3> QED BY <1>13, <2>1, <3>2, <3>3, <3>4, <3>5
  <2> QED BY <2>2, <2>3
<1> QED BY <1>2, <1>3, <1>5, <1>6, <1>7, <1>8, <1>9, <1>11, <1>12, <1>15, <1>16, <1>17, <1>18, <1>19 DEF T!Next

\* The inductive invariant of the finder.  Every list of runs, on the page, on the
\* server or on the wire, shows as succeeded only what has a verdict and is recorded
\* as a search, or is about to be; and the one request for the two lists that is on its
\* way, if it is not too late or too early, brings the announced topic with it.
Backed(G, S) == \A n \in B!Run : G[n].status = "succeeded" => G[n].topic \in S
Sound(r, done, all, l) ==
    /\ Backed(r.rows, all)
    /\ r.kind \in {"lookup", "start"} => r.topic \in Topic
    /\ r.kind = "cancel" => r.run \in B!Run
    /\ r.kind = "lookup" /\ r.topic \in r.checked => r.topic \in done
    /\ r.kind = "start" /\ r.phase = "ok" /\ r.run = 0 => r.topic \in done
    /\ r.kind = "found" /\ r.phase = "ok" => r.served = {"recents", "checked"}
    /\ r.kind = "found" /\ r.phase = "refused" => l > 0
Brings(r, t) ==
    /\ "recents" \in r.served => t \in r.recents
    /\ "checked" \in r.served => t \in r.checked

BridgeData ==
    /\ srv \in B!Rows /\ runs \in B!Rows
    /\ ready \subseteq Topic /\ recorded \subseteq ready /\ unrecorded \subseteq ready
    /\ recents \subseteq Topic /\ checked \subseteq Topic
    /\ justFound \in Topic \cup {None} /\ watched \in B!Run \cup {0}
    /\ pending \subseteq {"shelf", "found"}
BridgeFlags ==
    /\ loading \in BOOLEAN /\ error \in BOOLEAN /\ busy \in BOOLEAN
    /\ quick \in BOOLEAN /\ stale \in BOOLEAN
BridgeCounts == others \in Nat /\ lost \in Nat /\ others + lost <= MaxEvents
RowsBacked ==
    /\ Backed(srv, recorded \cup unrecorded) /\ Backed(runs, recorded \cup unrecorded)
    /\ \A n \in B!Run : srv[n].status # "none" => srv[n].topic \in Topic
BridgeRequests ==
    \A r \in flight : r \in B!Request /\ Sound(r, recorded, recorded \cup unrecorded, lost)
Listed ==
    justFound # None /\ ~stale =>
        /\ justFound \in recorded
        /\ \A r, q \in flight : r.kind = "found" /\ q.kind = "found" => r = q
        /\ \A r \in flight : r.kind = "found" => Brings(r, justFound)
        /\ lost = 0 /\ (\A r \in flight : r.kind # "found") => justFound \in recents \cap checked
BridgeInv ==
    /\ BridgeData /\ BridgeFlags /\ BridgeCounts /\ RowsBacked /\ BridgeRequests
    /\ B!AnnouncedIsReady /\ B!FinishIsAnnounced /\ Listed

\* What is seen of it.
LEMMA BridgeShows ==
  BridgeInv => B!TypeOK /\ B!FinishIsAnnounced /\ B!AnnouncedIsReady /\ B!AnnouncedIsListed
<1> SUFFICES ASSUME BridgeInv
             PROVE  B!TypeOK /\ B!FinishIsAnnounced /\ B!AnnouncedIsReady /\ B!AnnouncedIsListed
  OBVIOUS
<1>1. B!TypeOK
  <2>1. others \in 0..MaxEvents /\ lost \in 0..MaxEvents
    <3>1. MaxEvents \in Nat
      BY ScreensAssumption DEF B!BridgePagesConstants
    <3> QED BY <3>1 DEF BridgeInv, BridgeCounts
  <2>2. flight \subseteq B!Request
    BY DEF BridgeInv, BridgeRequests
  <2>3. BridgeData /\ BridgeFlags
    BY DEF BridgeInv
  <2> QED BY <2>1, <2>2, <2>3 DEF B!TypeOK, BridgeData, BridgeFlags
<1>2. B!AnnouncedIsListed
  BY DEF BridgeInv, Listed, B!AnnouncedIsListed
<1> QED BY <1>1, <1>2 DEF BridgeInv

\* What is recorded stays so, and what is lost.
LEMMA SoundStays ==
  ASSUME NEW r, NEW d, NEW a, NEW l \in Nat, NEW d1, NEW a1, NEW l1 \in Nat, Sound(r, d, a, l),
         d \subseteq d1, a \subseteq a1, l <= l1
  PROVE  Sound(r, d1, a1, l1)
<1>1. l > 0 => l1 > 0
  OBVIOUS
<1> QED BY <1>1 DEF Sound, Backed

\* The finder's requests stay sound while topics are only ever recorded and answers only ever lost.
LEMMA BridgeWire ==
  ASSUME BridgeRequests, BridgeCounts, recorded \subseteq recorded',
         recorded \cup unrecorded \subseteq recorded' \cup unrecorded', lost' \in Nat, lost <= lost',
         \A x \in flight' : x \in flight \/
            (x \in B!Request /\ Sound(x, recorded', recorded' \cup unrecorded', lost'))
  PROVE  BridgeRequests'
<1>1. \A x \in flight : Sound(x, recorded', recorded' \cup unrecorded', lost')
  <2> TAKE x \in flight
  <2> DEFINE d == recorded  a == recorded \cup unrecorded
             d1 == recorded'  a1 == recorded' \cup unrecorded'  l1 == lost'
  <2>1. Sound(x, d, a, lost) /\ d \subseteq d1 /\ a \subseteq a1 /\ lost \in Nat /\ l1 \in Nat /\ lost <= l1
    BY DEF BridgeRequests, BridgeCounts
  <2> HIDE DEF d, a, d1, a1, l1
  <2>2. Sound(x, d1, a1, l1)
    BY <2>1, SoundStays
  <2> QED BY <2>2 DEF d1, a1, l1
<1> QED BY <1>1 DEF BridgeRequests

\* A step that does not touch the request for the two lists, nor what was announced.
LEMMA ListedStays ==
  ASSUME Listed, justFound' = justFound, stale => stale', recorded \subseteq recorded',
         recents' = recents, checked' = checked, lost' = 0 => lost = 0,
         \A x \in flight' : x.kind = "found" => x \in flight,
         \A x \in flight : x.kind = "found" => x \in flight'
  PROVE  Listed'
  BY DEF Listed

\* A request as it is made.
LEMMA BridgeAsked ==
  ASSUME NEW k \in B!Kind, NEW w \in B!Why, NEW i \in Nat, NEW t \in Topic \cup {None}, NEW n \in B!Run \cup {0},
         NEW d, NEW a, NEW l \in Nat, k \in {"lookup", "start"} => t \in Topic, k = "cancel" => n \in B!Run
  PROVE  /\ B!Ask(k, w, i, t, n) \in B!Request /\ B!Ask(k, w, i, t, n).kind = k
         /\ B!Ask(k, w, i, t, n).served = {} /\ Sound(B!Ask(k, w, i, t, n), d, a, l)
<1> DEFINE q == B!Ask(k, w, i, t, n)
           none == [m \in B!Run |-> B!NoRow]
<1>1. none \in B!Rows /\ \A m \in B!Run : none[m].status = "none"
  BY DEF B!Rows, B!Row, B!NoRow, B!Status
<1>2. q = [kind |-> k, why |-> w, id |-> i, topic |-> t, run |-> n, phase |-> "asked",
           served |-> {}, rows |-> none, recents |-> {}, checked |-> {}]
  BY DEF B!Ask
<1> HIDE DEF none, q
<1>3. q \in B!Request
  BY <1>1, <1>2 DEF B!Request
<1>4. /\ q.kind = k /\ q.served = {} /\ q.phase = "asked" /\ q.rows = none /\ q.topic = t /\ q.run = n
      /\ q.checked = {}
  BY <1>2
<1>5. Sound(q, d, a, l)
  BY <1>1, <1>4 DEF Sound, Backed
<1> QED BY <1>3, <1>4, <1>5 DEF q

\* The finder starts in its invariant.
LEMMA BridgeInit == B!Init => BridgeInv
<1> SUFFICES ASSUME B!Init PROVE BridgeInv
  OBVIOUS
<1> DEFINE none == [m \in B!Run |-> B!NoRow]
           p == B!Ask("shelf", "load", 0, None, 0)
           q == B!Ask("found", "load", 0, None, 0)
<1>1. none \in B!Rows /\ \A m \in B!Run : none[m] = B!NoRow /\ B!NoRow.status = "none"
  BY DEF B!Rows, B!Row, B!NoRow, B!Status
<1>2. /\ ready \subseteq Topic /\ recorded = {} /\ unrecorded = {}
      /\ runs = none /\ recents = {} /\ checked = {}
      /\ justFound = None /\ watched = 0 /\ pending = {"shelf", "found"}
      /\ loading = TRUE /\ error = FALSE /\ busy = FALSE
      /\ flight = {p, q} /\ quick = FALSE /\ stale = FALSE /\ others = 0 /\ lost = 0
  BY DEF B!Init
<1>3. PICK row \in {B!NoRow} \cup [topic : Topic, status : {"queued", "failed"}] :
        srv = [n \in B!Run |-> IF n = 1 THEN row ELSE B!NoRow]
  BY DEF B!Init
<1>4. row \in B!Row /\ row.status # "succeeded" /\ (row.status # "none" => row.topic \in Topic)
  <2>1. CASE row = B!NoRow
    BY <2>1 DEF B!Row, B!NoRow, B!Status
  <2>2. CASE row \in [topic : Topic, status : {"queued", "failed"}]
    <3>1. PICK t \in Topic, s \in {"queued", "failed"} : row = [topic |-> t, status |-> s]
      BY <2>2
    <3>2. s \in B!Status
      BY DEF B!Status, B!ACTIVE_STATUSES
    <3> QED BY <3>1, <3>2 DEF B!Row
  <2> QED BY <1>3, <2>1, <2>2
<1>5. srv \in B!Rows /\ \A n \in B!Run : srv[n].status # "succeeded" /\ (srv[n].status # "none" => srv[n].topic \in Topic)
  <2>1. B!NoRow \in B!Row /\ B!NoRow.status = "none"
    BY DEF B!Row, B!NoRow, B!Status
  <2>2. \A n \in B!Run : srv[n] \in {row, B!NoRow}
    BY <1>3
  <2>3. srv \in B!Rows
    BY <1>3, <1>4, <2>1 DEF B!Rows
  <2> QED BY <1>4, <2>1, <2>2, <2>3
<1>6. /\ p \in B!Request /\ Sound(p, {}, {} \cup {}, 0) /\ q \in B!Request /\ Sound(q, {}, {} \cup {}, 0)
      /\ p.kind = "shelf" /\ q.kind = "found" /\ q.served = {}
  <2>1. "shelf" \in B!Kind /\ "found" \in B!Kind /\ "load" \in B!Why /\ 0 \in Nat
    BY DEF B!Kind, B!Why
  <2>2. None \in Topic \cup {None} /\ 0 \in B!Run \cup {0}
    OBVIOUS
  <2> DEFINE e == {} \cup {}
  <2> HIDE DEF e
  <2>3. p \in B!Request /\ Sound(p, {}, e, 0) /\ p.kind = "shelf"
    <3> HIDE DEF e, p
    <3>1. p = B!Ask("shelf", "load", 0, None, 0)
      BY DEF p
    <3> QED BY ONLY <2>1, <2>2, <3>1, BridgeAsked
  <2>4. q \in B!Request /\ Sound(q, {}, e, 0) /\ q.kind = "found" /\ q.served = {}
    <3> HIDE DEF e, q
    <3>1. q = B!Ask("found", "load", 0, None, 0)
      BY DEF q
    <3> QED BY ONLY <2>1, <2>2, <3>1, BridgeAsked
  <2> QED BY <2>3, <2>4 DEF e
<1> HIDE DEF p, q
<1>7. BridgeData
  BY <1>1, <1>2, <1>5 DEF BridgeData
<1>8. BridgeFlags
  BY <1>2 DEF BridgeFlags
<1>9. BridgeCounts
  <2>1. MaxEvents \in Nat
    BY ScreensAssumption DEF B!BridgePagesConstants
  <2> QED BY <1>2, <2>1 DEF BridgeCounts
<1>10. RowsBacked
  <2>1. \A n \in B!Run : runs[n].status = "none"
    BY <1>1, <1>2
  <2> QED BY <1>5, <2>1 DEF RowsBacked, Backed
<1>11. BridgeRequests
  BY <1>2, <1>6 DEF BridgeRequests
<1>12. B!AnnouncedIsReady /\ B!FinishIsAnnounced /\ Listed
  BY <1>2 DEF B!AnnouncedIsReady, B!FinishIsAnnounced, Listed
<1> QED BY <1>7, <1>8, <1>9, <1>10, <1>11, <1>12 DEF BridgeInv

\* A step that leaves what the finder shows and the request for its lists alone.
LEMMA BridgeQuiet ==
  ASSUME BridgeInv, srv' \in B!Rows, Backed(srv', recorded' \cup unrecorded'),
         \A n \in B!Run : srv'[n].status # "none" => srv'[n].topic \in Topic,
         ready' \subseteq Topic, ready \subseteq ready', recorded \subseteq recorded',
         recorded' \subseteq ready', unrecorded' \subseteq ready',
         recorded \cup unrecorded \subseteq recorded' \cup unrecorded',
         runs' = runs, recents' = recents, checked' = checked, justFound' = justFound, watched' = watched,
         quick' = quick, stale' = stale, lost' = lost, others' \in Nat, others' + lost <= MaxEvents,
         pending' \subseteq {"shelf", "found"},
         loading' \in BOOLEAN, error' \in BOOLEAN, busy' \in BOOLEAN,
         \A x \in flight' : x \in flight \/
            (x \in B!Request /\ x.kind # "found" /\ Sound(x, recorded', recorded' \cup unrecorded', lost)),
         \A x \in flight : x.kind = "found" => x \in flight'
  PROVE  BridgeInv'
<1>a. BridgeData /\ BridgeFlags /\ BridgeCounts /\ RowsBacked /\ BridgeRequests
      /\ B!AnnouncedIsReady /\ B!FinishIsAnnounced /\ Listed
  BY DEF BridgeInv
<1>1. BridgeData'
  BY <1>a DEF BridgeData
<1>2. BridgeFlags'
  BY <1>a DEF BridgeFlags
<1>3. BridgeCounts'
  BY <1>a DEF BridgeCounts
<1>4. RowsBacked'
  <2>1. Backed(runs', recorded' \cup unrecorded')
    BY <1>a DEF RowsBacked, Backed
  <2> QED BY <2>1 DEF RowsBacked
<1>5. BridgeRequests'
  <2>1. lost \in Nat /\ lost' \in Nat /\ lost <= lost' /\ lost' = lost
    BY <1>a DEF BridgeCounts
  <2> QED BY <1>a, <2>1, BridgeWire
<1>6. B!AnnouncedIsReady'
  BY <1>a DEF B!AnnouncedIsReady
<1>7. B!FinishIsAnnounced'
  BY <1>a DEF B!FinishIsAnnounced
<1>8. Listed'
  BY <1>a, ListedStays
<1> QED BY <1>1, <1>2, <1>3, <1>4, <1>5, <1>6, <1>7, <1>8 DEF BridgeInv

\* The server is as it was.
LEMMA BridgeAlone ==
  ASSUME BridgeInv, UNCHANGED B!server,
         runs' = runs, recents' = recents, checked' = checked, justFound' = justFound, watched' = watched,
         quick' = quick, stale' = stale, lost' = lost, pending' \subseteq {"shelf", "found"},
         loading' \in BOOLEAN, error' \in BOOLEAN, busy' \in BOOLEAN,
         \A x \in flight' : x \in flight \/
            (x \in B!Request /\ x.kind # "found" /\ Sound(x, recorded, recorded \cup unrecorded, lost)),
         \A x \in flight : x.kind = "found" => x \in flight'
  PROVE  BridgeInv'
<1>1. srv' = srv /\ ready' = ready /\ recorded' = recorded /\ unrecorded' = unrecorded /\ others' = others
  BY DEF B!server
<1>2. /\ srv \in B!Rows /\ Backed(srv, recorded \cup unrecorded)
      /\ \A n \in B!Run : srv[n].status # "none" => srv[n].topic \in Topic
      /\ ready \subseteq Topic /\ recorded \subseteq ready /\ unrecorded \subseteq ready
  BY DEF BridgeInv, BridgeData, RowsBacked
<1>3. others' \in Nat /\ others' + lost <= MaxEvents
  BY <1>1 DEF BridgeInv, BridgeCounts
<1> QED BY <1>1, <1>2, <1>3, BridgeQuiet

\* What the user does: one request more.
LEMMA BridgeUser ==
  ASSUME BridgeInv, (\E t \in Topic : B!Search(t)) \/ (\E n \in B!Run : B!Cancel(n)) \/ B!Tick
  PROVE  BridgeInv'
<1>a. BridgeData /\ BridgeFlags /\ lost \in Nat
  BY DEF BridgeInv, BridgeCounts
<1>b. /\ {"lookup", "cancel", "runs"} \subseteq B!Kind /\ {"search", "cancel", "poll"} \subseteq B!Why
      /\ 0 \in Nat
  BY DEF B!Kind, B!Why
<1>c. None \in Topic \cup {None} /\ 0 \in B!Run \cup {0}
  OBVIOUS
<1> DEFINE Quiet == /\ UNCHANGED <<B!server, runs, recents, checked, justFound, watched, quick, stale, lost>>
                    /\ pending' = pending /\ loading' = loading
                    /\ error' \in BOOLEAN /\ busy' \in BOOLEAN
<1>1. ASSUME NEW q, Quiet, flight' = flight \cup {q}, q \in B!Request, q.kind # "found",
             Sound(q, recorded, recorded \cup unrecorded, lost)
      PROVE  BridgeInv'
  <2>1. pending' \subseteq {"shelf", "found"} /\ loading' \in BOOLEAN /\ error' \in BOOLEAN /\ busy' \in BOOLEAN
    BY <1>a, <1>1 DEF BridgeData, BridgeFlags
  <2> QED BY <1>1, <2>1, BridgeAlone
<1>2. ASSUME NEW t \in Topic, B!Search(t) PROVE BridgeInv'
  <2> DEFINE q == B!Ask("lookup", "search", 0, t, 0)  d == recorded  a == recorded \cup unrecorded
  <2>1. Quiet /\ flight' = flight \cup {q}
    BY <1>a, <1>2 DEF B!Search, B!lists, BridgeFlags
  <2>2. q \in B!Request /\ q.kind = "lookup" /\ Sound(q, d, a, lost)
    <3> HIDE DEF d, a
    <3>1. "lookup" \in B!Kind /\ "search" \in B!Why /\ t \in Topic \cup {None} /\ "lookup" # "cancel"
      BY <1>b
    <3> QED BY ONLY <1>a, <1>b, <1>c, <3>1, <1>2, BridgeAsked
  <2> HIDE DEF q, Quiet
  <2> QED BY <1>1, <2>1, <2>2 DEF d, a
<1>3. ASSUME NEW n \in B!Run, B!Cancel(n) PROVE BridgeInv'
  <2> DEFINE q == B!Ask("cancel", "cancel", 0, None, n)  d == recorded  a == recorded \cup unrecorded
  <2>1. Quiet /\ flight' = flight \cup {q}
    BY <1>a, <1>3 DEF B!Cancel, B!lists, BridgeFlags
  <2>2. q \in B!Request /\ q.kind = "cancel" /\ Sound(q, d, a, lost)
    <3> HIDE DEF d, a
    <3>1. "cancel" \in B!Kind /\ "cancel" \in B!Why /\ n \in B!Run \cup {0} /\ "cancel" \notin {"lookup", "start"}
      BY <1>b
    <3> QED BY ONLY <1>a, <1>b, <1>c, <3>1, <1>3, BridgeAsked
  <2> HIDE DEF q, Quiet
  <2> QED BY <1>1, <2>1, <2>2 DEF d, a
<1>4. ASSUME B!Tick PROVE BridgeInv'
  <2>1. PICK i \in 1..RunPolls : flight' = flight \cup {B!Ask("runs", "poll", i, None, 0)}
    BY <1>4 DEF B!Tick
  <2> DEFINE q == B!Ask("runs", "poll", i, None, 0)  d == recorded  a == recorded \cup unrecorded
  <2>2. Quiet
    BY <1>a, <1>4 DEF B!Tick, B!page, B!lists, BridgeFlags
  <2>3. q \in B!Request /\ q.kind = "runs" /\ Sound(q, d, a, lost)
    <3> HIDE DEF d, a
    <3>1. "runs" \in B!Kind /\ "poll" \in B!Why /\ i \in Nat
      BY <1>b
    <3>2. ("runs" \in {"lookup", "start"} => None \in Topic) /\ ("runs" = "cancel" => 0 \in B!Run)
      OBVIOUS
    <3>3. q = B!Ask("runs", "poll", i, None, 0)
      OBVIOUS
    <3> HIDE DEF q
    <3> QED BY ONLY <1>a, <1>c, <3>1, <3>2, <3>3, BridgeAsked
  <2> HIDE DEF q, Quiet
  <2> QED BY <1>1, <2>1, <2>2, <2>3 DEF d, a, q
<1> QED BY <1>2, <1>3, <1>4

\* The worker, and what is done elsewhere.
LEMMA BridgeWorks ==
  ASSUME BridgeInv, (\E n \in B!Run : B!Work(n)) \/ (\E t \in Topic : B!Record(t) \/ B!Other(t))
  PROVE  BridgeInv'
<1>a. BridgeData /\ BridgeFlags /\ BridgeCounts /\ RowsBacked
  BY DEF BridgeInv
<1> DEFINE New == recorded' \cup unrecorded'
<1>1. ASSUME srv' \in B!Rows, Backed(srv', New),
             \A n \in B!Run : srv'[n].status # "none" => srv'[n].topic \in Topic,
             ready' \subseteq Topic, ready \subseteq ready', recorded \subseteq recorded',
             recorded' \subseteq ready', unrecorded' \subseteq ready', recorded \cup unrecorded \subseteq New,
             others' \in Nat, others' + lost <= MaxEvents, UNCHANGED <<B!page, flight, quick, stale, lost>>
      PROVE  BridgeInv'
  <2>1. /\ runs' = runs /\ recents' = recents /\ checked' = checked /\ justFound' = justFound /\ watched' = watched
        /\ quick' = quick /\ stale' = stale /\ lost' = lost /\ pending' = pending /\ flight' = flight
        /\ loading' = loading /\ error' = error /\ busy' = busy
    BY <1>1 DEF B!page, B!lists
  <2>2. pending' \subseteq {"shelf", "found"} /\ loading' \in BOOLEAN /\ error' \in BOOLEAN /\ busy' \in BOOLEAN
    BY <1>a, <2>1 DEF BridgeData, BridgeFlags
  <2>3. (\A x \in flight' : x \in flight) /\ (\A x \in flight : x \in flight')
    BY <2>1
  <2> QED BY <1>1, <2>1, <2>2, <2>3, BridgeQuiet
<1>2. ASSUME NEW n \in B!Run, NEW t \in Topic, NEW s \in B!Status,
             srv' = [srv EXCEPT ![n] = [topic |-> t, status |-> s]]
      PROVE  /\ srv' \in B!Rows
             /\ \A m \in B!Run : m # n => srv'[m] = srv[m]
             /\ srv'[n].topic = t /\ srv'[n].status = s
  <2>1. srv \in [B!Run -> B!Row] /\ [topic |-> t, status |-> s] \in B!Row
    BY <1>a DEF BridgeData, B!Rows, B!Row
  <2>2. srv'[n] = [topic |-> t, status |-> s] /\ \A m \in B!Run : m # n => srv'[m] = srv[m]
    BY <1>2, <2>1
  <2>3. srv' \in B!Rows
    BY <1>2, <2>1 DEF B!Rows
  <2> QED BY <2>2, <2>3
<1>3. others \in Nat /\ others + lost <= MaxEvents /\ srv \in B!Rows
  BY <1>a DEF BridgeCounts, BridgeData
<1> HIDE DEF New
<1>4. ASSUME NEW n \in B!Run, B!Work(n) PROVE BridgeInv'
  <2>1. UNCHANGED <<recorded, others, B!page, flight, quick, stale, lost>>
    BY <1>4 DEF B!Work
  <2> DEFINE t == srv[n].topic
  <2>2. PICK s \in {"running", "succeeded", "failed"} :
          /\ srv' = [srv EXCEPT ![n].status = s] /\ srv[n].status # "none"
          /\ \/ s # "succeeded" /\ ready' = ready /\ unrecorded' = unrecorded
             \/ s = "succeeded" /\ ready' = ready \cup {t} /\ unrecorded' = unrecorded \cup {t}
    BY <1>4 DEF B!Work
  <2>3. t \in Topic
    BY <1>a, <2>2 DEF RowsBacked
  <2>4. srv' = [srv EXCEPT ![n] = [topic |-> t, status |-> s]] /\ s \in B!Status
    <3>1. srv[n] \in B!Row
      BY <1>3 DEF B!Rows
    <3>2. [srv[n] EXCEPT !.status = s] = [topic |-> t, status |-> s]
      BY <3>1 DEF B!Row
    <3> QED BY <2>2, <3>2 DEF B!Status, B!ACTIVE_STATUSES
  <2>5. recorded' = recorded /\ (unrecorded \subseteq unrecorded') /\ (s = "succeeded" => t \in unrecorded')
    BY <2>1, <2>2
  <2>6. recorded \cup unrecorded \subseteq New /\ (s = "succeeded" => t \in New)
    BY <2>5 DEF New
  <2>7. Backed(srv', New)
    BY <1>2, <1>a, <2>3, <2>4, <2>6 DEF RowsBacked, Backed
  <2>8. /\ ready' \subseteq Topic /\ ready \subseteq ready'
        /\ recorded' \subseteq ready' /\ unrecorded' \subseteq ready'
    BY <1>a, <2>2, <2>3, <2>5 DEF BridgeData
  <2>9. \A m \in B!Run : srv'[m].status # "none" => srv'[m].topic \in Topic
    BY <1>2, <1>a, <2>3, <2>4 DEF RowsBacked
  <2>10. srv' \in B!Rows
    BY <1>2, <2>3, <2>4
  <2>11. others' \in Nat /\ others' + lost <= MaxEvents
    BY <1>3, <2>1
  <2> QED BY <1>1, <2>1, <2>5, <2>6, <2>7, <2>8, <2>9, <2>10, <2>11
<1>5. ASSUME NEW t \in Topic, B!Record(t) PROVE BridgeInv'
  <2>1. /\ t \in unrecorded /\ recorded' = recorded \cup {t} /\ unrecorded' = unrecorded \ {t}
        /\ UNCHANGED <<srv, ready, others, B!page, flight, quick, stale, lost>>
    BY <1>5 DEF B!Record
  <2>2. New = recorded \cup unrecorded
    BY <2>1 DEF New
  <2>3. Backed(srv', New) /\ \A m \in B!Run : srv'[m].status # "none" => srv'[m].topic \in Topic
    BY <1>a, <2>1, <2>2 DEF RowsBacked
  <2>4. /\ ready' \subseteq Topic /\ ready \subseteq ready' /\ recorded \subseteq recorded'
        /\ recorded' \subseteq ready' /\ unrecorded' \subseteq ready'
    BY <1>a, <2>1 DEF BridgeData
  <2>5. others' \in Nat /\ others' + lost <= MaxEvents /\ srv' \in B!Rows
    BY <1>3, <2>1
  <2> QED BY <1>1, <2>1, <2>2, <2>3, <2>4, <2>5
<1>6. ASSUME NEW t \in Topic, B!Other(t) PROVE BridgeInv'
  <2>1. UNCHANGED <<recorded, unrecorded, B!page, flight, quick, stale, lost>>
    BY <1>6 DEF B!Other
  <2>2. others' \in Nat /\ others' + lost <= MaxEvents
    <3>1. others + lost < MaxEvents /\ others' = others + 1
      BY <1>6 DEF B!Other
    <3>2. lost \in Nat /\ MaxEvents \in Nat
      BY <1>a, ScreensAssumption DEF BridgeCounts, B!BridgePagesConstants
    <3> QED BY <1>3, <3>1, <3>2
  <2>3. New = recorded \cup unrecorded
    BY <2>1 DEF New
  <2>4. CASE ready' = ready \cup {t} /\ srv' = srv
    <3>1. Backed(srv', New) /\ \A m \in B!Run : srv'[m].status # "none" => srv'[m].topic \in Topic
      BY <1>a, <2>3, <2>4 DEF RowsBacked
    <3>2. /\ ready' \subseteq Topic /\ ready \subseteq ready' /\ recorded \subseteq recorded'
          /\ recorded' \subseteq ready' /\ unrecorded' \subseteq ready' /\ srv' \in B!Rows
      BY <1>a, <1>3, <2>1, <2>4 DEF BridgeData
    <3> QED BY <1>1, <2>1, <2>2, <2>3, <3>1, <3>2
  <2>5. CASE ready' = ready /\ \E n \in B!Run : srv' = [srv EXCEPT ![n] = [topic |-> t, status |-> "queued"]]
    <3>1. PICK n \in B!Run : srv' = [srv EXCEPT ![n] = [topic |-> t, status |-> "queued"]]
      BY <2>5
    <3>2. "queued" \in B!Status
      BY DEF B!Status, B!ACTIVE_STATUSES
    <3>3. Backed(srv', New) /\ \A m \in B!Run : srv'[m].status # "none" => srv'[m].topic \in Topic
      BY <1>2, <1>a, <2>3, <3>1, <3>2 DEF RowsBacked, Backed
    <3>4. /\ ready' \subseteq Topic /\ ready \subseteq ready' /\ recorded \subseteq recorded'
          /\ recorded' \subseteq ready' /\ unrecorded' \subseteq ready'
      BY <1>a, <2>1, <2>5 DEF BridgeData
    <3>5. srv' \in B!Rows
      BY <1>2, <3>1, <3>2
    <3> QED BY <1>1, <2>1, <2>2, <2>3, <3>3, <3>4, <3>5
  <2> QED BY <1>6, <2>4, <2>5 DEF B!Other
<1> QED BY <1>4, <1>5, <1>6

\* The server answers.
LEMMA BridgeServes ==
  ASSUME BridgeInv, NEW r \in flight, B!Serve(r)
  PROVE  BridgeInv'
<1>a. BridgeData /\ BridgeFlags /\ BridgeCounts /\ RowsBacked /\ BridgeRequests /\ Listed
      /\ B!AnnouncedIsReady /\ B!FinishIsAnnounced
  BY DEF BridgeInv
<1>b. /\ ready' = ready /\ unrecorded' = unrecorded /\ others' = others
      /\ runs' = runs /\ recents' = recents /\ checked' = checked /\ justFound' = justFound /\ watched' = watched
      /\ quick' = quick /\ stale' = stale /\ lost' = lost /\ pending' = pending
      /\ loading' = loading /\ error' = error /\ busy' = busy /\ r.phase = "asked"
  BY DEF B!Serve, B!page, B!lists
<1> DEFINE old == recorded \cup unrecorded
           New == recorded' \cup unrecorded'
<1>c. r \in B!Request /\ Sound(r, recorded, old, lost) /\ lost \in Nat
  BY <1>a DEF BridgeRequests, BridgeCounts
<1>d. /\ r.kind \in B!Kind /\ r.why \in B!Why /\ r.rows \in B!Rows /\ r.run \in B!Run \cup {0}
      /\ r.recents \in SUBSET Topic /\ r.checked \in SUBSET Topic
  BY <1>c DEF B!Request
<1>e. pending' \subseteq {"shelf", "found"} /\ loading' \in BOOLEAN /\ error' \in BOOLEAN /\ busy' \in BOOLEAN
      /\ others' \in Nat /\ others' + lost <= MaxEvents /\ unrecorded' \subseteq ready' /\ ready' \subseteq Topic
  BY <1>a, <1>b DEF BridgeData, BridgeFlags, BridgeCounts
\* Whatever is answered but the request for the two lists.
<1>1. ASSUME NEW q, flight' = (flight \ {r}) \cup {q}, r.kind # "found",
             q \in B!Request /\ q.kind # "found" /\ Sound(q, recorded', New, lost),
             srv' \in B!Rows, Backed(srv', New),
             \A n \in B!Run : srv'[n].status # "none" => srv'[n].topic \in Topic,
             recorded \subseteq recorded', recorded' \subseteq ready
      PROVE  BridgeInv'
  <2>1. old \subseteq New
    BY <1>b, <1>1
  <2>2. \A x \in flight' : x \in flight \/ (x \in B!Request /\ x.kind # "found" /\ Sound(x, recorded', New, lost))
    BY <1>1
  <2>3. \A x \in flight : x.kind = "found" => x \in flight'
    BY <1>1
  <2>4. recorded' \subseteq ready' /\ ready \subseteq ready'
    BY <1>b, <1>1
  <2> QED BY <1>1, <1>b, <1>e, <2>1, <2>2, <2>3, <2>4, BridgeQuiet
<1>2. ASSUME srv' = srv, recorded \subseteq recorded'
      PROVE  /\ srv' \in B!Rows /\ Backed(srv', New)
             /\ \A n \in B!Run : srv'[n].status # "none" => srv'[n].topic \in Topic
  BY <1>2, <1>a, <1>b DEF RowsBacked, Backed, BridgeData
<1>3. ASSUME recorded \subseteq recorded' PROVE Sound(r, recorded', New, lost)
  <2> DEFINE d == recorded'
  <2>1. old \subseteq New /\ recorded \subseteq d
    BY <1>b, <1>3
  <2> HIDE DEF old, New, d
  <2>2. lost <= lost
    BY <1>c
  <2>3. Sound(r, d, New, lost)
    BY <1>c, <2>1, <2>2, SoundStays
  <2> QED BY <2>3 DEF d
<1>4. recorded \subseteq ready
  BY <1>a DEF BridgeData
<1>5. ASSUME NEW k \in {"ok", "refused"}, NEW g \in B!Rows, NEW n \in B!Run \cup {0}, NEW c \in SUBSET Topic,
             NEW q, q = [r EXCEPT !.phase = k, !.rows = g, !.run = n, !.checked = c],
             r.kind # "found", recorded \subseteq recorded', Backed(g, New),
             r.kind = "lookup" /\ r.topic \in c => r.topic \in recorded',
             r.kind = "start" /\ k = "ok" /\ n = 0 => r.topic \in recorded',
             r.kind = "cancel" => n = r.run
      PROVE  q \in B!Request /\ q.kind # "found" /\ Sound(q, recorded', New, lost)
  <2> DEFINE d == recorded'
  <2>1. Sound(r, d, New, lost) /\ (r.kind = "lookup" /\ r.topic \in c => r.topic \in d)
        /\ (r.kind = "start" /\ k = "ok" /\ n = 0 => r.topic \in d)
    BY <1>3, <1>5
  <2> HIDE DEF New, d
  <2>2. q \in B!Request /\ q.kind # "found" /\ Sound(q, d, New, lost)
    <3>1. q \in B!Request
      BY <1>c, <1>5 DEF B!Request
    <3>2. /\ q.kind = r.kind /\ q.topic = r.topic /\ q.phase = k /\ q.rows = g /\ q.run = n /\ q.checked = c
      BY <1>c, <1>5 DEF B!Request
    <3> QED BY <1>c, <1>5, <2>1, <3>1, <3>2 DEF Sound
  <2> QED BY <2>2 DEF d
<1>6. ASSUME recorded \subseteq recorded' PROVE Backed(r.rows, New)
  BY <1>3, <1>6 DEF Sound
<1>7. CASE r.kind = "start"
  <2>1. B!Started(r)
    BY <1>7 DEF B!Serve
  <2>2. r.topic \in Topic
    BY <1>7, <1>c DEF Sound
  <2>3. CASE /\ r.topic \in ready /\ recorded' = recorded \cup {r.topic}
             /\ flight' = (flight \ {r}) \cup {[r EXCEPT !.phase = "ok"]} /\ UNCHANGED srv
    <3> DEFINE q == [r EXCEPT !.phase = "ok"]
    <3>1. q = [r EXCEPT !.phase = "ok", !.rows = r.rows, !.run = r.run, !.checked = r.checked]
      BY <1>c DEF B!Request
    <3>2. recorded \subseteq recorded' /\ recorded' \subseteq ready /\ r.topic \in recorded' /\ flight' = (flight \ {r}) \cup {q}
      BY <1>4, <2>3
    <3>3. "ok" \in {"ok", "refused"} /\ r.kind # "found" /\ r.kind # "cancel" /\ srv' = srv
      BY <1>7, <2>3
    <3> HIDE DEF q, New
    <3>4. q \in B!Request /\ q.kind # "found" /\ Sound(q, recorded', New, lost)
      BY <1>d, <1>5, <1>6, <3>1, <3>2, <3>3
    <3> QED BY <1>1, <1>2, <3>2, <3>3, <3>4
  <2>4. CASE /\ flight' = (flight \ {r}) \cup {[r EXCEPT !.phase = "refused"]} /\ UNCHANGED <<recorded, srv>>
    <3> DEFINE q == [r EXCEPT !.phase = "refused"]
    <3>1. q = [r EXCEPT !.phase = "refused", !.rows = r.rows, !.run = r.run, !.checked = r.checked]
      BY <1>c DEF B!Request
    <3>2. recorded \subseteq recorded' /\ recorded' \subseteq ready /\ flight' = (flight \ {r}) \cup {q}
      BY <1>4, <2>4
    <3>3. "refused" \in {"ok", "refused"} /\ "refused" # "ok" /\ r.kind # "found" /\ r.kind # "lookup" /\ r.kind # "cancel" /\ srv' = srv
      BY <1>7, <2>4
    <3> HIDE DEF q, New
    <3>4. q \in B!Request /\ q.kind # "found" /\ Sound(q, recorded', New, lost)
      BY <1>d, <1>5, <1>6, <3>1, <3>2, <3>3
    <3> QED BY <1>1, <1>2, <3>2, <3>3, <3>4
  <2>5. CASE \E n \in B!Run :
               /\ srv' = [srv EXCEPT ![n] = [topic |-> r.topic, status |-> "queued"]]
               /\ flight' = (flight \ {r}) \cup {[r EXCEPT !.phase = "ok", !.run = n]} /\ UNCHANGED recorded
    <3>1. PICK n \in B!Run :
               /\ srv' = [srv EXCEPT ![n] = [topic |-> r.topic, status |-> "queued"]]
               /\ flight' = (flight \ {r}) \cup {[r EXCEPT !.phase = "ok", !.run = n]} /\ UNCHANGED recorded
      BY <2>5
    <3> DEFINE q == [r EXCEPT !.phase = "ok", !.run = n]
    <3>2. q = [r EXCEPT !.phase = "ok", !.rows = r.rows, !.run = n, !.checked = r.checked]
      BY <1>c DEF B!Request
    <3>3. recorded \subseteq recorded' /\ recorded' \subseteq ready /\ flight' = (flight \ {r}) \cup {q} /\ New = old
      BY <1>4, <1>b, <3>1
    <3>4. "ok" \in {"ok", "refused"} /\ r.kind # "found" /\ r.kind # "lookup" /\ r.kind # "cancel"
      BY <1>7
    <3>5. n \in B!Run \cup {0} /\ n # 0
      BY DEF B!Run
    <3>6. [topic |-> r.topic, status |-> "queued"] \in B!Row
      BY <2>2 DEF B!Row, B!Status, B!ACTIVE_STATUSES
    <3>7. srv \in [B!Run -> B!Row]
      BY <1>a DEF BridgeData, B!Rows
    <3>8. /\ srv' \in B!Rows
          /\ \A m \in B!Run : m # n => srv'[m] = srv[m]
          /\ srv'[n] = [topic |-> r.topic, status |-> "queued"]
      BY <3>1, <3>6, <3>7 DEF B!Rows
    <3>9. Backed(srv', New) /\ \A m \in B!Run : srv'[m].status # "none" => srv'[m].topic \in Topic
      BY <1>a, <2>2, <3>3, <3>8 DEF RowsBacked, Backed
    <3> HIDE DEF q, New
    <3>10. q \in B!Request /\ q.kind # "found" /\ Sound(q, recorded', New, lost)
      BY <1>d, <1>5, <1>6, <3>2, <3>3, <3>4, <3>5
    <3> QED BY <1>1, <3>3, <3>4, <3>8, <3>9, <3>10
  <2> QED BY <2>1, <2>3, <2>4, <2>5 DEF B!Started
<1>8. CASE r.kind = "lookup"
  <2>1. /\ recorded' = recorded \cup (ready \cap {r.topic}) /\ srv' = srv
        /\ flight' = (flight \ {r}) \cup {[r EXCEPT !.phase = "ok", !.checked = ready]}
    BY <1>8 DEF B!Serve, B!LookedUp
  <2> DEFINE q == [r EXCEPT !.phase = "ok", !.checked = ready]
  <2>2. q = [r EXCEPT !.phase = "ok", !.rows = r.rows, !.run = r.run, !.checked = ready]
    BY <1>c DEF B!Request
  <2>3. recorded \subseteq recorded' /\ recorded' \subseteq ready /\ flight' = (flight \ {r}) \cup {q}
        /\ (r.topic \in ready => r.topic \in recorded') /\ ready \in SUBSET Topic
    BY <1>4, <1>b, <1>e, <2>1
  <2>4. "ok" \in {"ok", "refused"} /\ r.kind # "found" /\ r.kind # "start" /\ r.kind # "cancel" /\ srv' = srv
    BY <1>8, <2>1
  <2> HIDE DEF q, New
  <2>5. q \in B!Request /\ q.kind # "found" /\ Sound(q, recorded', New, lost)
    BY <1>d, <1>5, <1>6, <2>2, <2>3, <2>4
  <2> QED BY <1>1, <1>2, <2>3, <2>4, <2>5
<1>9. CASE r.kind = "cancel"
  <2>1. recorded' = recorded /\ r.run \in B!Run
    BY <1>9, <1>c DEF B!Serve, B!Cancelled, Sound
  <2>2. PICK k \in {"ok", "refused"} :
          /\ flight' = (flight \ {r}) \cup {[r EXCEPT !.phase = k]}
          /\ srv' = srv \/ (srv[r.run].status = "queued" /\ srv' = [srv EXCEPT ![r.run].status = "cancelled"])
    BY <1>9 DEF B!Serve, B!Cancelled
  <2> DEFINE q == [r EXCEPT !.phase = k]
  <2>3. q = [r EXCEPT !.phase = k, !.rows = r.rows, !.run = r.run, !.checked = r.checked]
    BY <1>c DEF B!Request
  <2>4. recorded \subseteq recorded' /\ recorded' \subseteq ready /\ flight' = (flight \ {r}) \cup {q} /\ New = old
    BY <1>4, <1>b, <2>1, <2>2
  <2>5. r.kind # "found" /\ r.kind # "start" /\ r.kind # "lookup"
    BY <1>9
  <2>6. /\ srv' \in B!Rows /\ Backed(srv', New)
        /\ \A n \in B!Run : srv'[n].status # "none" => srv'[n].topic \in Topic
    <3>1. CASE srv' = srv
      BY <1>2, <2>4, <3>1
    <3>2. CASE srv[r.run].status = "queued" /\ srv' = [srv EXCEPT ![r.run].status = "cancelled"]
      <4> DEFINE t == srv[r.run].topic
      <4>1. srv \in [B!Run -> B!Row] /\ t \in Topic
        BY <1>a, <2>1, <3>2 DEF BridgeData, B!Rows, RowsBacked
      <4>2. [srv[r.run] EXCEPT !.status = "cancelled"] = [topic |-> t, status |-> "cancelled"]
        BY <2>1, <4>1 DEF B!Row
      <4>3. [topic |-> t, status |-> "cancelled"] \in B!Row
        BY <4>1 DEF B!Row, B!Status
      <4>4. /\ srv' \in B!Rows
            /\ \A m \in B!Run : m # r.run => srv'[m] = srv[m]
            /\ srv'[r.run] = [topic |-> t, status |-> "cancelled"]
        BY <2>1, <3>2, <4>1, <4>2, <4>3 DEF B!Rows
      <4> QED BY <1>a, <2>4, <4>1, <4>4 DEF RowsBacked, Backed
    <3> QED BY <2>2, <3>1, <3>2
  <2> HIDE DEF q, New
  <2>7. q \in B!Request /\ q.kind # "found" /\ Sound(q, recorded', New, lost)
    BY <1>d, <1>5, <1>6, <2>3, <2>4, <2>5
  <2> QED BY <1>1, <2>4, <2>5, <2>6, <2>7
<1>10. CASE r.kind \notin {"start", "lookup", "cancel", "found"}
  <2>1. /\ recorded' = recorded /\ srv' = srv
        /\ flight' = (flight \ {r}) \cup {[r EXCEPT !.phase = "ok", !.rows = IF r.kind = "runs" THEN srv ELSE @]}
    BY <1>10 DEF B!Serve
  <2>2. PICK g \in {srv, r.rows} : flight' = (flight \ {r}) \cup {[r EXCEPT !.phase = "ok", !.rows = g]}
    BY <2>1
  <2> DEFINE q == [r EXCEPT !.phase = "ok", !.rows = g]
  <2>3. q = [r EXCEPT !.phase = "ok", !.rows = g, !.run = r.run, !.checked = r.checked]
    BY <1>c DEF B!Request
  <2>4. recorded \subseteq recorded' /\ recorded' \subseteq ready /\ flight' = (flight \ {r}) \cup {q} /\ New = old
    BY <1>4, <1>b, <2>1, <2>2
  <2>5. "ok" \in {"ok", "refused"} /\ r.kind # "found" /\ r.kind # "start" /\ r.kind # "lookup" /\ r.kind # "cancel" /\ srv' = srv
    BY <1>10, <2>1
  <2>6. g \in B!Rows /\ Backed(g, New)
    BY <1>2, <1>6, <1>d, <2>1, <2>2, <2>4
  <2> HIDE DEF q, New
  <2>7. q \in B!Request /\ q.kind # "found" /\ Sound(q, recorded', New, lost)
    BY <1>d, <1>5, <2>3, <2>4, <2>5, <2>6
  <2> QED BY <1>1, <1>2, <2>4, <2>5, <2>7
<1>11. CASE r.kind = "found"
  <2>1. recorded' = recorded /\ srv' = srv
    BY <1>11 DEF B!Serve
  <2>2. PICK part \in {"recents", "checked"} \ r.served : B!FoundServed(r, part)
    BY <1>11 DEF B!Serve
  <2> DEFINE now == r.served \cup {part}
  <2>3. PICK k \in {"ok", "asked"}, R \in {recorded, r.recents}, C \in {ready, r.checked} :
          /\ flight' = (flight \ {r}) \cup {[r EXCEPT !.served = now, !.phase = k, !.recents = R, !.checked = C]}
          /\ k = "ok" => now = {"recents", "checked"}
          /\ IF part = "recents" THEN R = recorded ELSE R = r.recents
          /\ IF part = "checked" THEN C = ready ELSE C = r.checked
    BY <2>2 DEF B!FoundServed
  <2> DEFINE q == [r EXCEPT !.served = now, !.phase = k, !.recents = R, !.checked = C]
  <2>4. r.served \in SUBSET {"recents", "checked"} /\ now \in SUBSET {"recents", "checked"}
    BY <1>c DEF B!Request
  <2>5. R \in SUBSET Topic /\ C \in SUBSET Topic
    BY <1>d, <1>4, <1>b, <1>e
  <2> HIDE DEF now
  <2>6. q \in B!Request
    BY <1>c, <2>4, <2>5 DEF B!Request
  <2>7. q.kind = "found" /\ q.served = now /\ q.phase = k /\ q.recents = R /\ q.checked = C /\ q.rows = r.rows
    BY <1>c, <1>11 DEF B!Request
  <2> HIDE DEF q
  <2>8. Sound(q, recorded, old, lost)
    BY <1>c, <2>3, <2>7 DEF Sound
  <2>9. BridgeRequests'
    <3>1. \A x \in flight' : x \in flight \/ (x \in B!Request /\ Sound(x, recorded', recorded' \cup unrecorded', lost'))
      BY <1>b, <2>1, <2>3, <2>6, <2>8 DEF q
    <3>2. recorded \subseteq recorded' /\ recorded \cup unrecorded \subseteq recorded' \cup unrecorded' /\ lost' \in Nat /\ lost <= lost'
      BY <1>b, <1>c, <2>1
    <3> QED BY <1>a, <3>1, <3>2, BridgeWire
  <2>10. Listed'
    <3> SUFFICES ASSUME justFound # None, ~stale PROVE Listed'
      BY <1>b DEF Listed
    <3>1. /\ justFound \in recorded /\ Brings(r, justFound)
          /\ \A x \in flight : x.kind = "found" => x = r
      BY <1>a, <1>11 DEF Listed
    <3>2. justFound \in ready
      BY <1>4, <3>1
    <3>3. Brings(q, justFound)
      <4>1. "recents" \in now => justFound \in R
        BY <2>3, <3>1 DEF Brings, now
      <4>2. "checked" \in now => justFound \in C
        BY <2>3, <3>1, <3>2 DEF Brings, now
      <4> QED BY <2>7, <4>1, <4>2 DEF Brings
    <3>4. flight' = (flight \ {r}) \cup {q}
      BY <2>3 DEF q
    <3>5. \A x \in flight' : x.kind = "found" => x = q
      BY <3>1, <3>4
    <3>6. q \in flight' /\ q.kind = "found"
      BY <2>7, <3>4
    <3> QED BY <1>b, <2>1, <3>1, <3>3, <3>5, <3>6 DEF Listed
  <2>11. BridgeData' /\ BridgeFlags' /\ BridgeCounts' /\ RowsBacked'
    <3>1. BridgeData'
      BY <1>a, <1>b, <2>1 DEF BridgeData
    <3>2. BridgeFlags'
      BY <1>a, <1>b DEF BridgeFlags
    <3>3. BridgeCounts'
      BY <1>a, <1>b DEF BridgeCounts
    <3>4. RowsBacked'
      BY <1>a, <1>b, <2>1 DEF RowsBacked
    <3> QED BY <3>1, <3>2, <3>3, <3>4
  <2>12. B!AnnouncedIsReady' /\ B!FinishIsAnnounced'
    BY <1>a, <1>b DEF B!AnnouncedIsReady, B!FinishIsAnnounced
  <2> QED BY <2>9, <2>10, <2>11, <2>12 DEF BridgeInv
<1> QED BY <1>7, <1>8, <1>9, <1>10, <1>11

\* A search that had its verdict already, or whose run has just been seen to succeed,
\* is announced: its lists are asked for, and nothing else is on its way for them
\* unless the page says so.
LEMMA BridgeAnnounces ==
  ASSUME BridgeInv, NEW r \in flight, NEW t \in recorded \cup unrecorded, NEW w \in {"poll", "search"},
         UNCHANGED B!server, recents' = recents, checked' = checked, pending' = pending, lost' = lost,
         runs' \in B!Rows, Backed(runs', recorded \cup unrecorded),
         watched' \in {0, watched}, watched' = watched => runs' = runs /\ quick' = quick,
         loading' \in BOOLEAN, error' = error, busy' \in BOOLEAN, quick' \in BOOLEAN,
         justFound' = t, flight' = (flight \ {r}) \cup {B!AskFound(w, t)}, r.kind # "found",
         stale' \in BOOLEAN, stale => stale', ~stale' => t \in recorded /\ \A q \in flight : q.kind # "found"
  PROVE  BridgeInv'
<1>a. BridgeData /\ BridgeFlags /\ BridgeCounts /\ RowsBacked /\ BridgeRequests
      /\ B!AnnouncedIsReady /\ B!FinishIsAnnounced /\ Listed
  BY DEF BridgeInv
<1>b. srv' = srv /\ ready' = ready /\ recorded' = recorded /\ unrecorded' = unrecorded /\ others' = others
  BY DEF B!server
<1>c. t \in ready /\ ready \subseteq Topic /\ t \in Topic /\ t # None /\ lost \in Nat
  <2>1. None \notin Topic
    BY ScreensAssumption DEF B!BridgePagesConstants
  <2> QED BY <1>a, <2>1 DEF BridgeData, BridgeCounts
<1> DEFINE n == B!AskFound(w, t)
           d == recorded
           a == recorded \cup unrecorded
<1>1. n \in B!Request /\ n.kind = "found" /\ n.served = {} /\ Sound(n, d, a, lost)
  <2> HIDE DEF d, a
  <2>1. "found" \in B!Kind /\ w \in B!Why /\ 0 \in Nat /\ t \in Topic \cup {None} /\ 0 \in B!Run \cup {0}
    BY <1>c DEF B!Kind, B!Why
  <2>2. ("found" \in {"lookup", "start"} => t \in Topic) /\ ("found" = "cancel" => 0 \in B!Run)
    OBVIOUS
  <2>3. n = B!Ask("found", w, 0, t, 0)
    BY DEF B!AskFound
  <2> HIDE DEF n
  <2> QED BY ONLY <1>c, <2>1, <2>2, <2>3, BridgeAsked
<1> HIDE DEF n
<1>2. flight' = (flight \ {r}) \cup {n}
  BY DEF n
<1>3. BridgeData'
  <2>1. watched' \in B!Run \cup {0} /\ justFound' \in Topic \cup {None}
    BY <1>a, <1>c DEF BridgeData
  <2> QED BY <1>a, <1>b, <2>1 DEF BridgeData
<1>4. BridgeFlags'
  BY <1>a DEF BridgeFlags
<1>5. BridgeCounts'
  BY <1>a, <1>b DEF BridgeCounts
<1>6. RowsBacked'
  BY <1>a, <1>b DEF RowsBacked
<1>7. BridgeRequests'
  <2>1. \A x \in flight' : x \in flight \/ (x \in B!Request /\ Sound(x, recorded', recorded' \cup unrecorded', lost'))
    BY <1>1, <1>2, <1>b DEF d, a
  <2>2. recorded \subseteq recorded' /\ recorded \cup unrecorded \subseteq recorded' \cup unrecorded' /\ lost' \in Nat /\ lost <= lost'
    BY <1>b, <1>c
  <2> QED BY <1>a, <2>1, <2>2, BridgeWire
<1>8. B!AnnouncedIsReady'
  BY <1>b, <1>c DEF B!AnnouncedIsReady
<1>9. B!FinishIsAnnounced'
  BY <1>a DEF B!FinishIsAnnounced
<1>10. Listed'
  <2>1. Brings(n, t)
    BY <1>1 DEF Brings
  <2>2. ASSUME ~stale' PROVE (\A x \in flight' : x.kind = "found" => x = n) /\ n \in flight' /\ t \in recorded'
    BY <1>2, <1>b, <2>2
  <2> QED BY <1>1, <2>1, <2>2 DEF Listed
<1> QED BY <1>3, <1>4, <1>5, <1>6, <1>7, <1>8, <1>9, <1>10 DEF BridgeInv

\* What is asked next.
LEMMA BridgeNextAsked ==
  ASSUME NEW k \in {"runs", "start"}, NEW w \in {"load", "search", "cancel"}, NEW t \in Topic \cup {None},
         NEW d, NEW a, NEW l \in Nat, k = "start" => t \in Topic
  PROVE  LET q == B!Ask(k, w, 0, t, 0)
         IN  q \in B!Request /\ q.kind # "found" /\ Sound(q, d, a, l)
<1> DEFINE q == B!Ask(k, w, 0, t, 0)
<1>1. k \in B!Kind /\ w \in B!Why /\ 0 \in Nat /\ 0 \in B!Run \cup {0}
  BY DEF B!Kind, B!Why
<1>2. (k \in {"lookup", "start"} => t \in Topic) /\ (k = "cancel" => 0 \in B!Run) /\ k # "found"
  OBVIOUS
<1>3. q = B!Ask(k, w, 0, t, 0)
  OBVIOUS
<1> HIDE DEF q
<1>4. q \in B!Request /\ q.kind = k /\ Sound(q, d, a, l)
  BY ONLY <1>1, <1>2, <1>3, BridgeAsked, t \in Topic \cup {None}, l \in Nat
<1> QED BY <1>2, <1>4 DEF q

\* The lists and the first load.
LEMMA BridgeListsLand ==
  ASSUME BridgeInv, NEW r \in flight, B!ShelfLands(r) \/ B!FoundLands(r) \/ B!CancelLands(r)
  PROVE  BridgeInv'
<1>a. BridgeData /\ BridgeFlags /\ BridgeCounts /\ RowsBacked /\ BridgeRequests
      /\ B!AnnouncedIsReady /\ B!FinishIsAnnounced /\ Listed
  BY DEF BridgeInv
<1>b. r \in B!Request /\ Sound(r, recorded, recorded \cup unrecorded, lost) /\ lost \in Nat
  BY <1>a DEF BridgeRequests, BridgeCounts
<1> DEFINE d == recorded
           a == recorded \cup unrecorded
<1>1. ASSUME NEW w \in {"load", "search", "cancel"}
      PROVE  LET q == B!Ask("runs", w, 0, None, 0)
             IN  q \in B!Request /\ q.kind # "found" /\ Sound(q, d, a, lost)
  <2> HIDE DEF d, a
  <2>1. "runs" \in {"runs", "start"} /\ None \in Topic \cup {None} /\ "runs" # "start"
    OBVIOUS
  <2> QED BY <1>b, <2>1, BridgeNextAsked
<1>2. ASSUME NEW part, NEW why, NEW x \in B!Arrived(part, why)
      PROVE  x \in B!Request /\ x.kind # "found" /\ Sound(x, d, a, lost)
  <2>1. x = B!Ask("runs", "load", 0, None, 0)
    BY DEF B!Arrived
  <2> HIDE DEF d, a
  <2> QED BY <1>1, <2>1
<1>3. CASE B!ShelfLands(r)
  <2>1. /\ UNCHANGED <<B!server, runs, recents, checked, justFound, watched, loading, error, busy, quick, stale, lost>>
        /\ pending' = pending \ {"shelf"} /\ flight' = (flight \ {r}) \cup B!Arrived("shelf", "load") /\ r.kind # "found"
    BY <1>3 DEF B!ShelfLands, B!lists
  <2>2. pending' \subseteq {"shelf", "found"} /\ loading' \in BOOLEAN /\ error' \in BOOLEAN /\ busy' \in BOOLEAN
    BY <1>a, <2>1 DEF BridgeData, BridgeFlags
  <2>3. \A x \in flight' : x \in flight \/ (x \in B!Request /\ x.kind # "found" /\ Sound(x, d, a, lost))
    BY <1>2, <2>1
  <2>4. \A x \in flight : x.kind = "found" => x \in flight'
    BY <2>1
  <2> QED BY <2>1, <2>2, <2>3, <2>4, BridgeAlone
<1>4. CASE B!CancelLands(r)
  <2>1. /\ UNCHANGED <<B!server, runs, recents, checked, justFound, watched, loading, error, busy, quick, stale, lost, pending>>
        /\ flight' = (flight \ {r}) \cup {B!Ask("runs", "cancel", 0, None, 0)} /\ r.kind # "found"
    BY <1>4 DEF B!CancelLands, B!page, B!lists
  <2>2. pending' \subseteq {"shelf", "found"} /\ loading' \in BOOLEAN /\ error' \in BOOLEAN /\ busy' \in BOOLEAN
    BY <1>a, <2>1 DEF BridgeData, BridgeFlags
  <2>3. \A x \in flight' : x \in flight \/ (x \in B!Request /\ x.kind # "found" /\ Sound(x, d, a, lost))
    BY <1>1, <2>1
  <2>4. \A x \in flight : x.kind = "found" => x \in flight'
    BY <2>1
  <2> QED BY <2>1, <2>2, <2>3, <2>4, BridgeAlone
<1>5. CASE B!FoundLands(r)
  <2>1. /\ UNCHANGED <<B!server, runs, justFound, watched, loading, error, quick, stale, lost>>
        /\ recents' = r.recents /\ checked' = r.checked
        /\ pending' = IF r.why = "load" THEN pending \ {"found"} ELSE pending
        /\ flight' = (flight \ {r}) \cup B!Arrived("found", r.why)
        /\ busy' = (busy /\ r.why # "search") /\ r.kind = "found" /\ r.phase = "ok"
    BY <1>5 DEF B!FoundLands
  <2>2. srv' = srv /\ ready' = ready /\ recorded' = recorded /\ unrecorded' = unrecorded /\ others' = others
    BY <2>1 DEF B!server
  <2>3. BridgeData'
    <3>1. recents' \subseteq Topic /\ checked' \subseteq Topic
      BY <1>b, <2>1 DEF B!Request
    <3>2. pending' \subseteq {"shelf", "found"}
      BY <1>a, <2>1 DEF BridgeData
    <3> QED BY <1>a, <2>1, <2>2, <3>1, <3>2 DEF BridgeData
  <2>4. BridgeFlags'
    BY <1>a, <2>1 DEF BridgeFlags
  <2>5. BridgeCounts'
    BY <1>a, <2>1, <2>2 DEF BridgeCounts
  <2>6. RowsBacked'
    BY <1>a, <2>1, <2>2 DEF RowsBacked
  <2>7. BridgeRequests'
    <3>1. \A x \in flight' : x \in flight \/ (x \in B!Request /\ Sound(x, recorded', recorded' \cup unrecorded', lost'))
      BY <1>2, <2>1, <2>2 DEF d, a
    <3>2. recorded \subseteq recorded' /\ recorded \cup unrecorded \subseteq recorded' \cup unrecorded' /\ lost' \in Nat /\ lost <= lost'
      BY <1>b, <2>1, <2>2
    <3> QED BY <1>a, <3>1, <3>2, BridgeWire
  <2>8. B!AnnouncedIsReady' /\ B!FinishIsAnnounced'
    BY <1>a, <2>1, <2>2 DEF B!AnnouncedIsReady, B!FinishIsAnnounced
  <2>9. Listed'
    <3> SUFFICES ASSUME justFound # None, ~stale PROVE Listed'
      BY <2>1 DEF Listed
    <3>1. /\ justFound \in recorded /\ Brings(r, justFound)
          /\ \A x \in flight : x.kind = "found" => x = r
      BY <1>a, <2>1 DEF Listed
    <3>2. justFound \in recents' \cap checked'
      BY <1>b, <2>1, <3>1 DEF Sound, Brings
    <3>3. \A x \in flight' : x.kind # "found"
      BY <1>2, <2>1, <3>1
    <3> QED BY <2>1, <2>2, <3>1, <3>2, <3>3 DEF Listed
  <2> QED BY <2>3, <2>4, <2>5, <2>6, <2>7, <2>8, <2>9 DEF BridgeInv
<1> QED BY <1>3, <1>4, <1>5

\* The list of runs, and what it announces.
LEMMA BridgeRunsLand ==
  ASSUME BridgeInv, NEW r \in flight, B!RunsLand(r)
  PROVE  BridgeInv'
<1>a. BridgeData /\ BridgeFlags /\ BridgeCounts /\ RowsBacked /\ BridgeRequests
      /\ B!AnnouncedIsReady /\ B!FinishIsAnnounced /\ Listed
  BY DEF BridgeInv
<1>b. r \in B!Request /\ Sound(r, recorded, recorded \cup unrecorded, lost) /\ lost \in Nat
  BY <1>a DEF BridgeRequests, BridgeCounts
<1>c. r.rows \in B!Rows /\ Backed(r.rows, recorded \cup unrecorded)
  BY <1>b DEF B!Request, Sound
<1> DEFINE t == r.rows[watched].topic
           done == r.why = "poll" /\ B!Completed(r.rows, runs)
           seen == watched # 0 /\ r.rows[watched].status = "succeeded"
<1>1. /\ r.kind = "runs" /\ runs' = r.rows
      /\ loading' = (loading /\ r.why # "load") /\ busy' = (busy /\ r.why # "search")
      /\ quick' = (quick \/ (r.why # "poll" /\ seen))
      /\ UNCHANGED <<B!server, recents, checked, pending, error, lost>>
  BY DEF B!RunsLand
<1>2. loading' \in BOOLEAN /\ busy' \in BOOLEAN /\ quick' \in BOOLEAN /\ error' \in BOOLEAN
  BY <1>a, <1>1 DEF BridgeFlags
<1>3. done <=> r.why = "poll" /\ seen
  BY DEF B!Completed
<1>4. CASE done
  <2>1. /\ justFound' = t /\ watched' = 0 /\ flight' = (flight \ {r}) \cup {B!AskFound("poll", t)}
        /\ stale' = (stale \/ B!Misses(t))
    BY <1>4 DEF B!RunsLand
  <2>2. watched \in B!Run /\ watched # 0
    BY <1>a, <1>3, <1>4 DEF BridgeData
  <2>3. t \in recorded \cup unrecorded
    BY <1>c, <1>3, <1>4, <2>2 DEF Backed
  <2>4. stale' \in BOOLEAN /\ (stale => stale') /\ (~stale' => t \in recorded /\ \A q \in flight : q.kind # "found")
    <3>1. B!Misses(t) <=> t \in unrecorded \/ \E q \in flight : q.kind = "found"
      BY DEF B!Misses
    <3> QED BY <1>a, <2>1, <2>3, <3>1 DEF BridgeFlags
  <2>5. watched' \in {0, watched} /\ watched' # watched /\ "poll" \in {"poll", "search"} /\ r.kind # "found"
    BY <1>1, <2>1, <2>2
  <2> HIDE DEF t
  <2> QED BY <1>1, <1>2, <1>c, <2>1, <2>3, <2>4, <2>5, BridgeAnnounces
<1>5. CASE ~done
  <2>1. flight' = flight \ {r} /\ justFound' = justFound /\ watched' = watched /\ stale' = stale
    BY <1>5 DEF B!RunsLand
  <2>2. srv' = srv /\ ready' = ready /\ recorded' = recorded /\ unrecorded' = unrecorded /\ others' = others
    BY <1>1 DEF B!server
  <2>3. BridgeData'
    BY <1>a, <1>1, <1>c, <2>1, <2>2 DEF BridgeData
  <2>4. BridgeFlags'
    BY <1>a, <1>2, <2>1 DEF BridgeFlags
  <2>5. BridgeCounts'
    BY <1>a, <1>1, <2>2 DEF BridgeCounts
  <2>6. RowsBacked'
    BY <1>a, <1>1, <1>c, <2>2 DEF RowsBacked
  <2>7. BridgeRequests'
    BY <1>a, <1>1, <2>1, <2>2 DEF BridgeRequests
  <2>8. B!AnnouncedIsReady'
    BY <1>a, <2>1, <2>2 DEF B!AnnouncedIsReady
  <2>9. B!FinishIsAnnounced'
    BY <1>1, <1>3, <1>5, <2>1 DEF B!FinishIsAnnounced
  <2>10. Listed'
    BY <1>a, <1>1, <2>1, <2>2, ListedStays
  <2> QED BY <2>3, <2>4, <2>5, <2>6, <2>7, <2>8, <2>9, <2>10 DEF BridgeInv
<1> QED BY <1>4, <1>5

\* The answers to a search.
LEMMA BridgeSearchLands ==
  ASSUME BridgeInv, NEW r \in flight, B!LookupLands(r) \/ B!StartLands(r)
  PROVE  BridgeInv'
<1>a. BridgeData /\ BridgeFlags /\ BridgeCounts /\ RowsBacked /\ BridgeRequests
      /\ B!AnnouncedIsReady /\ B!FinishIsAnnounced /\ Listed
  BY DEF BridgeInv
<1>b. r \in B!Request /\ Sound(r, recorded, recorded \cup unrecorded, lost) /\ lost \in Nat
  BY <1>a DEF BridgeRequests, BridgeCounts
<1>1. /\ UNCHANGED <<B!server, runs, recents, checked, pending, loading, error, busy, lost>>
      /\ r.phase = "ok" /\ r.kind \in {"lookup", "start"} /\ r.kind # "found"
  BY DEF B!LookupLands, B!StartLands, B!lists
<1>2. loading' \in BOOLEAN /\ busy' \in BOOLEAN /\ error' \in BOOLEAN /\ pending' \subseteq {"shelf", "found"}
  BY <1>a, <1>1 DEF BridgeFlags, BridgeData
<1>3. r.topic \in Topic
  BY <1>1, <1>b DEF Sound
<1>4. CASE B!Announce(r, flight \ {r}) /\ r.topic \in recorded
  <2> DEFINE t == r.topic
  <2>1. /\ justFound' = t /\ flight' = (flight \ {r}) \cup {B!AskFound("search", t)}
        /\ stale' = (stale \/ \E q \in flight : q.kind = "found") /\ watched' = watched /\ quick' = quick
    BY <1>4 DEF B!Announce
  <2>2. stale' \in BOOLEAN /\ (stale => stale') /\ (~stale' => t \in recorded /\ \A q \in flight : q.kind # "found")
    BY <1>a, <1>4, <2>1 DEF BridgeFlags
  <2>3. /\ runs' \in B!Rows /\ Backed(runs', recorded \cup unrecorded) /\ quick' \in BOOLEAN
        /\ watched' \in {0, watched} /\ "search" \in {"poll", "search"} /\ t \in recorded \cup unrecorded
    BY <1>a, <1>1, <1>4, <2>1 DEF BridgeData, RowsBacked, BridgeFlags
  <2> HIDE DEF t
  <2> QED BY <1>1, <1>2, <2>1, <2>2, <2>3, BridgeAnnounces
<1>5. CASE B!LookupLands(r)
  <2>1. CASE r.topic \in r.checked
    <3>1. r.topic \in recorded
      BY <1>5, <1>b, <2>1 DEF Sound, B!LookupLands
    <3> QED BY <1>4, <1>5, <2>1, <3>1 DEF B!LookupLands
  <2>2. CASE r.topic \notin r.checked
    <3> DEFINE q == B!Ask("start", "search", 0, r.topic, 0)  d == recorded  a == recorded \cup unrecorded
    <3>1. flight' = (flight \ {r}) \cup {q} /\ UNCHANGED <<justFound, watched, quick, stale>>
      BY <1>5, <2>2 DEF B!LookupLands
    <3>2. q \in B!Request /\ q.kind # "found" /\ Sound(q, d, a, lost)
      <4> HIDE DEF d, a
      <4>1. "start" \in {"runs", "start"} /\ "search" \in {"load", "search", "cancel"} /\ r.topic \in Topic \cup {None}
        BY <1>3
      <4> QED BY <1>b, <1>3, <4>1, BridgeNextAsked
    <3> HIDE DEF q
    <3>3. \A x \in flight' : x \in flight \/ (x \in B!Request /\ x.kind # "found" /\ Sound(x, d, a, lost))
      BY <3>1, <3>2
    <3>4. \A x \in flight : x.kind = "found" => x \in flight'
      BY <1>1, <3>1
    <3> QED BY <1>1, <1>2, <3>1, <3>3, <3>4, BridgeAlone
  <2> QED BY <2>1, <2>2
<1>6. CASE B!StartLands(r)
  <2>1. CASE r.run = 0
    <3>1. r.topic \in recorded
      BY <1>6, <1>b, <2>1 DEF Sound, B!StartLands
    <3> QED BY <1>4, <1>6, <2>1, <3>1 DEF B!StartLands
  <2>2. CASE r.run # 0
    <3> DEFINE q == B!Ask("runs", "search", 0, None, 0)  d == recorded  a == recorded \cup unrecorded
    <3>1. /\ flight' = (flight \ {r}) \cup {q} /\ watched' = r.run /\ justFound' = None /\ stale' = stale
          /\ quick' = (runs[r.run].status = "succeeded")
      BY <1>6, <2>2 DEF B!StartLands
    <3>2. q \in B!Request /\ q.kind # "found" /\ Sound(q, d, a, lost)
      <4> HIDE DEF d, a
      <4>1. "runs" \in {"runs", "start"} /\ "search" \in {"load", "search", "cancel"} /\ None \in Topic \cup {None} /\ "runs" # "start"
        OBVIOUS
      <4> QED BY <1>b, <4>1, BridgeNextAsked
    <3> HIDE DEF q
    <3>3. srv' = srv /\ ready' = ready /\ recorded' = recorded /\ unrecorded' = unrecorded /\ others' = others
      BY <1>1 DEF B!server
    <3>4. BridgeData'
      <4>1. watched' \in B!Run \cup {0}
        BY <1>b, <3>1 DEF B!Request
      <4> QED BY <1>a, <1>1, <1>2, <3>1, <3>3, <4>1 DEF BridgeData
    <3>5. BridgeFlags'
      <4>1. quick' \in BOOLEAN
        BY <3>1
      <4> QED BY <1>a, <1>2, <3>1, <4>1 DEF BridgeFlags
    <3>6. BridgeCounts'
      BY <1>a, <1>1, <3>3 DEF BridgeCounts
    <3>7. RowsBacked'
      BY <1>a, <1>1, <3>3 DEF RowsBacked
    <3>8. BridgeRequests'
      <4>1. \A x \in flight' : x \in flight \/ (x \in B!Request /\ Sound(x, recorded', recorded' \cup unrecorded', lost'))
        BY <1>1, <3>1, <3>2, <3>3 DEF d, a
      <4>2. recorded \subseteq recorded' /\ recorded \cup unrecorded \subseteq recorded' \cup unrecorded' /\ lost' \in Nat /\ lost <= lost'
        BY <1>1, <1>b, <3>3
      <4> QED BY <1>a, <4>1, <4>2, BridgeWire
    <3>9. B!AnnouncedIsReady' /\ Listed'
      BY <3>1 DEF B!AnnouncedIsReady, Listed
    <3>10. B!FinishIsAnnounced'
      BY <1>1, <3>1 DEF B!FinishIsAnnounced
    <3> QED BY <3>4, <3>5, <3>6, <3>7, <3>8, <3>9, <3>10 DEF BridgeInv
  <2> QED BY <2>1, <2>2
<1> QED BY <1>5, <1>6

\* A refusal, and an answer that never comes.
LEMMA BridgeLoses ==
  ASSUME BridgeInv, NEW r \in flight, B!Fails(r) \/ B!Lose(r)
  PROVE  BridgeInv'
<1>a. BridgeData /\ BridgeFlags /\ BridgeCounts /\ RowsBacked /\ BridgeRequests
      /\ B!AnnouncedIsReady /\ B!FinishIsAnnounced /\ Listed
  BY DEF BridgeInv
<1>b. r \in B!Request /\ Sound(r, recorded, recorded \cup unrecorded, lost) /\ lost \in Nat
  BY <1>a DEF BridgeRequests, BridgeCounts
<1>1. UNCHANGED <<B!server, runs, recents, checked, justFound, watched, quick, stale>>
  BY DEF B!Fails, B!Lose, B!page, B!lists
<1>2. srv' = srv /\ ready' = ready /\ recorded' = recorded /\ unrecorded' = unrecorded /\ others' = others
  BY <1>1 DEF B!server
<1>3. RowsBacked' /\ B!AnnouncedIsReady' /\ B!FinishIsAnnounced'
  BY <1>a, <1>1, <1>2 DEF RowsBacked, B!AnnouncedIsReady, B!FinishIsAnnounced
<1>4. CASE B!Fails(r)
  <2>1. /\ flight' = flight \ {r} /\ error' = (error \/ r.why # "poll") /\ loading' = (loading /\ r.why # "load")
        /\ busy' = (busy /\ r.why # "search") /\ pending' = (IF r.why = "load" THEN {} ELSE pending)
        /\ lost' = lost /\ r.phase = "refused"
    BY <1>4 DEF B!Fails
  <2>2. BridgeData'
    BY <1>a, <1>1, <1>2, <2>1 DEF BridgeData
  <2>3. BridgeFlags'
    BY <1>a, <1>1, <2>1 DEF BridgeFlags
  <2>4. BridgeCounts'
    BY <1>a, <1>2, <2>1 DEF BridgeCounts
  <2>5. BridgeRequests'
    BY <1>a, <1>2, <2>1 DEF BridgeRequests
  <2>6. Listed'
    <3>1. CASE r.kind = "found"
      <4>1. lost' > 0
        BY <1>b, <2>1, <3>1 DEF Sound
      <4> QED BY <1>a, <1>1, <1>2, <2>1, <4>1 DEF Listed
    <3>2. CASE r.kind # "found"
      BY <1>a, <1>1, <1>2, <2>1, <3>2, ListedStays
    <3> QED BY <3>1, <3>2
  <2> QED BY <1>3, <2>2, <2>3, <2>4, <2>5, <2>6 DEF BridgeInv
<1>5. CASE B!Lose(r)
  <2> DEFINE q == [r EXCEPT !.phase = "refused"]
  <2>1. /\ others + lost < MaxEvents /\ lost' = lost + 1 /\ flight' = (flight \ {r}) \cup {q}
        /\ UNCHANGED <<pending, loading, error, busy>>
    BY <1>5 DEF B!Lose, B!page
  <2>2. /\ q \in B!Request /\ q.kind = r.kind /\ q.phase = "refused" /\ q.rows = r.rows /\ q.topic = r.topic
        /\ q.run = r.run /\ q.served = r.served /\ q.recents = r.recents /\ q.checked = r.checked
    BY <1>b DEF B!Request
  <2> HIDE DEF q
  <2>3. lost' \in Nat /\ lost <= lost' /\ lost' > 0 /\ lost' # 0
    BY <1>b, <2>1
  <2>4. BridgeData'
    BY <1>a, <1>1, <1>2, <2>1 DEF BridgeData
  <2>5. BridgeFlags'
    BY <1>a, <1>1, <2>1 DEF BridgeFlags
  <2>6. BridgeCounts'
    <3>1. MaxEvents \in Nat
      BY ScreensAssumption DEF B!BridgePagesConstants
    <3> QED BY <1>a, <1>2, <2>1, <3>1 DEF BridgeCounts
  <2>7. BridgeRequests'
    <3> DEFINE d == recorded'  a == recorded' \cup unrecorded'  l == lost'
    <3>1. Sound(r, d, a, lost) /\ l > 0
      BY <1>b, <1>2, <2>3
    <3> HIDE DEF d, a, l
    <3>2. Sound(q, d, a, l)
      BY <2>2, <3>1 DEF Sound
    <3>3. \A x \in flight' : x \in flight \/ (x \in B!Request /\ Sound(x, d, a, l))
      BY <2>1, <2>2, <3>2
    <3>4. recorded \subseteq recorded' /\ recorded \cup unrecorded \subseteq recorded' \cup unrecorded'
      BY <1>2
    <3> QED BY <1>a, <2>3, <3>3, <3>4, BridgeWire DEF d, a, l
  <2>8. Listed'
    <3> SUFFICES ASSUME justFound # None, ~stale PROVE Listed'
      BY <1>1 DEF Listed
    <3>1. /\ justFound \in recorded
          /\ \A x, y \in flight : x.kind = "found" /\ y.kind = "found" => x = y
          /\ \A x \in flight : x.kind = "found" => Brings(x, justFound)
      BY <1>a DEF Listed
    <3>2. q.kind = "found" => Brings(q, justFound)
      BY <2>2, <3>1 DEF Brings
    <3>3. \A x, y \in flight' : x.kind = "found" /\ y.kind = "found" => x = y
      BY <2>1, <2>2, <3>1
    <3>4. \A x \in flight' : x.kind = "found" => Brings(x, justFound)
      BY <2>1, <3>1, <3>2
    <3> QED BY <1>1, <1>2, <2>3, <3>1, <3>3, <3>4 DEF Listed
  <2> QED BY <1>3, <2>4, <2>5, <2>6, <2>7, <2>8 DEF BridgeInv
<1> QED BY <1>4, <1>5

\* Every step of the finder keeps its invariant.
LEMMA BridgeStep == BridgeInv /\ B!Next => BridgeInv'
<1> SUFFICES ASSUME BridgeInv, B!Next PROVE BridgeInv'
  OBVIOUS
<1>1. CASE (\E t \in Topic : B!Search(t)) \/ (\E n \in B!Run : B!Cancel(n)) \/ B!Tick
  BY <1>1, BridgeUser
<1>2. CASE (\E n \in B!Run : B!Work(n)) \/ (\E t \in Topic : B!Record(t) \/ B!Other(t))
  BY <1>2, BridgeWorks
<1>3. ASSUME NEW r \in flight,
             \/ B!Serve(r) \/ B!Lose(r) \/ B!ShelfLands(r) \/ B!FoundLands(r) \/ B!RunsLand(r)
             \/ B!LookupLands(r) \/ B!StartLands(r) \/ B!CancelLands(r) \/ B!Fails(r)
      PROVE  BridgeInv'
  BY <1>3, BridgeServes, BridgeListsLand, BridgeRunsLand, BridgeSearchLands, BridgeLoses
<1> QED BY <1>1, <1>2, <1>3 DEF B!Next

\* The inductive invariant of the account pages.  A request that a form on screen waits
\* for is Mine; there is one at most, and the form is busy while there is.
Mine(r, m) ==
    /\ r.mount = m /\ r.form \in A!FormsOf(page)
    /\ r.kind # "validate" /\ ~(r.form = "verify" /\ r.kind = "reload")
\* What a form says of what the server did, when no answer was lost or when one was.
Told(f, s, done, calm) ==
    /\ s.message => done
    /\ s.error /\ s.message => f = "email"
    /\ s.error /\ done /\ calm => s.message
    /\ s.busy => ~s.error
\* What a form waits for.
Truthful(r, s, done, calm) ==
    /\ r.kind = "submit" => ~s.message /\ (r.phase = "ok" => done) /\ (calm /\ done => r.phase = "ok")
    /\ r.kind # "submit" => done
    /\ r.kind = "reload" => s.message

AccountData ==
    /\ page \in A!Page /\ form \in [A!Form -> A!Shown] /\ did \in [A!Form -> BOOLEAN]
    /\ check \in {"checking", "form", "dead"} /\ user \in A!User
    /\ resetLink \in {"good", "dead"} /\ verifyLink \in {"good", "dead"}
    /\ verified \in BOOLEAN /\ dead \in BOOLEAN /\ late \in BOOLEAN /\ effect \in BOOLEAN
AccountCounts == mount \in Nat /\ lost \in Nat /\ mount > 0 /\ mount + lost <= MaxMounts
AccountKinds ==
    \A r \in flight :
        /\ r \in A!Request /\ r.mount \in 1..mount
        /\ r.kind = "logout" => r.form \in {"password", "delete"}
        /\ r.kind = "reload" => r.form \in {"email", "verify"}
        /\ r.kind = "validate" => r.form = "reset"
OneAsked == \A r, q \in flight : Mine(r, mount) /\ Mine(q, mount) /\ r.form = q.form => r = q
BusyIsAsked ==
    \A f \in A!FormsOf(page) : form[f].busy <=> \E r \in flight : r.form = f /\ Mine(r, mount)
DidHere == \A f \in A!Form : did[f] => page = "outside" \/ f \in A!FormsOf(page)
Faithful ==
    /\ \A f \in A!FormsOf(page) : Told(f, form[f], did[f], lost = 0)
    /\ \A r \in flight : Mine(r, mount) => Truthful(r, form[r.form], did[r.form], lost = 0)
NobodyLeft ==
    \A f \in {"password", "delete"} :
        did[f] /\ ~form[f].busy /\ ~late /\ (form[f].error => lost = 0) =>
            user = "none" /\ \A q \in flight : q.kind # "reload" /\ q.form # "email"
AccountInv ==
    /\ AccountData /\ AccountCounts /\ AccountKinds /\ OneAsked /\ BusyIsAsked /\ DidHere
    /\ Faithful /\ NobodyLeft

\* What the invariant of the account pages is for.
LEMMA AccountShows == AccountInv => A!TypeOK /\ A!OutcomeIsTrue /\ A!NoZombie
<1> SUFFICES ASSUME AccountInv PROVE A!TypeOK /\ A!OutcomeIsTrue /\ A!NoZombie
  OBVIOUS
<1>1. A!TypeOK
  <2>1. mount \in 1..MaxMounts /\ lost \in 0..MaxMounts
    <3>1. MaxMounts \in Nat
      BY ScreensAssumption DEF A!AccountPagesConstants
    <3> QED BY <3>1 DEF AccountInv, AccountCounts
  <2>2. flight \subseteq A!Request /\ \A r \in flight : r.mount \in 1..mount
    BY DEF AccountInv, AccountKinds
  <2> QED BY <2>1, <2>2 DEF AccountInv, AccountData, A!TypeOK
<1>2. A!OutcomeIsTrue
  <2>1. lost = 0 \/ lost > 0
    BY DEF AccountInv, AccountCounts
  <2>2. \A f \in A!FormsOf(page) : Told(f, form[f], did[f], lost = 0)
    BY DEF AccountInv, Faithful
  <2> QED BY <2>1, <2>2 DEF Told, A!OutcomeIsTrue
<1>3. A!NoZombie
  BY DEF AccountInv, NobodyLeft, A!NoZombie
<1> QED BY <1>1, <1>2, <1>3

\* The forms of a page.
LEMMA PagesForms ==
  ASSUME NEW p \in A!Page
  PROVE  /\ A!FormsOf(p) \subseteq A!Form
         /\ "verify" \in A!FormsOf(p) <=> p = "verify"
         /\ "reset" \in A!FormsOf(p) <=> p = "reset"
         /\ "email" \in A!FormsOf(p) => p = "account"
         /\ "password" \in A!FormsOf(p) \/ "delete" \in A!FormsOf(p) => p = "account"
<1>1. p \in {"register", "forgot", "reset", "verify", "account", "home", "outside"}
  BY DEF A!Page
<1>2. /\ p = "account" => A!FormsOf(p) = {"password", "email", "delete"}
      /\ p = "home" => A!FormsOf(p) = {"resend"}
      /\ p = "outside" => A!FormsOf(p) = {}
      /\ p \notin {"account", "home", "outside"} => A!FormsOf(p) = {p}
  BY DEF A!FormsOf
<1> QED BY <1>1, <1>2 DEF A!Form

\* A request as it is made.
LEMMA AccountAsked ==
  ASSUME NEW f \in A!Form, NEW k \in {"submit", "logout", "reload", "validate"}, NEW n \in Nat, NEW i \in 1..2
  PROVE  /\ A!New(f, k, n, i) \in A!Request
         /\ A!New(f, k, n, i).form = f /\ A!New(f, k, n, i).kind = k /\ A!New(f, k, n, i).mount = n
         /\ A!New(f, k, n, i).phase = "asked" /\ A!New(f, k, n, i).run = i
<1>1. "none" \in A!User
  BY DEF A!User
<1> QED BY <1>1 DEF A!New, A!Request

\* What a page asks when it mounts.
LEMMA AccountEffects ==
  ASSUME NEW p \in A!Page, NEW n \in Nat, NEW r \in A!Effects(p, n)
  PROVE  /\ r \in A!Request /\ r.mount = n /\ r.phase = "asked" /\ r.form = p
         /\ \/ p = "reset" /\ r.kind = "validate"
            \/ p = "verify" /\ r = A!New("verify", "submit", n, 1) /\ r.kind = "submit"
<1>1. "reset" \in A!Form /\ "verify" \in A!Form /\ 1 \in 1..2 /\ 2 \in 1..2
  BY DEF A!Form
<1>2. CASE p = "reset"
  <2>1. r = A!New("reset", "validate", n, 1) \/ r = A!New("reset", "validate", n, 2)
    BY <1>2 DEF A!Effects
  <2> QED BY <1>1, <1>2, <2>1, AccountAsked
<1>3. CASE p = "verify"
  <2>1. r = A!New("verify", "submit", n, 1)
    BY <1>3 DEF A!Effects
  <2> QED BY <1>1, <1>3, <2>1, AccountAsked
<1>4. CASE p \notin {"reset", "verify"}
  BY <1>4 DEF A!Effects
<1> QED BY <1>2, <1>3, <1>4

\* A page that has just mounted, among requests of earlier ones.
LEMMA FreshForms ==
  /\ A!Fresh \in [A!Form -> A!Shown]
  /\ \A f \in A!Form : ~A!Fresh[f].error /\ ~A!Fresh[f].message /\ (A!Fresh[f].busy <=> f = "verify")
<1>1. \A f \in A!Form : A!Fresh[f] = [A!Blank EXCEPT !.busy = f = "verify"]
  BY DEF A!Fresh
<1>2. \A b \in BOOLEAN : /\ [A!Blank EXCEPT !.busy = b] = [busy |-> b, error |-> FALSE, message |-> FALSE]
                         /\ [A!Blank EXCEPT !.busy = b] \in A!Shown
  <2> TAKE b \in BOOLEAN
  <2>1. [A!Blank EXCEPT !.busy = b] = [busy |-> b, error |-> FALSE, message |-> FALSE]
    <3> DEFINE no == FALSE
    <3>1. A!Blank = [busy |-> no, error |-> no, message |-> no]
      BY DEF A!Blank
    <3> HIDE DEF no
    <3>2. [A!Blank EXCEPT !.busy = b] = [busy |-> b, error |-> no, message |-> no]
      BY <3>1
    <3> QED BY <3>2 DEF no
  <2>2. [busy |-> b, error |-> FALSE, message |-> FALSE] \in A!Shown
    BY DEF A!Shown
  <2> QED BY <2>1, <2>2
<1>3. \A f \in A!Form : \E b \in BOOLEAN : (b <=> f = "verify") /\ A!Fresh[f] = [A!Blank EXCEPT !.busy = b]
  BY <1>1
<1>4. A!Fresh = [f \in A!Form |-> A!Fresh[f]]
  BY DEF A!Fresh
<1>5. A!Fresh \in [A!Form -> A!Shown]
  BY <1>2, <1>3, <1>4
<1>6. ASSUME NEW f \in A!Form PROVE ~A!Fresh[f].error /\ ~A!Fresh[f].message /\ (A!Fresh[f].busy <=> f = "verify")
  <2>1. PICK b \in BOOLEAN : (b <=> f = "verify") /\ A!Fresh[f] = [A!Blank EXCEPT !.busy = b]
    BY <1>3
  <2>2. A!Fresh[f] = [busy |-> b, error |-> FALSE, message |-> FALSE]
    BY <1>2, <2>1
  <2>3. A!Fresh[f].busy = b /\ A!Fresh[f].error = FALSE /\ A!Fresh[f].message = FALSE
    BY <2>2
  <2> QED BY <2>1, <2>3
<1> QED BY <1>5, <1>6

MountedNow ==
    /\ AccountData /\ AccountCounts /\ form = A!Fresh /\ did = [f \in A!Form |-> FALSE]
    /\ A!Effects(page, mount) \subseteq flight
    /\ \A r \in flight \ A!Effects(page, mount) :
          /\ r \in A!Request /\ r.mount \in 1..mount /\ r.mount # mount
          /\ r.kind = "logout" => r.form \in {"password", "delete"}
          /\ r.kind = "reload" => r.form \in {"email", "verify"}
          /\ r.kind = "validate" => r.form = "reset"

\* A page that has just been opened satisfies the invariant.
LEMMA JustMounted == MountedNow => AccountInv
<1> SUFFICES ASSUME MountedNow PROVE AccountInv
  OBVIOUS
<1> DEFINE asked == A!Effects(page, mount)
<1>1. AccountData /\ AccountCounts /\ form = A!Fresh /\ (\A f \in A!Form : ~did[f]) /\ asked \subseteq flight
  BY DEF MountedNow
<1>2. page \in A!Page /\ mount \in Nat /\ mount > 0 /\ A!FormsOf(page) \subseteq A!Form
  BY <1>1, PagesForms DEF AccountData, AccountCounts
<1>3. ASSUME NEW r \in asked
      PROVE  /\ r \in A!Request /\ r.mount = mount /\ r.phase = "asked" /\ r.form = page
             /\ \/ page = "reset" /\ r.kind = "validate"
                \/ page = "verify" /\ r = A!New("verify", "submit", mount, 1) /\ r.kind = "submit"
  BY <1>2, AccountEffects
<1>4. \A r \in flight : r \in asked \/ r.mount # mount
  BY DEF MountedNow
<1>5. AccountKinds
  <2>1. ASSUME NEW r \in asked
        PROVE  /\ r \in A!Request /\ r.mount \in 1..mount
               /\ r.kind = "logout" => r.form \in {"password", "delete"}
               /\ r.kind = "reload" => r.form \in {"email", "verify"}
               /\ r.kind = "validate" => r.form = "reset"
    <3>1. mount \in 1..mount
      BY <1>2
    <3> QED BY <1>3, <3>1
  <2>2. ASSUME NEW r \in flight \ asked
        PROVE  /\ r \in A!Request /\ r.mount \in 1..mount /\ r.mount # mount
               /\ r.kind = "logout" => r.form \in {"password", "delete"}
               /\ r.kind = "reload" => r.form \in {"email", "verify"}
               /\ r.kind = "validate" => r.form = "reset"
    BY DEF MountedNow
  <2> HIDE DEF asked
  <2> QED BY <2>1, <2>2 DEF AccountKinds
<1> HIDE DEF asked
<1>6. OneAsked
  <2>1. \A r \in flight : Mine(r, mount) => r = A!New("verify", "submit", mount, 1)
    BY <1>3, <1>4 DEF Mine
  <2> QED BY <2>1 DEF OneAsked
<1>7. BusyIsAsked
  <2> SUFFICES ASSUME NEW f \in A!FormsOf(page)
               PROVE  form[f].busy <=> \E r \in flight : r.form = f /\ Mine(r, mount)
    BY DEF BusyIsAsked
  <2>1. form[f].busy <=> f = "verify"
    BY <1>1, <1>2, FreshForms
  <2>2. f = "verify" => page = "verify"
    BY <1>2, PagesForms
  <2>3. ASSUME page = "verify" PROVE \E r \in flight : r.form = "verify" /\ Mine(r, mount)
    <3>1. A!New("verify", "submit", mount, 1) \in asked
      BY <2>3 DEF asked, A!Effects
    <3> DEFINE v == A!New("verify", "submit", mount, 1)
    <3>2. v \in flight /\ v.form = page /\ v.mount = mount /\ v.kind = "submit"
      BY <1>1, <1>3, <2>3, <3>1
    <3>3. "verify" \in A!FormsOf(page)
      BY <1>2, <2>3, PagesForms
    <3> QED BY <2>3, <3>2, <3>3 DEF Mine
  <2>4. ASSUME NEW r \in flight, r.form = f, Mine(r, mount) PROVE f = "verify"
    BY <1>3, <1>4, <2>4 DEF Mine
  <2> QED BY <2>1, <2>2, <2>3, <2>4
<1>8. DidHere
  BY <1>1 DEF DidHere
<1>9. Faithful
  <2>1. \A f \in A!FormsOf(page) : Told(f, form[f], did[f], lost = 0)
    BY <1>1, <1>2, FreshForms DEF Told
  <2>2. ASSUME NEW r \in flight, Mine(r, mount) PROVE Truthful(r, form[r.form], did[r.form], lost = 0)
    <3>1. r \in asked
      BY <1>4, <2>2 DEF Mine
    <3>2. r.phase = "asked" /\ r.kind = "submit" /\ r.form \in A!Form
      BY <1>3, <2>2, <3>1 DEF A!Request, Mine
    <3>3. ~form[r.form].message /\ ~did[r.form]
      BY <1>1, <3>2, FreshForms
    <3> QED BY <3>2, <3>3 DEF Truthful
  <2> QED BY <2>1, <2>2 DEF Faithful
<1>10. NobodyLeft
  <2>1. "password" \in A!Form /\ "delete" \in A!Form
    BY DEF A!Form
  <2> QED BY <1>1, <2>1 DEF NobodyLeft
<1> QED BY <1>1, <1>5, <1>6, <1>7, <1>8, <1>9, <1>10 DEF AccountInv

\* The account pages start in their invariant.
LEMMA AccountInit == A!Init => AccountInv
<1> SUFFICES ASSUME A!Init PROVE AccountInv
  OBVIOUS
<1>1. /\ page \in A!Page /\ mount = 1 /\ form = A!Fresh /\ check = "checking"
      /\ user \in {"none", "unverified"} /\ flight = A!Effects(page, mount)
      /\ resetLink \in {"good", "dead"} /\ verifyLink \in {"good", "dead"}
      /\ verified = FALSE /\ dead = FALSE
      /\ did = [f \in A!Form |-> FALSE] /\ late = FALSE /\ effect = FALSE /\ lost = 0
  BY DEF A!Init
<1>2. AccountData
  <2>1. user \in A!User
    BY <1>1 DEF A!User
  <2> QED BY <1>1, <2>1, FreshForms DEF AccountData
<1>3. AccountCounts
  <2>1. MaxMounts \in Nat \ {0}
    BY ScreensAssumption DEF A!AccountPagesConstants
  <2> QED BY <1>1, <2>1 DEF AccountCounts
<1>4. MountedNow
  BY <1>1, <1>2, <1>3 DEF MountedNow
<1> QED BY <1>4, JustMounted

\* Another page.
LEMMA AccountOpens ==
  ASSUME AccountInv, NEW p \in A!Page, A!Open(p)
  PROVE  AccountInv'
<1>a. AccountData /\ AccountCounts /\ AccountKinds
  BY DEF AccountInv
<1>1. /\ mount + lost < MaxMounts /\ page' = p /\ mount' = mount + 1 /\ form' = A!Fresh /\ check' = "checking"
      /\ flight' = flight \cup A!Effects(p, mount + 1) /\ did' = [f \in A!Form |-> FALSE] /\ effect' = FALSE
      /\ UNCHANGED <<user, resetLink, verifyLink, verified, dead, late, lost>>
  BY DEF A!Open, A!server
<1>2. AccountData'
  BY <1>a, <1>1, FreshForms DEF AccountData
<1>3. AccountCounts'
  <2>1. MaxMounts \in Nat
    BY ScreensAssumption DEF A!AccountPagesConstants
  <2> QED BY <1>a, <1>1, <2>1 DEF AccountCounts
<1>4. mount \in Nat /\ mount' \in Nat /\ mount' = mount + 1
  BY <1>a, <1>1 DEF AccountCounts
<1>5. flight' = flight \cup A!Effects(page', mount')
  BY <1>1
<1> DEFINE asked == A!Effects(page', mount')
<1>6. \A r \in flight' \ asked :
          /\ r \in A!Request /\ r.mount \in 1..mount' /\ r.mount # mount'
          /\ r.kind = "logout" => r.form \in {"password", "delete"}
          /\ r.kind = "reload" => r.form \in {"email", "verify"}
          /\ r.kind = "validate" => r.form = "reset"
  <2> SUFFICES ASSUME NEW r \in flight
               PROVE  /\ r \in A!Request /\ r.mount \in 1..mount' /\ r.mount # mount'
                      /\ r.kind = "logout" => r.form \in {"password", "delete"}
                      /\ r.kind = "reload" => r.form \in {"email", "verify"}
                      /\ r.kind = "validate" => r.form = "reset"
    BY <1>5
  <2>1. r.mount \in 1..mount
    BY <1>a DEF AccountKinds
  <2>2. r.mount \in 1..mount' /\ r.mount # mount'
    BY <1>4, <2>1
  <2> QED BY <1>a, <2>2 DEF AccountKinds
<1>7. MountedNow'
  BY <1>1, <1>2, <1>3, <1>5, <1>6 DEF MountedNow
<1> QED BY <1>7, JustMounted, PTL

\* setState on the form that asked.
LEMMA Saying ==
  ASSUME AccountData, NEW r \in A!Request, NEW w \in A!Shown, A!Say(r, w)
  PROVE  /\ form' \in [A!Form -> A!Shown]
         /\ A!Mounted(r) => form'[r.form] = w
         /\ \A f \in A!Form : ~A!Mounted(r) \/ f # r.form => form'[f] = form[f]
<1>1. r.form \in A!Form /\ form \in [A!Form -> A!Shown]
  BY DEF A!Request, AccountData
<1>2. CASE A!Mounted(r)
  <2>1. form' = [form EXCEPT ![r.form] = w]
    BY <1>2 DEF A!Say
  <2> QED BY <1>1, <1>2, <2>1
<1>3. CASE ~A!Mounted(r)
  <2>1. form' = form
    BY <1>3 DEF A!Say
  <2> QED BY <1>1, <1>3, <2>1
<1> QED BY <1>2, <1>3

\* A form waits for the same requests while its page stays.
LEMMA MineStays == page' = page /\ mount' = mount => \A x : Mine(x, mount)' <=> Mine(x, mount)
BY DEF Mine

\* A request gets its answer.
LEMMA AccountSwapped ==
  ASSUME AccountKinds, OneAsked, BusyIsAsked, NEW r \in flight, NEW q \in A!Request,
         q.form = r.form, q.kind = r.kind, q.mount = r.mount,
         flight' = (flight \ {r}) \cup {q}, form' = form, mount' = mount, page' = page
  PROVE  AccountKinds' /\ OneAsked' /\ BusyIsAsked'
<1>m. \A x : Mine(x, mount)' <=> Mine(x, mount)
  BY MineStays
<1>1. Mine(q, mount) <=> Mine(r, mount)
  BY DEF Mine
<1>2. AccountKinds'
  BY DEF AccountKinds
<1>3. OneAsked'
  BY <1>m, <1>1 DEF OneAsked
<1>4. BusyIsAsked'
  <2>1. \A f \in A!FormsOf(page) :
          (\E x \in flight' : x.form = f /\ Mine(x, mount)) <=> (\E x \in flight : x.form = f /\ Mine(x, mount))
    BY <1>1
  <2> QED BY <1>m, <2>1 DEF BusyIsAsked
<1> QED BY <1>2, <1>3, <1>4

\* An answer lands, and the form that waited for it does not wait any more.
LEMMA AccountGone ==
  ASSUME AccountKinds, OneAsked, BusyIsAsked, NEW r \in flight,
         \A f \in A!FormsOf(page) : form'[f].busy <=> form[f].busy /\ ~(Mine(r, mount) /\ r.form = f),
         flight' = flight \ {r}, mount' = mount, page' = page
  PROVE  AccountKinds' /\ OneAsked' /\ BusyIsAsked'
<1>m. \A x : Mine(x, mount)' <=> Mine(x, mount)
  BY MineStays
<1>1. AccountKinds'
  BY DEF AccountKinds
<1>2. OneAsked'
  BY <1>m DEF OneAsked
<1>3. BusyIsAsked'
  <2>1. \A f \in A!FormsOf(page) :
          (\E x \in flight' : x.form = f /\ Mine(x, mount))
             <=> (\E x \in flight : x.form = f /\ Mine(x, mount)) /\ ~(Mine(r, mount) /\ r.form = f)
    BY DEF OneAsked
  <2> QED BY <1>m, <2>1 DEF BusyIsAsked
<1> QED BY <1>1, <1>2, <1>3

\* What the forms say stays true when some of them have been told.
LEMMA FaithfulStays ==
  ASSUME Faithful, lost' = lost, mount' = mount, page' = page, did' = did,
         \A x \in flight' : x \in flight \/ ~Mine(x, mount),
         \A f \in A!FormsOf(page) :
            form'[f] = form[f] \/
               /\ \A x \in flight' : ~(x.form = f /\ Mine(x, mount))
               /\ Told(f, form'[f], did[f], lost = 0)
  PROVE  Faithful'
<1>1. /\ \A f \in A!FormsOf(page) : Told(f, form[f], did[f], lost = 0)
      /\ \A r \in flight : Mine(r, mount) => Truthful(r, form[r.form], did[r.form], lost = 0)
  BY DEF Faithful
<1>2. \A f \in A!FormsOf(page) : Told(f, form'[f], did[f], lost = 0)
  BY <1>1
<1>3. ASSUME NEW x \in flight', Mine(x, mount) PROVE Truthful(x, form'[x.form], did[x.form], lost = 0)
  <2>1. x \in flight /\ x.form \in A!FormsOf(page)
    BY <1>3 DEF Mine
  <2>2. form'[x.form] = form[x.form]
    BY <1>3, <2>1
  <2> QED BY <1>1, <1>3, <2>1, <2>2
<1>4. \A x : Mine(x, mount)' <=> Mine(x, mount)
  BY DEF Mine
<1> QED BY <1>2, <1>3, <1>4 DEF Faithful

\* Nobody comes back.
LEMMA NobodyStays ==
  ASSUME NobodyLeft, \A f \in {"password", "delete"} : did'[f] => did[f] \/ form'[f].busy,
         late => late', user' \in {user, "none"}, lost' = 0 => lost = 0,
         \A x \in flight' : x.kind = "reload" \/ x.form = "email" =>
            late' \/ \E y \in flight : y.kind = "reload" \/ y.form = "email",
         \A f \in {"password", "delete"} :
            \/ form'[f].busy
            \/ (form'[f].busy <=> form[f].busy) /\ (form'[f].error <=> form[f].error)
  PROVE  NobodyLeft'
<1> SUFFICES ASSUME NEW f \in {"password", "delete"}, did'[f], ~form'[f].busy, form'[f].error => lost' = 0, ~late'
             PROVE  user' = "none" /\ \A q \in flight' : q.kind # "reload" /\ q.form # "email"
  BY DEF NobodyLeft
<1>1. did[f] /\ ~form[f].busy /\ (form[f].error => lost = 0) /\ ~late
  OBVIOUS
<1>2. user = "none" /\ \A q \in flight : q.kind # "reload" /\ q.form # "email"
  BY <1>1 DEF NobodyLeft
<1> QED BY <1>2

\* A form of the mounted page is sent.
LEMMA AccountSubmits ==
  ASSUME AccountInv, NEW f \in A!Form, A!Submit(f)
  PROVE  AccountInv'
<1>a. AccountData /\ AccountCounts /\ AccountKinds /\ OneAsked /\ BusyIsAsked /\ DidHere /\ Faithful /\ NobodyLeft
  BY DEF AccountInv
<1>1. PICK i \in 1..2 :
        /\ A!CanSubmit(f) /\ form' = [form EXCEPT ![f] = [A!Blank EXCEPT !.busy = TRUE]]
        /\ flight' = flight \cup {A!New(f, "submit", mount, i)}
        /\ did' = [did EXCEPT ![f] = FALSE]
        /\ UNCHANGED <<page, mount, check, user, resetLink, verifyLink, verified, dead, late, effect, lost>>
  BY DEF A!Submit, A!server
<1> DEFINE n == A!New(f, "submit", mount, i)
<1>2. /\ n \in A!Request /\ n.form = f /\ n.kind = "submit" /\ n.mount = mount /\ n.phase = "asked"
  BY <1>a, AccountAsked DEF AccountCounts
<1> HIDE DEF n
<1>3. f \in A!FormsOf(page) \ {"verify"} /\ A!Allowed(page) /\ ~form[f].busy
  BY <1>1 DEF A!CanSubmit
<1>4. \A x \in flight : ~(x.form = f /\ Mine(x, mount))
  BY <1>a, <1>3 DEF BusyIsAsked
<1>5. Mine(n, mount) /\ mount \in 1..mount
  BY <1>a, <1>2, <1>3 DEF Mine, AccountCounts
<1> DEFINE w == [A!Blank EXCEPT !.busy = TRUE]
<1>6. w \in A!Shown /\ w.busy /\ ~w.error /\ ~w.message
  <2> DEFINE no == FALSE  yes == TRUE
  <2>1. A!Blank = [busy |-> no, error |-> no, message |-> no] /\ w = [A!Blank EXCEPT !.busy = yes]
    BY DEF A!Blank
  <2>2. no \in BOOLEAN /\ yes \in BOOLEAN
    OBVIOUS
  <2> HIDE DEF no, yes, w
  <2>3. w = [busy |-> yes, error |-> no, message |-> no]
    BY <2>1
  <2>4. w \in A!Shown /\ w.busy = yes /\ w.error = no /\ w.message = no
    BY <2>2, <2>3 DEF A!Shown
  <2> QED BY <2>4 DEF no, yes
<1> HIDE DEF w
<1>7. /\ form' \in [A!Form -> A!Shown] /\ form'[f] = w
      /\ \A g \in A!Form : g # f => form'[g] = form[g]
  <2>1. form' = [form EXCEPT ![f] = w]
    BY <1>1 DEF w
  <2> QED BY <1>a, <1>6, <2>1 DEF AccountData
<1>8. did' \in [A!Form -> BOOLEAN] /\ ~did'[f] /\ \A g \in A!Form : g # f => did'[g] = did[g]
  BY <1>a, <1>1 DEF AccountData
<1>9. A!FormsOf(page) \subseteq A!Form /\ flight' = flight \cup {n}
  BY <1>a, <1>1, PagesForms DEF AccountData, n
<1>10. AccountData'
  BY <1>a, <1>1, <1>7, <1>8 DEF AccountData
<1>11. AccountCounts'
  BY <1>a, <1>1 DEF AccountCounts
<1>12. AccountKinds'
  BY <1>a, <1>1, <1>2, <1>3, <1>5, <1>9 DEF AccountKinds
<1>13. OneAsked'
  <2>1. \A x : Mine(x, mount)' <=> Mine(x, mount)
    BY <1>1, MineStays
  <2> QED BY <1>a, <1>2, <1>4, <1>9, <2>1 DEF OneAsked
<1>14. BusyIsAsked'
  <2> SUFFICES ASSUME NEW g \in A!FormsOf(page)
               PROVE  form'[g].busy <=> \E r \in flight' : r.form = g /\ Mine(r, mount)
    BY <1>1, MineStays DEF BusyIsAsked
  <2>1. CASE g = f
    BY <1>2, <1>5, <1>6, <1>7, <1>9, <2>1
  <2>2. CASE g # f
    BY <1>a, <1>2, <1>7, <1>9, <2>2 DEF BusyIsAsked
  <2> QED BY <2>1, <2>2
<1>15. DidHere'
  BY <1>a, <1>1, <1>8 DEF DidHere
<1>16. Faithful'
  <2>1. /\ \A g \in A!FormsOf(page) : Told(g, form[g], did[g], lost = 0)
        /\ \A r \in flight : Mine(r, mount) => Truthful(r, form[r.form], did[r.form], lost = 0)
    BY <1>a DEF Faithful
  <2>2. \A g \in A!FormsOf(page) : Told(g, form'[g], did'[g], lost = 0)
    <3>1. Told(f, w, did'[f], lost = 0)
      BY <1>6, <1>8 DEF Told
    <3> QED BY <1>7, <1>8, <1>9, <2>1, <3>1
  <2>3. Truthful(n, form'[f], did'[f], lost = 0)
    BY <1>2, <1>6, <1>7, <1>8 DEF Truthful
  <2>4. ASSUME NEW r \in flight, Mine(r, mount) PROVE Truthful(r, form'[r.form], did'[r.form], lost = 0)
    <3>1. r.form # f /\ r.form \in A!Form
      BY <1>a, <1>4, <2>4 DEF AccountKinds, A!Request
    <3> QED BY <1>7, <1>8, <2>1, <2>4, <3>1
  <2>5. \A r \in flight' : Mine(r, mount) => Truthful(r, form'[r.form], did'[r.form], lost = 0)
    BY <1>2, <1>9, <2>3, <2>4
  <2>6. page' = page /\ lost' = lost /\ (\A x : Mine(x, mount)' <=> Mine(x, mount))
    BY <1>1, MineStays
  <2> QED BY <2>2, <2>5, <2>6 DEF Faithful
<1>17. NobodyLeft'
  <2> SUFFICES ASSUME NEW g \in {"password", "delete"}, did'[g], ~form'[g].busy,
                      form'[g].error => lost = 0, ~late
               PROVE  user = "none" /\ \A q \in flight' : q.kind # "reload" /\ q.form # "email"
    BY <1>1 DEF NobodyLeft
  <2>1. g # f /\ g \in A!Form
    BY <1>8 DEF A!Form
  <2>2. did[g] /\ ~form[g].busy /\ (form[g].error => lost = 0)
    BY <1>7, <1>8, <2>1
  <2>3. user = "none" /\ \A q \in flight : q.kind # "reload" /\ q.form # "email"
    BY <1>a, <2>2 DEF NobodyLeft
  <2>4. f # "email"
    <3>1. f = "email" => page = "account"
      BY <1>3, <1>a, PagesForms DEF AccountData
    <3>2. page = "account" => user # "none"
      BY <1>3 DEF A!Allowed
    <3> QED BY <2>3, <3>1, <3>2
  <2> QED BY <1>2, <1>9, <2>3, <2>4
<1> QED BY <1>10, <1>11, <1>12, <1>13, <1>14, <1>15, <1>16, <1>17 DEF AccountInv

\* The server answers, and does what it was asked or not.
LEMMA AccountServes ==
  ASSUME AccountInv, NEW r \in flight, A!Serve(r)
  PROVE  AccountInv'
<1>a. AccountData /\ AccountCounts /\ AccountKinds /\ OneAsked /\ BusyIsAsked /\ DidHere /\ Faithful /\ NobodyLeft
  BY DEF AccountInv
<1>b. r \in A!Request /\ r.form \in A!Form /\ r.kind \in {"submit", "logout", "reload", "validate"}
  BY <1>a DEF AccountKinds, A!Request
<1> DEFINE done(a) == a = "ok" /\ r.kind = "submit"
           does(a, f) == a = "ok" /\ r.kind = "submit" /\ r.form = f
<1>1. PICK a \in A!Answers(r), g \in {A!Fetched, "none"} :
        /\ flight' = (flight \ {r}) \cup {[r EXCEPT !.phase = a, !.got = g]}
        /\ resetLink' = (IF does(a, "reset") THEN "dead" ELSE resetLink)
        /\ verifyLink' = (IF does(a, "verify") THEN "dead" ELSE verifyLink)
        /\ verified' = ((verified \/ (does(a, "verify") /\ OwnLink)) /\ ~does(a, "email"))
        /\ dead' = (dead \/ does(a, "password") \/ does(a, "delete") \/ does(a, "reset"))
        /\ did' = (IF done(a) /\ A!Mounted(r) THEN [did EXCEPT ![r.form] = TRUE] ELSE did)
        /\ UNCHANGED <<page, mount, form, check, user, late, effect, lost>>
  <2>1. r.phase = "asked" /\ \E a \in A!Answers(r) :
          LET do(f) == a = "ok" /\ r.kind = "submit" /\ r.form = f
          IN  /\ flight' = (flight \ {r}) \cup
                    {[r EXCEPT !.phase = a, !.got = IF r.kind = "reload" THEN A!Fetched ELSE "none"]}
              /\ resetLink' = IF do("reset") THEN "dead" ELSE resetLink
              /\ verifyLink' = IF do("verify") THEN "dead" ELSE verifyLink
              /\ verified' = ((verified \/ (do("verify") /\ OwnLink)) /\ ~do("email"))
              /\ dead' = (dead \/ do("password") \/ do("delete") \/ do("reset"))
              /\ did' = IF a = "ok" /\ r.kind = "submit" /\ A!Mounted(r)
                        THEN [did EXCEPT ![r.form] = TRUE] ELSE did
              /\ UNCHANGED <<page, mount, form, check, user, late, effect, lost>>
    BY DEF A!Serve
  <2> QED BY <2>1
<1>2. a \in {"ok", "refused"} /\ r.phase = "asked"
  BY <1>1 DEF A!Answers, A!Serve
<1> DEFINE q == [r EXCEPT !.phase = a, !.got = g]
<1>3. /\ q \in A!Request /\ q.form = r.form /\ q.kind = r.kind /\ q.mount = r.mount /\ q.phase = a
      /\ flight' = (flight \ {r}) \cup {q}
  <2>1. g \in A!User
    BY DEF A!User, A!Fetched
  <2> QED BY <1>1, <1>2, <1>b, <2>1 DEF A!Request
<1> HIDE DEF q
<1>4. /\ did' \in [A!Form -> BOOLEAN] /\ \A f \in A!Form : did'[f] <=> did[f] \/ (done(a) /\ A!Mounted(r) /\ f = r.form)
  BY <1>a, <1>b, <1>1 DEF AccountData
<1>5. AccountData'
  <2>1. verified' \in BOOLEAN /\ dead' \in BOOLEAN
    BY <1>a, <1>1 DEF AccountData
  <2> QED BY <1>a, <1>1, <1>4, <2>1 DEF AccountData
<1>6. AccountCounts'
  BY <1>a, <1>1 DEF AccountCounts
<1>7. AccountKinds' /\ OneAsked' /\ BusyIsAsked'
  <2>1. form' = form /\ mount' = mount /\ page' = page
    BY <1>1
  <2> QED BY <1>a, <1>3, <2>1, AccountSwapped
<1>8. DidHere'
  BY <1>a, <1>b, <1>1, <1>4 DEF DidHere, A!Mounted
<1>9. done(a) /\ A!Mounted(r) => Mine(r, mount) /\ form[r.form].busy
  BY <1>a, <1>b DEF Mine, BusyIsAsked, A!Mounted
<1>10. Faithful'
  <2>1. /\ \A f \in A!FormsOf(page) : Told(f, form[f], did[f], lost = 0)
        /\ \A x \in flight : Mine(x, mount) => Truthful(x, form[x.form], did[x.form], lost = 0)
    BY <1>a DEF Faithful
  <2>2. A!FormsOf(page) \subseteq A!Form
    BY <1>a, PagesForms DEF AccountData
  <2>3. ASSUME NEW f \in A!FormsOf(page) PROVE Told(f, form[f], did'[f], lost = 0)
    <3>1. CASE done(a) /\ A!Mounted(r) /\ f = r.form
      <4>1. form[f].busy /\ ~form[f].message /\ ~form[f].error
        BY <1>9, <2>1, <2>3, <3>1 DEF Told, Truthful
      <4> QED BY <4>1 DEF Told
    <3>2. CASE ~(done(a) /\ A!Mounted(r) /\ f = r.form)
      <4>1. did'[f] <=> did[f]
        BY <1>4, <2>2, <3>2
      <4> QED BY <2>1, <4>1 DEF Told
    <3> QED BY <3>1, <3>2
  <2>4. ASSUME Mine(q, mount) PROVE Truthful(q, form[q.form], did'[q.form], lost = 0)
    <3>1. Mine(r, mount) /\ A!Mounted(r)
      BY <1>3, <2>4 DEF Mine, A!Mounted
    <3>2. Truthful(r, form[r.form], did[r.form], lost = 0)
      BY <2>1, <3>1
    <3>3. did'[r.form] <=> did[r.form] \/ done(a)
      BY <1>4, <1>b, <3>1
    <3>4. CASE r.kind = "submit"
      <4>1. r.phase = "asked" /\ ~form[r.form].message /\ (lost = 0 => ~did[r.form])
        BY <1>2, <3>2, <3>4 DEF Truthful
      <4>2. (a = "ok" => did'[r.form]) /\ (lost = 0 /\ did'[r.form] => a = "ok")
        BY <3>3, <3>4, <4>1
      <4> QED BY <1>3, <3>4, <4>1, <4>2 DEF Truthful
    <3>5. CASE r.kind # "submit"
      BY <1>3, <3>2, <3>3, <3>5 DEF Truthful
    <3> QED BY <3>4, <3>5
  <2>5. ASSUME NEW x \in flight, x # r, Mine(x, mount) PROVE Truthful(x, form[x.form], did'[x.form], lost = 0)
    <3>1. x.form \in A!Form
      BY <1>a DEF AccountKinds, A!Request
    <3>2. ~(done(a) /\ A!Mounted(r) /\ x.form = r.form)
      BY <1>9, <1>a, <2>5 DEF OneAsked
    <3>3. did'[x.form] <=> did[x.form]
      BY <1>4, <3>1, <3>2
    <3> QED BY <2>1, <2>5, <3>3 DEF Truthful
  <2>6. page' = page /\ lost' = lost /\ form' = form /\ (\A x : Mine(x, mount)' <=> Mine(x, mount))
    BY <1>1, MineStays
  <2>7. \A x \in flight' : Mine(x, mount) => Truthful(x, form[x.form], did'[x.form], lost = 0)
    BY <1>3, <2>1, <2>4, <2>5
  <2> QED BY <2>3, <2>6, <2>7 DEF Faithful
<1>11. NobodyLeft'
  <2>1. \A f \in {"password", "delete"} : did'[f] => did[f] \/ form'[f].busy
    <3>1. "password" \in A!Form /\ "delete" \in A!Form /\ form' = form
      BY <1>1 DEF A!Form
    <3> QED BY <1>4, <1>9, <3>1
  <2>2. late' = late /\ user' = user /\ form' = form /\ lost' = lost
    BY <1>1
  <2>3. \A x \in flight' : x.kind = "reload" \/ x.form = "email" =>
            \E y \in flight : y.kind = "reload" \/ y.form = "email"
    BY <1>3
  <2> QED BY <1>a, <2>1, <2>2, <2>3, NobodyStays
<1> QED BY <1>5, <1>6, <1>7, <1>8, <1>10, <1>11 DEF AccountInv

\* An answer, or a request, is lost.
LEMMA AccountLoses ==
  ASSUME AccountInv, NEW r \in flight, A!Lose(r)
  PROVE  AccountInv'
<1>a. AccountData /\ AccountCounts /\ AccountKinds /\ OneAsked /\ BusyIsAsked /\ DidHere /\ Faithful /\ NobodyLeft
  BY DEF AccountInv
<1> DEFINE q == [r EXCEPT !.phase = "refused"]
<1>1. /\ mount + lost < MaxMounts /\ flight' = (flight \ {r}) \cup {q} /\ lost' = lost + 1
      /\ UNCHANGED <<page, mount, form, check, user, resetLink, verifyLink, verified, dead, did, late, effect>>
  BY DEF A!Lose, A!server
<1>2. q \in A!Request /\ q.form = r.form /\ q.kind = r.kind /\ q.mount = r.mount /\ q.phase = "refused"
  BY <1>a DEF AccountKinds, A!Request
<1> HIDE DEF q
<1>3. AccountData'
  BY <1>a, <1>1 DEF AccountData
<1>4. AccountCounts' /\ lost' # 0
  <2>1. MaxMounts \in Nat
    BY ScreensAssumption DEF A!AccountPagesConstants
  <2> QED BY <1>a, <1>1, <2>1 DEF AccountCounts
<1>5. AccountKinds' /\ OneAsked' /\ BusyIsAsked'
  <2>1. form' = form /\ mount' = mount /\ page' = page
    BY <1>1
  <2> QED BY <1>a, <1>1, <1>2, <2>1, AccountSwapped
<1>6. DidHere'
  BY <1>a, <1>1 DEF DidHere
<1>7. Faithful'
  <2>1. /\ \A f \in A!FormsOf(page) : Told(f, form[f], did[f], lost = 0)
        /\ \A x \in flight : Mine(x, mount) => Truthful(x, form[x.form], did[x.form], lost = 0)
    BY <1>a DEF Faithful
  <2>2. \A f \in A!FormsOf(page) : Told(f, form[f], did[f], lost' = 0)
    BY <1>4, <2>1 DEF Told
  <2>3. ASSUME NEW x \in flight, Mine(x, mount) PROVE Truthful(x, form[x.form], did[x.form], lost' = 0)
    BY <1>4, <2>1, <2>3 DEF Truthful
  <2>4. ASSUME Mine(q, mount) PROVE Truthful(q, form[q.form], did[q.form], lost' = 0)
    <3>1. Mine(r, mount)
      BY <1>2, <2>4 DEF Mine
    <3>2. Truthful(r, form[r.form], did[r.form], lost = 0)
      BY <2>1, <3>1
    <3> QED BY <1>2, <1>4, <3>2 DEF Truthful
  <2>5. page' = page /\ form' = form /\ did' = did /\ (\A x : Mine(x, mount)' <=> Mine(x, mount))
    BY <1>1, MineStays
  <2>6. \A x \in flight' : x \in flight \/ x = q
    BY <1>1
  <2> QED BY <2>2, <2>3, <2>4, <2>5, <2>6 DEF Faithful
<1>8. NobodyLeft'
  <2>1. did' = did /\ late' = late /\ user' = user /\ form' = form /\ lost' # 0
    BY <1>1, <1>4
  <2>2. \A x \in flight' : x.kind = "reload" \/ x.form = "email" =>
            \E y \in flight : y.kind = "reload" \/ y.form = "email"
    BY <1>1, <1>2
  <2> QED BY <1>a, <2>1, <2>2, NobodyStays
<1> QED BY <1>3, <1>4, <1>5, <1>6, <1>7, <1>8 DEF AccountInv

\* VerifyEmail's second effect, and the session restored.
LEMMA AccountEffectRuns ==
  ASSUME AccountInv, A!Refetch \/ A!Restored
  PROVE  AccountInv'
<1>a. AccountData /\ AccountCounts /\ AccountKinds /\ OneAsked /\ BusyIsAsked /\ DidHere /\ Faithful /\ NobodyLeft
  BY DEF AccountInv
<1> DEFINE n == A!New("verify", "reload", mount, 1)
<1>1. /\ page = "verify" /\ effect' \in BOOLEAN /\ user' \in {user, "unverified", "verified"}
      /\ flight' = flight \/ flight' = flight \cup {n}
      /\ UNCHANGED <<page, mount, form, check, resetLink, verifyLink, verified, dead, did, late, lost>>
  BY DEF A!Refetch, A!Restored, A!server, A!Fetched
<1>2. n \in A!Request /\ n.form = "verify" /\ n.kind = "reload" /\ n.mount = mount /\ n.phase = "asked"
  <2>1. "verify" \in A!Form /\ 1 \in 1..2 /\ mount \in Nat /\ "reload" \in {"submit", "logout", "reload", "validate"}
    BY <1>a DEF A!Form, AccountCounts
  <2> QED BY <2>1, AccountAsked
<1> HIDE DEF n
<1>3. \A x \in flight' : x \in flight \/ x = n
  BY <1>1
<1>4. ~Mine(n, mount) /\ \A x : Mine(x, mount)' <=> Mine(x, mount)
  BY <1>1, <1>2, MineStays DEF Mine
<1>5. AccountData'
  <2>1. user' \in A!User
    BY <1>a, <1>1 DEF AccountData, A!User
  <2> QED BY <1>a, <1>1, <2>1 DEF AccountData
<1>6. AccountCounts'
  BY <1>a, <1>1 DEF AccountCounts
<1>7. AccountKinds'
  <2>1. mount \in 1..mount
    BY <1>a DEF AccountCounts
  <2> QED BY <1>a, <1>1, <1>2, <1>3, <2>1 DEF AccountKinds
<1>8. OneAsked'
  BY <1>a, <1>1, <1>3, <1>4 DEF OneAsked
<1>9. BusyIsAsked'
  <2>1. \A f \in A!FormsOf(page) :
          (\E x \in flight' : x.form = f /\ Mine(x, mount)) <=> (\E x \in flight : x.form = f /\ Mine(x, mount))
    BY <1>1, <1>4
  <2> QED BY <1>a, <1>1, <1>4, <2>1 DEF BusyIsAsked
<1>10. DidHere'
  BY <1>a, <1>1 DEF DidHere
<1>11. Faithful'
  <2>1. \A x \in flight' : x \in flight \/ ~Mine(x, mount)
    BY <1>3, <1>4
  <2>2. lost' = lost /\ mount' = mount /\ page' = page /\ did' = did /\ form' = form
    BY <1>1
  <2> QED BY <1>a, <2>1, <2>2, FaithfulStays
<1>12. NobodyLeft'
  <2>1. ~did["password"] /\ ~did["delete"]
    <3>1. A!FormsOf(page) = {"verify"} /\ page # "outside"
      BY <1>1 DEF A!FormsOf
    <3>2. "password" \in A!Form /\ "delete" \in A!Form
      BY DEF A!Form
    <3> QED BY <1>a, <3>1, <3>2 DEF DidHere
  <2>2. did' = did
    BY <1>1
  <2> QED BY <2>1, <2>2 DEF NobodyLeft
<1> QED BY <1>5, <1>6, <1>7, <1>8, <1>9, <1>10, <1>11, <1>12 DEF AccountInv

\* What a form says of a request that came back.
LEMMA Landed ==
  ASSUME AccountInv, NEW r \in flight, NEW w \in A!Shown, A!Say(r, w), ~w.busy,
         flight' = flight \ {r}, A!Mounted(r) => Mine(r, mount),
         UNCHANGED <<page, mount, resetLink, verifyLink, verified, dead, did, late, lost>>,
         check' \in {"checking", "form", "dead"}, user' \in A!User, effect' \in BOOLEAN,
         user' = user \/ r.kind = "reload",
         A!Mounted(r) => Told(r.form, w, did[r.form], lost = 0),
         A!Mounted(r) /\ r.form \in {"password", "delete"} => w.error /\ (lost = 0 => ~did[r.form])
  PROVE  AccountInv'
<1>a. AccountData /\ AccountCounts /\ AccountKinds /\ OneAsked /\ BusyIsAsked /\ DidHere /\ Faithful /\ NobodyLeft
  BY DEF AccountInv
<1>b. r \in A!Request /\ A!FormsOf(page) \subseteq A!Form
  BY <1>a, PagesForms DEF AccountKinds, AccountData
<1>1. /\ form' \in [A!Form -> A!Shown]
      /\ A!Mounted(r) => form'[r.form] = w
      /\ \A f \in A!Form : ~A!Mounted(r) \/ f # r.form => form'[f] = form[f]
  BY <1>a, <1>b, Saying
<1>2. AccountData'
  BY <1>a, <1>1 DEF AccountData
<1>3. AccountCounts' /\ DidHere'
  BY <1>a DEF AccountCounts, DidHere
<1>4. Mine(r, mount) <=> A!Mounted(r)
  BY DEF Mine, A!Mounted
<1>5. AccountKinds' /\ OneAsked' /\ BusyIsAsked'
  <2>1. ASSUME NEW f \in A!FormsOf(page)
        PROVE  form'[f].busy <=> form[f].busy /\ ~(Mine(r, mount) /\ r.form = f)
    <3>1. CASE A!Mounted(r) /\ r.form = f
      <4>1. form'[f] = w
        BY <1>1, <3>1
      <4> QED BY <1>4, <3>1, <4>1
    <3>2. CASE ~(A!Mounted(r) /\ r.form = f)
      <4>1. form'[f] = form[f]
        BY <1>1, <1>b, <3>2
      <4> QED BY <1>4, <3>2, <4>1
    <3> QED BY <3>1, <3>2
  <2> QED BY <1>a, <2>1, AccountGone
<1>6. Faithful'
  <2>1. ASSUME NEW f \in A!FormsOf(page)
        PROVE  form'[f] = form[f] \/
                 /\ \A x \in flight' : ~(x.form = f /\ Mine(x, mount))
                 /\ Told(f, form'[f], did[f], lost = 0)
    <3>1. CASE A!Mounted(r) /\ r.form = f
      <4>1. \A x \in flight' : ~(x.form = f /\ Mine(x, mount))
        BY <1>a, <1>4, <3>1 DEF OneAsked
      <4>2. Told(f, form'[f], did[f], lost = 0)
        BY <1>1, <3>1
      <4> QED BY <4>1, <4>2
    <3>2. CASE ~(A!Mounted(r) /\ r.form = f)
      BY <1>1, <1>b, <3>2
    <3> QED BY <3>1, <3>2
  <2>2. \A x \in flight' : x \in flight
    OBVIOUS
  <2> QED BY <1>a, <2>1, <2>2, FaithfulStays
<1>7. NobodyLeft'
  <2> SUFFICES ASSUME NEW f \in {"password", "delete"}, did[f], ~form'[f].busy, form'[f].error => lost = 0, ~late
               PROVE  user' = "none" /\ \A q \in flight' : q.kind # "reload" /\ q.form # "email"
    BY DEF NobodyLeft
  <2>1. f \in A!Form
    BY DEF A!Form
  <2>2. ~(A!Mounted(r) /\ r.form = f)
    BY <1>1
  <2>3. form'[f] = form[f]
    BY <1>1, <2>1, <2>2
  <2>4. user = "none" /\ \A q \in flight : q.kind # "reload" /\ q.form # "email"
    BY <1>a, <2>3 DEF NobodyLeft
  <2> QED BY <2>4
<1> QED BY <1>2, <1>3, <1>5, <1>6, <1>7 DEF AccountInv

\* What is said: whether it works, whether it failed, whether it is done.
LEMMA SaidOf ==
  ASSUME NEW b \in BOOLEAN, NEW e \in BOOLEAN, NEW m \in BOOLEAN
  PROVE  LET w == [busy |-> b, error |-> e, message |-> m]
         IN  w \in A!Shown /\ (w.busy <=> b) /\ (w.error <=> e) /\ (w.message <=> m)
<1> DEFINE w == [busy |-> b, error |-> e, message |-> m]
<1>1. w \in A!Shown
  BY DEF A!Shown
<1>2. w.busy = b /\ w.error = e /\ w.message = m
  OBVIOUS
<1> QED BY <1>1, <1>2

\* A form that is at rest again says whether it failed and keeps its success.
LEMMA SaidAgain ==
  ASSUME NEW s \in A!Shown, NEW e \in BOOLEAN
  PROVE  LET w == [s EXCEPT !.busy = FALSE, !.error = e]
         IN  w \in A!Shown /\ ~w.busy /\ (w.error <=> e) /\ (w.message <=> s.message)
<1> DEFINE no == FALSE
           w == [s EXCEPT !.busy = no, !.error = e]
<1>1. no \in BOOLEAN
  OBVIOUS
<1> HIDE DEF no
<1>2. w \in A!Shown
  BY <1>1 DEF A!Shown
<1>3. w.busy = no /\ w.error = e /\ w.message = s.message
  BY DEF A!Shown
<1> QED BY <1>2, <1>3 DEF no

\* An answer that no form waits for.
LEMMA PassedBy ==
  ASSUME AccountInv, NEW r \in flight, ~Mine(r, mount), form' = form, flight' = flight \ {r},
         UNCHANGED <<page, mount, resetLink, verifyLink, verified, dead, did, late, lost>>,
         check' \in {"checking", "form", "dead"}, user' \in A!User, effect' \in BOOLEAN,
         user' = user \/ r.kind = "reload"
  PROVE  AccountInv'
<1>a. AccountData /\ AccountCounts /\ AccountKinds /\ OneAsked /\ BusyIsAsked /\ DidHere /\ Faithful /\ NobodyLeft
  BY DEF AccountInv
<1>1. AccountData' /\ AccountCounts' /\ DidHere'
  BY <1>a DEF AccountData, AccountCounts, DidHere
<1>2. AccountKinds' /\ OneAsked' /\ BusyIsAsked'
  BY <1>a, AccountGone
<1>3. Faithful'
  BY <1>a, FaithfulStays
<1>4. NobodyLeft'
  BY <1>a DEF NobodyLeft
<1> QED BY <1>1, <1>2, <1>3, <1>4 DEF AccountInv

\* A tab that has been signed out: the page is left, or was not the form's.
LEMMA SignedOut ==
  ASSUME AccountInv, NEW r \in flight, A!LogoutLands(r)
  PROVE  AccountInv'
<1>a. AccountData /\ AccountCounts /\ AccountKinds /\ OneAsked /\ BusyIsAsked /\ DidHere /\ Faithful /\ NobodyLeft
  BY DEF AccountInv
<1>b. r \in A!Request /\ r.form \in {"password", "delete"} /\ r.form \in A!Form /\ form[r.form] \in A!Shown
  BY <1>a DEF AccountKinds, A!LogoutLands, A!Request, AccountData
<1>1. PICK e \in BOOLEAN : (e <=> r.phase = "refused") /\ A!Say(r, [form[r.form] EXCEPT !.busy = FALSE, !.error = e])
  BY DEF A!LogoutLands
<1> DEFINE w == [form[r.form] EXCEPT !.busy = FALSE, !.error = e]
<1>2. w \in A!Shown /\ A!Say(r, w)
  BY <1>b, <1>1, SaidAgain
<1> HIDE DEF w
<1>3. /\ r.kind = "logout" /\ user' = "none" /\ flight' = flight \ {r}
      /\ page' = (IF r.phase = "ok" \/ page \in {"account", "home"} THEN "outside" ELSE page)
      /\ late' = (late \/ \E q \in flight : q.kind = "reload" \/ q.form = "email")
      /\ UNCHANGED <<mount, check, resetLink, verifyLink, verified, dead, did, effect, lost>>
  BY DEF A!LogoutLands, A!Dropped, A!server
<1>4. form' \in [A!Form -> A!Shown] /\ (~A!Mounted(r) => form' = form)
  BY <1>a, <1>b, <1>2, Saying DEF A!Say
<1>5. AccountData'
  <2>1. page' \in A!Page /\ user' \in A!User
    BY <1>a, <1>3 DEF AccountData, A!Page, A!User
  <2>2. late' \in BOOLEAN
    BY <1>a, <1>3 DEF AccountData
  <2> QED BY <1>a, <1>3, <1>4, <2>1, <2>2 DEF AccountData
<1>6. AccountCounts' /\ DidHere'
  BY <1>a, <1>3 DEF AccountCounts, DidHere
<1>7. NobodyLeft'
  <2>1. ASSUME ~late' PROVE \A q \in flight' : q.kind # "reload" /\ q.form # "email"
    BY <1>3, <2>1
  <2> QED BY <1>3, <2>1 DEF NobodyLeft
<1>8. CASE page' = "outside"
  <2>1. A!FormsOf(page') = {}
    BY <1>8 DEF A!FormsOf
  <2>2. \A x : ~Mine(x, mount)'
    BY <2>1 DEF Mine
  <2>3. AccountKinds'
    BY <1>a, <1>3 DEF AccountKinds
  <2>4. OneAsked' /\ BusyIsAsked' /\ Faithful'
    BY <2>1, <2>2 DEF OneAsked, BusyIsAsked, Faithful
  <2> QED BY <1>5, <1>6, <1>7, <2>3, <2>4 DEF AccountInv
<1>9. CASE page' # "outside"
  <2>1. page' = page /\ page \notin {"account", "home"} /\ mount' = mount /\ did' = did /\ lost' = lost
    BY <1>3, <1>9
  <2>2. ~A!Mounted(r)
    BY <1>a, <1>b, <2>1, PagesForms DEF AccountData, A!Mounted
  <2>3. form' = form /\ ~Mine(r, mount)
    BY <1>4, <2>2 DEF Mine, A!Mounted
  <2>4. AccountKinds' /\ OneAsked' /\ BusyIsAsked'
    BY <1>a, <1>3, <2>1, <2>3, AccountGone
  <2>5. Faithful'
    BY <1>a, <1>3, <2>1, <2>3, FaithfulStays
  <2> QED BY <1>5, <1>6, <1>7, <2>4, <2>5 DEF AccountInv
<1> QED BY <1>8, <1>9

\* An answer that is a refusal, or that lands on a second request or a check of a link, keeps the invariant.
LEMMA AccountLands ==
  ASSUME AccountInv, NEW r \in flight,
         A!SubmitRefused(r) \/ A!ReloadLands(r) \/ A!ValidateLands(r)
  PROVE  AccountInv'
<1>a. AccountData /\ AccountCounts /\ AccountKinds /\ OneAsked /\ BusyIsAsked /\ DidHere /\ Faithful /\ NobodyLeft
  BY DEF AccountInv
<1>b. r \in A!Request /\ r.form \in A!Form /\ form[r.form] \in A!Shown
  BY <1>a DEF AccountKinds, A!Request, AccountData
<1>c. UNCHANGED <<page, mount, resetLink, verifyLink, verified, dead, did, late, lost>> /\ flight' = flight \ {r}
  BY DEF A!SubmitRefused, A!ReloadLands, A!ValidateLands, A!server
<1>d. check \in {"checking", "form", "dead"} /\ user \in A!User /\ effect \in BOOLEAN
  BY <1>a DEF AccountData
<1>e. ASSUME Mine(r, mount) PROVE Truthful(r, form[r.form], did[r.form], lost = 0)
  BY <1>a, <1>e DEF Faithful
<1>1. CASE A!SubmitRefused(r)
  <2> DEFINE yes == TRUE
             w == [form[r.form] EXCEPT !.busy = FALSE, !.error = yes]
  <2>1. /\ r.kind = "submit" /\ r.phase = "refused" /\ A!Say(r, w)
        /\ check' = check /\ user' = user /\ effect' = effect
    BY <1>1 DEF A!SubmitRefused, A!Failed
  <2>2. yes \in BOOLEAN /\ yes
    OBVIOUS
  <2> HIDE DEF yes
  <2>3. w \in A!Shown /\ ~w.busy /\ w.error /\ (w.message <=> form[r.form].message)
    BY <1>b, <2>2, SaidAgain
  <2> HIDE DEF w
  <2>4. A!Mounted(r) => Mine(r, mount)
    BY <2>1 DEF Mine, A!Mounted
  <2>5. ASSUME A!Mounted(r) PROVE Told(r.form, w, did[r.form], lost = 0) /\ (lost = 0 => ~did[r.form])
    <3>1. ~form[r.form].message /\ (lost = 0 => ~did[r.form])
      BY <1>e, <2>1, <2>4, <2>5 DEF Truthful
    <3> QED BY <2>3, <3>1 DEF Told
  <2> QED BY <1>c, <1>d, <2>1, <2>3, <2>4, <2>5, Landed
<1>2. CASE A!ReloadLands(r)
  <2>1. /\ r.kind = "reload" /\ r.phase # "asked" /\ user' \in {r.got, user} /\ check' = check
        /\ effect' = (effect \/ r.phase = "ok")
    BY <1>2 DEF A!ReloadLands
  <2>2. user' \in A!User /\ effect' \in BOOLEAN
    BY <1>b, <1>d, <2>1 DEF A!Request
  <2>3. CASE r.form = "verify"
    <3>1. form' = form /\ ~Mine(r, mount)
      BY <1>2, <2>1, <2>3 DEF A!ReloadLands, Mine
    <3> QED BY <1>c, <1>d, <2>1, <2>2, <3>1, PassedBy
  <2>4. CASE r.form # "verify"
    <3>1. PICK e \in BOOLEAN : (e <=> r.phase = "refused") /\ A!Say(r, [form[r.form] EXCEPT !.busy = FALSE, !.error = e])
      BY <1>2, <2>4 DEF A!ReloadLands
    <3> DEFINE w == [form[r.form] EXCEPT !.busy = FALSE, !.error = e]
    <3>2. w \in A!Shown /\ ~w.busy /\ (w.error <=> e) /\ (w.message <=> form[r.form].message)
      BY <1>b, SaidAgain
    <3>3. A!Say(r, w)
      BY <3>1
    <3> HIDE DEF w
    <3>4. r.form = "email" /\ (A!Mounted(r) => Mine(r, mount))
      BY <1>a, <2>1, <2>4 DEF AccountKinds, Mine, A!Mounted
    <3>5. ASSUME A!Mounted(r) PROVE Told(r.form, w, did[r.form], lost = 0)
      <4>1. did[r.form] /\ form[r.form].message
        BY <1>e, <2>1, <3>4, <3>5 DEF Truthful
      <4> QED BY <3>2, <3>4, <4>1 DEF Told
    <3>6. user' = user \/ r.kind = "reload"
      BY <2>1
    <3> QED BY <1>c, <1>d, <2>1, <2>2, <3>2, <3>3, <3>4, <3>5, <3>6, Landed
  <2> QED BY <2>3, <2>4
<1>3. CASE A!ValidateLands(r)
  <2>1. /\ r.kind = "validate" /\ form' = form /\ user' = user /\ effect' = effect
        /\ check' \in {"form", "dead", check}
    BY <1>3 DEF A!ValidateLands
  <2>2. ~Mine(r, mount)
    BY <2>1 DEF Mine
  <2>3. check' \in {"checking", "form", "dead"}
    BY <1>d, <2>1
  <2> QED BY <1>c, <1>d, <2>1, <2>2, <2>3, PassedBy
<1> QED BY <1>1, <1>2, <1>3

\* A submission that succeeded.
LEMMA AccountDone ==
  ASSUME AccountInv, NEW r \in flight, A!SubmitOk(r)
  PROVE  AccountInv'
<1>a. AccountData /\ AccountCounts /\ AccountKinds /\ OneAsked /\ BusyIsAsked /\ DidHere /\ Faithful /\ NobodyLeft
  BY DEF AccountInv
<1>b. /\ r \in A!Request /\ r.form \in A!Form /\ form[r.form] \in A!Shown /\ r.mount \in 1..mount
      /\ A!FormsOf(page) \subseteq A!Form /\ r.run \in 1..2 /\ r.mount \in Nat
  BY <1>a, PagesForms DEF AccountKinds, A!Request, AccountData
<1> DEFINE second == A!Then(r.form)
<1>1. /\ r.kind = "submit" /\ r.phase = "ok"
      /\ flight' = (flight \ {r}) \cup (IF second = "none" THEN {} ELSE {A!New(r.form, second, r.mount, r.run)})
      /\ effect' = (effect \/ r.form = "verify")
      /\ UNCHANGED <<page, mount, check, user, resetLink, verifyLink, verified, dead, did, late, lost>>
  BY DEF A!SubmitOk, A!server
<1>2. PICK b \in BOOLEAN, m \in BOOLEAN, e \in BOOLEAN :
        /\ (b <=> second # "none") /\ (m <=> r.form \notin {"password", "delete"}) /\ ~e
        /\ A!Say(r, [busy |-> b, error |-> e, message |-> m])
  BY DEF A!SubmitOk
<1> DEFINE w == [busy |-> b, error |-> e, message |-> m]
<1>3. w \in A!Shown /\ (w.busy <=> b) /\ ~w.error /\ (w.message <=> m) /\ A!Say(r, w)
  BY <1>2, SaidOf
<1> HIDE DEF w
<1>4. Mine(r, mount) <=> A!Mounted(r)
  BY <1>1 DEF Mine, A!Mounted
<1>5. ASSUME A!Mounted(r) PROVE did[r.form] /\ Told(r.form, w, did[r.form], lost = 0)
  <2>1. Truthful(r, form[r.form], did[r.form], lost = 0)
    BY <1>a, <1>4, <1>5 DEF Faithful
  <2>2. did[r.form]
    BY <1>1, <2>1 DEF Truthful
  <2> QED BY <1>3, <2>2 DEF Told
<1>6. /\ second = "none" <=> r.form \notin {"password", "delete", "email"}
      /\ second = "logout" <=> r.form \in {"password", "delete"}
      /\ second = "reload" <=> r.form = "email"
      /\ second \in {"none", "logout", "reload"}
  BY DEF A!Then
<1> HIDE DEF second
<1>7. effect' \in BOOLEAN
  BY <1>a, <1>1 DEF AccountData
<1>8. CASE second = "none"
  <2>1. flight' = flight \ {r} /\ ~w.busy /\ r.form \notin {"password", "delete"}
    BY <1>1, <1>2, <1>3, <1>6, <1>8
  <2>2. check' \in {"checking", "form", "dead"} /\ user' \in A!User /\ user' = user
    BY <1>a, <1>1 DEF AccountData
  <2> QED BY <1>1, <1>3, <1>4, <1>5, <1>7, <2>1, <2>2, Landed
<1>9. CASE second # "none"
  <2> DEFINE n == A!New(r.form, second, r.mount, r.run)
  <2>1. /\ n \in A!Request /\ n.form = r.form /\ n.kind = second /\ n.mount = r.mount /\ n.phase = "asked"
    <3>1. second \in {"submit", "logout", "reload", "validate"}
      BY <1>6, <1>9
    <3> QED BY <1>b, <3>1, AccountAsked
  <2>2. flight' = (flight \ {r}) \cup {n}
    BY <1>1, <1>9
  <2> HIDE DEF n
  <2>3. r.form \in {"password", "delete", "email"} /\ second \in {"logout", "reload"} /\ w.busy
    BY <1>2, <1>3, <1>6, <1>9
  <2>4. (Mine(n, mount) <=> A!Mounted(r)) /\ \A x : Mine(x, mount)' <=> Mine(x, mount)
    BY <1>1, <2>1, <2>3, MineStays DEF Mine, A!Mounted
  <2>5. /\ form' \in [A!Form -> A!Shown]
        /\ A!Mounted(r) => form'[r.form] = w
        /\ \A f \in A!Form : ~A!Mounted(r) \/ f # r.form => form'[f] = form[f]
    BY <1>a, <1>b, <1>3, Saying
  <2>6. AccountData' /\ AccountCounts' /\ DidHere'
    <3>1. AccountData'
      BY <1>a, <1>1, <1>7, <2>5 DEF AccountData
    <3>2. AccountCounts' /\ DidHere'
      BY <1>a, <1>1 DEF AccountCounts, DidHere
    <3> QED BY <3>1, <3>2
  <2>7. AccountKinds'
    <3>1. page' = page /\ mount' = mount
      BY <1>1
    <3>2. \A x \in flight' : x \in flight \/ x = n
      BY <2>2
    <3>3. /\ n.kind = "logout" => n.form \in {"password", "delete"}
          /\ n.kind = "reload" => n.form \in {"email", "verify"}
          /\ n.kind # "validate"
      BY <1>6, <2>1, <2>3
    <3> QED BY <1>a, <1>b, <2>1, <3>1, <3>2, <3>3 DEF AccountKinds
  <2>8. OneAsked'
    <3>1. ASSUME NEW x \in flight, x # r, Mine(x, mount), A!Mounted(r) PROVE x.form # r.form
      BY <1>a, <1>4, <3>1 DEF OneAsked
    <3> QED BY <1>a, <2>1, <2>2, <2>4, <3>1 DEF OneAsked
  <2>9. BusyIsAsked'
    <3>1. page' = page
      BY <1>1
    <3> SUFFICES ASSUME NEW f \in A!FormsOf(page)
                 PROVE  form'[f].busy <=> \E x \in flight' : x.form = f /\ Mine(x, mount)
      BY <2>4, <3>1 DEF BusyIsAsked
    <3>2. CASE A!Mounted(r) /\ r.form = f
      BY <2>1, <2>2, <2>3, <2>4, <2>5, <3>2
    <3>3. CASE ~(A!Mounted(r) /\ r.form = f)
      <4>1. form'[f] = form[f]
        BY <1>b, <2>5, <3>3
      <4>2. ~(r.form = f /\ Mine(r, mount)) /\ ~(n.form = f /\ Mine(n, mount))
        BY <1>4, <2>1, <2>4, <3>3
      <4>3. (\E x \in flight' : x.form = f /\ Mine(x, mount)) <=> (\E x \in flight : x.form = f /\ Mine(x, mount))
        BY <2>2, <4>2
      <4>4. form[f].busy <=> (\E x \in flight : x.form = f /\ Mine(x, mount))
        BY <1>a DEF BusyIsAsked
      <4> QED BY <4>1, <4>3, <4>4
    <3> QED BY <3>2, <3>3
  <2>10. Faithful'
    <3>1. /\ \A f \in A!FormsOf(page) : Told(f, form[f], did[f], lost = 0)
          /\ \A x \in flight : Mine(x, mount) => Truthful(x, form[x.form], did[x.form], lost = 0)
      BY <1>a DEF Faithful
    <3>2. \A f \in A!FormsOf(page) : Told(f, form'[f], did[f], lost = 0)
      <4> TAKE f \in A!FormsOf(page)
      <4>1. CASE A!Mounted(r) /\ r.form = f
        BY <1>5, <2>5, <4>1
      <4>2. CASE ~(A!Mounted(r) /\ r.form = f)
        <5>1. form'[f] = form[f]
          BY <1>b, <2>5, <4>2
        <5> QED BY <3>1, <5>1
      <4> QED BY <4>1, <4>2
    <3>3. second = "reload" => w.message
      BY <1>2, <1>3, <1>6
    <3>4. ASSUME A!Mounted(r) PROVE Truthful(n, form'[n.form], did[n.form], lost = 0)
      <4>1. form'[n.form] = w /\ did[n.form]
        BY <1>5, <2>1, <2>5, <3>4
      <4> QED BY <1>6, <1>9, <2>1, <2>3, <3>3, <4>1 DEF Truthful
    <3>5. ASSUME NEW x \in flight, x # r, Mine(x, mount) PROVE Truthful(x, form'[x.form], did[x.form], lost = 0)
      <4>1. x.form \in A!Form
        BY <1>a DEF AccountKinds, A!Request
      <4>2. form'[x.form] = form[x.form]
        BY <1>a, <1>4, <2>5, <3>5, <4>1 DEF OneAsked
      <4> QED BY <3>1, <3>5, <4>2
    <3>6. page' = page /\ did' = did /\ lost' = lost
      BY <1>1
    <3>7. \A x \in flight' : Mine(x, mount) => Truthful(x, form'[x.form], did[x.form], lost = 0)
      BY <2>2, <2>4, <3>4, <3>5
    <3> QED BY <2>4, <3>2, <3>6, <3>7 DEF Faithful
  <2>11. NobodyLeft'
    <3>1. \A f \in {"password", "delete"} :
            \/ form'[f].busy
            \/ (form'[f].busy <=> form[f].busy) /\ (form'[f].error <=> form[f].error)
      <4> TAKE f \in {"password", "delete"}
      <4>1. f \in A!Form
        BY DEF A!Form
      <4>2. CASE A!Mounted(r) /\ r.form = f
        BY <2>3, <2>5, <4>2
      <4>3. CASE ~(A!Mounted(r) /\ r.form = f)
        BY <2>5, <4>1, <4>3
      <4> QED BY <4>2, <4>3
    <3>2. \A x \in flight' : x.kind = "reload" \/ x.form = "email" =>
            \E y \in flight : y.kind = "reload" \/ y.form = "email"
      <4>1. n.kind = "reload" \/ n.form = "email" => r.form = "email"
        BY <1>6, <2>1
      <4> QED BY <2>2, <4>1
    <3>3. did' = did /\ late' = late /\ user' = user /\ lost' = lost
      BY <1>1
    <3> QED BY <1>a, <3>1, <3>2, <3>3, NobodyStays
  <2> QED BY <2>6, <2>7, <2>8, <2>9, <2>10, <2>11 DEF AccountInv
<1> QED BY <1>8, <1>9

\* Every step of the account pages keeps their invariant.
LEMMA AccountStep == AccountInv /\ A!Next => AccountInv'
<1> SUFFICES ASSUME AccountInv, A!Next PROVE AccountInv'
  OBVIOUS
<1>1. CASE \E p \in A!Page : A!Open(p)
  BY <1>1, AccountOpens
<1>2. CASE \E f \in A!Form : A!Submit(f)
  BY <1>2, AccountSubmits
<1>3. CASE \E r \in flight : A!Answer(r) \/ A!Lose(r)
  BY <1>3, AccountServes, AccountLands, SignedOut, AccountDone, AccountLoses DEF A!Answer
<1>4. CASE A!Refetch \/ A!Restored
  BY <1>4, AccountEffectRuns
<1> QED BY <1>1, <1>2, <1>3, <1>4 DEF A!Next

\* What a screen that rests keeps.
LEMMA AccountRests ==
  AccountInv /\ UNCHANGED <<accountOwn, mount, flight, lost>> => AccountInv'
<1> SUFFICES ASSUME AccountInv, UNCHANGED <<accountOwn, mount, flight, lost>> PROVE AccountInv'
  OBVIOUS
<1>1. /\ page' = page /\ form' = form /\ check' = check /\ user' = user /\ resetLink' = resetLink
      /\ verifyLink' = verifyLink /\ verified' = verified /\ dead' = dead /\ did' = did /\ late' = late
      /\ effect' = effect /\ mount' = mount /\ flight' = flight /\ lost' = lost
  BY DEF accountOwn
<1>2. AccountData' /\ AccountCounts' /\ AccountKinds' /\ OneAsked' /\ BusyIsAsked' /\ DidHere'
  <2>1. AccountData'
    BY <1>1 DEF AccountInv, AccountData
  <2>2. AccountCounts' /\ DidHere'
    BY <1>1 DEF AccountInv, AccountCounts, DidHere
  <2>3. AccountKinds'
    BY <1>1 DEF AccountInv, AccountKinds
  <2>4. OneAsked'
    BY <1>1, MineStays DEF AccountInv, OneAsked
  <2>5. BusyIsAsked'
    BY <1>1, MineStays DEF AccountInv, BusyIsAsked
  <2> QED BY <2>1, <2>2, <2>3, <2>4, <2>5
<1>3. Faithful'
  BY <1>1, MineStays DEF AccountInv, Faithful
<1>4. NobodyLeft'
  BY <1>1 DEF AccountInv, NobodyLeft
<1> QED BY <1>2, <1>3, <1>4 DEF AccountInv

\* The training pages are left alone by the other screens.
LEMMA TrainingRests ==
  TrainingInv /\ UNCHANGED <<trainingOwn, shared>> => TrainingInv'
<1> SUFFICES ASSUME TrainingInv, UNCHANGED <<trainingOwn, shared>> PROVE TrainingInv'
  OBVIOUS
<1>1. /\ route' = route /\ rows' = rows /\ clearing' = clearing /\ formOf' = formOf /\ values' = values
      /\ raced' = raced /\ flight' = flight /\ lost' = lost /\ mount' = mount /\ srv' = srv
      /\ loading' = loading /\ error' = error /\ busy' = busy
  BY DEF trainingOwn, shared, jobs
<1>2. TrainingCounts' /\ TrainingFlags' /\ TrainingData'
  <2>1. TrainingCounts'
    BY <1>1 DEF TrainingInv, TrainingCounts
  <2>2. TrainingFlags' /\ TrainingData'
    BY <1>1 DEF TrainingInv, TrainingFlags, TrainingData
  <2> QED BY <2>1, <2>2
<1>3. TrainingRequests'
  BY <1>1 DEF TrainingInv, TrainingRequests
<1>4. RowsAreBehind' /\ PageIsCurrent'
  BY <1>1 DEF TrainingInv, RowsAreBehind, PageIsCurrent
<1>5. T!DefaultsFollowDataset'
  BY <1>1 DEF TrainingInv, T!DefaultsFollowDataset
<1> QED BY <1>2, <1>3, <1>4, <1>5 DEF TrainingInv

\* The finder is left alone by the other screens.
LEMMA BridgeRests ==
  BridgeInv /\ UNCHANGED <<bridgeOwn, flight, lost, jobs>> => BridgeInv'
<1> SUFFICES ASSUME BridgeInv, UNCHANGED <<bridgeOwn, flight, lost, jobs>> PROVE BridgeInv'
  OBVIOUS
<1>1. /\ UNCHANGED B!server
      /\ runs' = runs /\ recents' = recents /\ checked' = checked /\ justFound' = justFound /\ watched' = watched
      /\ quick' = quick /\ stale' = stale /\ lost' = lost /\ pending' = pending
      /\ loading' = loading /\ error' = error /\ busy' = busy /\ flight' = flight
  BY DEF bridgeOwn, jobs, B!server
<1>2. pending' \subseteq {"shelf", "found"} /\ loading' \in BOOLEAN /\ error' \in BOOLEAN /\ busy' \in BOOLEAN
  BY <1>1 DEF BridgeInv, BridgeData, BridgeFlags
<1> QED BY <1>1, <1>2, BridgeAlone

\* The verdict page is left alone by the other screens.
LEMMA VerdictRests ==
  VerdictInv /\ UNCHANGED <<verdictOwn, loading, error, flight>> => VerdictInv'
<1> SUFFICES ASSUME VerdictInv, UNCHANGED <<verdictOwn, loading, error, flight>> PROVE VerdictInv'
  OBVIOUS
<1>1. /\ link' = link /\ stored' = stored /\ record' = record /\ loading' = loading /\ error' = error
      /\ flight' = flight
  BY DEF verdictOwn
<1>2. VerdictRequests'
  BY <1>1 DEF VerdictInv, VerdictRequests
<1>3. V!TypeOK'
  BY <1>1 DEF VerdictInv, V!TypeOK
<1>4. V!VerdictFollowsLink'
  BY <1>1 DEF VerdictInv, V!VerdictFollowsLink
<1> QED BY <1>2, <1>3, <1>4 DEF VerdictInv

\* The demo is left alone by the other screens.
LEMMA DemoRests ==
  DemoInv /\ UNCHANGED demoOwn => DemoInv'
<1> SUFFICES ASSUME DemoInv, UNCHANGED demoOwn PROVE DemoInv'
  OBVIOUS
<1>1. dataset' = dataset /\ lines' = lines /\ next' = next /\ timers' = timers
  BY DEF demoOwn
<1> QED BY <1>1 DEF DemoInv, N!LogNeverFreezes

-----------------------------------------------------------------------------
(* The slicer: its scan of a line ends as the reference's reading of the line *)
(* does, so its search stops where the block closes.                       *)

\* What holds of a number whenever it holds of the greater ones up to n.
LEMMA NumbersFromAbove ==
  ASSUME NEW n \in Nat, NEW G, \A i \in 1..n : (\A j \in 1..n : j > i => j \in G) => i \in G
  PROVE  1..n \subseteq G
<1> DEFINE Bad == {n - i : i \in {k \in 1..n : k \notin G}}
<1>1. ASSUME Bad # {} PROVE FALSE
  <2>1. PICK l \in Bad : \A k \in Bad : l <= k
    <3>1. Bad \in SUBSET Nat
      OBVIOUS
    <3> HIDE DEF Bad
    <3> QED BY <1>1, <3>1, LeastNat
  <2>2. PICK i \in 1..n : i \notin G /\ l = n - i
    BY <2>1
  <2>3. ASSUME NEW j \in 1..n, j > i, j \notin G PROVE FALSE
    <3>1. n - j \in Bad
      BY <2>3
    <3>2. n - i <= n - j
      BY <2>1, <2>2, <3>1
    <3> QED BY <2>3, <3>2
  <2> QED BY <2>2, <2>3
<1> QED BY <1>1

\* A function on the first n numbers that calls itself on greater ones: step says what
\* each value is, and looks at the values of greater numbers only.
Calls(n, Val, step) ==
    /\ \A i \in 1..n : \A f \in [1..n -> Val] : step[i][f] \in Val
    /\ \A i \in 1..n : \A f, g \in [1..n -> Val] :
          (\A j \in 1..n : j > i => f[j] = g[j]) => step[i][f] = step[i][g]
Solution(f, n, step) == \A i \in 1..n : f[i] = step[i][f]

\* Such a function exists.
LEMMA BackwardsExists ==
  ASSUME NEW n \in Nat, NEW Val, Val # {}, NEW step, Calls(n, Val, step)
  PROVE  \E f \in [1..n -> Val] : Solution(f, n, step)
<1> USE DEF Calls, Solution
<1> PICK any \in Val : TRUE
  OBVIOUS
<1> DEFINE Solves(f, m) == \A i \in 1..n : i > n - m => f[i] = step[i][f]
           G == {m \in 0..n : \E f \in [1..n -> Val] : Solves(f, m)}
<1>1. 0 \in G
  <2> DEFINE f == [i \in 1..n |-> any]
  <2>1. f \in [1..n -> Val] /\ Solves(f, 0)
    OBVIOUS
  <2> HIDE DEF f, Solves
  <2> QED BY <2>1
<1>2. ASSUME NEW m \in 1..n, m - 1 \in G PROVE m \in G
  <2>1. PICK f \in [1..n -> Val] : Solves(f, m - 1)
    BY <1>2
  <2> DEFINE i == n - m + 1
             g == [f EXCEPT ![i] = step[i][f]]
  <2>2. i \in 1..n
    OBVIOUS
  <2>3. g \in [1..n -> Val]
    BY <2>2
  <2>4. ASSUME NEW k \in 1..n, k > n - m PROVE g[k] = step[k][g]
    <3>1. k >= i
      BY <2>4
    <3>2. \A j \in 1..n : j > k => f[j] = g[j]
      BY <2>2, <3>1
    <3>3. step[k][f] = step[k][g]
      <4> HIDE DEF g
      <4> QED BY <2>3, <3>2
    <3>4. CASE k = i
      <4>1. g[k] = step[k][f]
        BY <2>2, <3>4
      <4> QED BY <3>3, <4>1
    <3>5. CASE k # i
      <4>1. k > n - (m - 1)
        BY <2>2, <3>1, <3>5
      <4>2. f[k] = step[k][f]
        BY <2>1, <4>1
      <4>3. g[k] = f[k]
        BY <2>2, <3>5
      <4> QED BY <3>3, <4>2, <4>3
    <3> QED BY <3>4, <3>5
  <2>5. Solves(g, m)
    BY <2>4
  <2> HIDE DEF g, Solves
  <2>6. m \in 0..n
    OBVIOUS
  <2> QED BY <2>3, <2>5, <2>6
<1> HIDE DEF G
<1>3. n \in G
  <2>1. 0..n \subseteq G
    BY <1>1, <1>2, NumbersUpTo
  <2> QED BY <2>1
<1>4. PICK f \in [1..n -> Val] : Solves(f, n)
  BY <1>3 DEF G
<1>5. \A i \in 1..n : i > n - n
  OBVIOUS
<1> QED BY <1>4, <1>5

\* What an author types: the characters that the slicer tells apart.
Chars == {"A", "q", "b", "/", "*", "{", "}", ";"}

\* A character of a text, or its end.
LEMMA CharAt ==
  ASSUME NEW text \in Seq(Chars), NEW i \in Nat \ {0}
  PROVE  /\ Len(text) \in Nat
         /\ X!At(text, i) = "eol" <=> i > Len(text)
         /\ i <= Len(text) => X!At(text, i) = text[i] /\ text[i] \in Chars
<1>1. Len(text) \in Nat /\ (i <= Len(text) => text[i] \in Chars)
  BY LenProperties, ElementOfSeq
<1>2. CASE i <= Len(text)
  <2>1. X!At(text, i) = text[i] /\ text[i] \in Chars
    BY <1>1, <1>2 DEF X!At
  <2>2. text[i] # "eol"
    BY <2>1 DEF Chars
  <2> QED BY <1>1, <1>2, <2>1, <2>2
<1>3. CASE ~(i <= Len(text))
  <2>1. X!At(text, i) = "eol"
    BY <1>3 DEF X!At
  <2> QED BY <1>1, <1>3, <2>1
<1> QED BY <1>2, <1>3

\* The end of a literal, as the slicer's function finds it.
LEMMA LiteralEnds ==
  ASSUME NEW text \in Seq(Chars)
  PROVE  /\ X!AfterLiteral(text) \in [1..(Len(text) + 2) -> 1..(Len(text) + 2)]
         /\ \A i \in 1..(Len(text) + 2) :
            /\ X!AfterLiteral(text)[i] \in i..(Len(text) + 2)
            /\ X!AfterLiteral(text)[i] =
                IF X!At(text, i) = "eol" THEN i
                ELSE IF X!At(text, i) = "b" THEN X!AfterLiteral(text)[i + 2]
                ELSE IF X!At(text, i) = "q" THEN i + 1
                ELSE X!AfterLiteral(text)[i + 1]
<1> DEFINE n == Len(text) + 2
           W(f, i) == IF X!At(text, i) = "eol" THEN i
                      ELSE IF X!At(text, i) = "b" THEN f[i + 2]
                      ELSE IF X!At(text, i) = "q" THEN i + 1
                      ELSE f[i + 1]
           step == [i \in 1..n |-> [f \in [1..n -> 1..n] |-> W(f, i)]]
           a == X!AfterLiteral(text)
<1>1. n \in Nat /\ 1 \in 1..n /\ X!Places(text) = 1..n
  BY LenProperties DEF X!Places
<1>2. \A i \in 1..n : X!At(text, i) # "eol" => i + 1 \in 1..n /\ i + 2 \in 1..n
  BY CharAt
<1>3. \A i \in 1..n : \A f \in [1..n -> 1..n] : step[i][f] = W(f, i) /\ step[i][f] \in 1..n
  <2> HIDE DEF n
  <2> QED BY <1>2
<1>4. ASSUME NEW i \in 1..n, NEW f \in [1..n -> 1..n], NEW g \in [1..n -> 1..n],
             \A j \in 1..n : j > i => f[j] = g[j]
      PROVE  step[i][f] = step[i][g]
  <2>1. X!At(text, i) # "eol" => f[i + 1] = g[i + 1] /\ f[i + 2] = g[i + 2]
    BY <1>2, <1>4
  <2>2. W(f, i) = W(g, i)
    BY <2>1
  <2> QED BY <1>3, <2>2
<1>5. PICK f \in [1..n -> 1..n] : Solution(f, n, step)
  <2> HIDE DEF n, step, W
  <2>1. Calls(n, 1..n, step)
    BY <1>3, <1>4 DEF Calls
  <2>2. n \in Nat /\ 1..n # {}
    BY <1>1
  <2> QED BY ONLY <2>1, <2>2, BackwardsExists
<1>6. f = [i \in 1..n |-> W(f, i)]
  <2> HIDE DEF n, W, step
  <2> QED BY <1>3, <1>5 DEF Solution
<1>7. a = CHOOSE g : g = [i \in 1..n |-> CASE X!At(text, i) = "eol" -> i
                                           [] X!At(text, i) = "b" -> g[i + 2]
                                           [] X!At(text, i) = "q" -> i + 1
                                           [] OTHER -> g[i + 1]]
  BY <1>1 DEF X!AfterLiteral
<1>8. \A g, i : (CASE X!At(text, i) = "eol" -> i
                   [] X!At(text, i) = "b" -> g[i + 2]
                   [] X!At(text, i) = "q" -> i + 1
                   [] OTHER -> g[i + 1]) = W(g, i)
  OBVIOUS
<1>9. a = CHOOSE g : g = [i \in 1..n |-> W(g, i)]
  <2> HIDE DEF W, n, a
  <2> QED BY <1>7, <1>8
<1>10. a = [i \in 1..n |-> W(a, i)]
  <2> HIDE DEF W, n, a
  <2> QED BY <1>6, <1>9
<1> HIDE DEF a
<1>11. 1..n \subseteq {i \in 1..n : a[i] \in i..n}
  <2> DEFINE G == {i \in 1..n : a[i] \in i..n}
  <2>1. ASSUME NEW i \in 1..n, \A j \in 1..n : j > i => j \in G PROVE i \in G
    <3>1. a[i] = W(a, i)
      <4> HIDE DEF W
      <4> QED BY <1>10
    <3>2. CASE X!At(text, i) = "eol"
      BY <3>1, <3>2, <1>1
    <3>3. CASE X!At(text, i) # "eol"
      <4>1. i + 1 \in 1..n /\ i + 2 \in 1..n
        BY <1>2, <3>3
      <4>2. a[i + 1] \in (i + 1)..n /\ a[i + 2] \in (i + 2)..n
        <5> HIDE DEF n
        <5>1. i + 1 \in G /\ i + 2 \in G
          BY <2>1, <4>1
        <5> QED BY <5>1
      <4>3. a[i] \in {i + 1, a[i + 1], a[i + 2]}
        BY <3>1, <3>3
      <4>4. a[i] \in i..n
        <5> HIDE DEF n, a, G
        <5>1. n \in Nat /\ i \in Nat /\ i + 1 <= n
          BY <1>1, <4>1
        <5>2. (i + 1)..n \subseteq i..n /\ (i + 2)..n \subseteq i..n /\ i + 1 \in i..n
          BY <5>1
        <5> QED BY ONLY <4>2, <4>3, <5>2
      <4> QED BY <4>4
    <3> QED BY <3>2, <3>3
  <2> HIDE DEF n
  <2>2. 1..n \subseteq G
    <3> HIDE DEF G
    <3> QED BY <1>1, <2>1, NumbersFromAbove
  <2> QED BY <2>2
<1>12. a \in [1..n -> 1..n] /\ \A i \in 1..n : a[i] \in i..n
  <2> HIDE DEF n, W
  <2>1. \A i \in 1..n : i..n \subseteq 1..n
    BY <1>1
  <2> QED BY <1>10, <1>11, <2>1
<1>13. \A i \in 1..n : a[i] = W(a, i)
  <2> HIDE DEF W, n
  <2> QED BY <1>10
<1> QED BY <1>1, <1>12, <1>13 DEF a

\* The states of a scan, and the counts and comments in them.
LEMMA ScanStates ==
  ASSUME NEW s \in X!State
  PROVE  /\ s.depth \in Int /\ s.inBlockComment \in BOOLEAN
         /\ X!Commenting(s, TRUE) \in X!State /\ X!Commenting(s, FALSE) \in X!State
         /\ X!Commenting(s, TRUE).depth = s.depth /\ X!Commenting(s, FALSE).depth = s.depth
         /\ X!Commenting(s, TRUE).inBlockComment /\ ~X!Commenting(s, FALSE).inBlockComment
         /\ [s EXCEPT !.depth = @ + 1] \in X!State /\ [s EXCEPT !.depth = @ - 1] \in X!State
         /\ [s EXCEPT !.depth = @ + 1].depth = s.depth + 1
         /\ [s EXCEPT !.depth = @ - 1].depth = s.depth - 1
         /\ [s EXCEPT !.depth = @ + 1].inBlockComment = s.inBlockComment
         /\ [s EXCEPT !.depth = @ - 1].inBlockComment = s.inBlockComment
<1> DEFINE yes == TRUE
           no == FALSE
           d == s.depth
           up == d + 1
           down == d - 1
<1>1. d \in Int /\ up \in Int /\ down \in Int /\ s.inBlockComment \in BOOLEAN /\ yes \in BOOLEAN /\ no \in BOOLEAN
  BY DEF X!State
<1> HIDE DEF yes, no, up, down
<1>2. /\ [s EXCEPT !.inBlockComment = yes] \in X!State /\ [s EXCEPT !.inBlockComment = no] \in X!State
      /\ [s EXCEPT !.depth = up] \in X!State /\ [s EXCEPT !.depth = down] \in X!State
  BY <1>1 DEF X!State
<1>3. /\ [s EXCEPT !.inBlockComment = yes].depth = d /\ [s EXCEPT !.inBlockComment = no].depth = d
      /\ [s EXCEPT !.inBlockComment = yes].inBlockComment = yes
      /\ [s EXCEPT !.inBlockComment = no].inBlockComment = no
      /\ [s EXCEPT !.depth = up].depth = up /\ [s EXCEPT !.depth = down].depth = down
      /\ [s EXCEPT !.depth = up].inBlockComment = s.inBlockComment
      /\ [s EXCEPT !.depth = down].inBlockComment = s.inBlockComment
  BY DEF X!State
<1> QED BY <1>1, <1>2, <1>3 DEF yes, no, up, down, X!Commenting

\* One step of a scan that stands at i in state s, and goes on as f says.
Pair(text, i, a, b) == X!At(text, i) = a /\ X!At(text, i + 1) = b
Scanned(text, f, i, s) ==
    IF X!At(text, i) = "eol" THEN s
    ELSE IF s.inBlockComment THEN
      IF Pair(text, i, "*", "/") THEN f[i + 2][X!Commenting(s, FALSE)] ELSE f[i + 1][s]
    ELSE IF Pair(text, i, "/", "/") THEN s
    ELSE IF Pair(text, i, "/", "*") THEN f[i + 2][X!Commenting(s, TRUE)]
    ELSE CASE X!At(text, i) = "q" -> f[X!AfterLiteral(text)[i + 1]][s]
           [] X!At(text, i) = "{" -> f[i + 1][[s EXCEPT !.depth = @ + 1]]
           [] X!At(text, i) = "}" -> f[i + 1][[s EXCEPT !.depth = @ - 1]]
           [] OTHER -> f[i + 1][s]

\* The scan takes such steps.
LEMMA Scans ==
  ASSUME NEW text \in Seq(Chars), NEW i \in 1..(Len(text) + 2), NEW s \in X!State
  PROVE  X!ScanFrom(text)[i][s] = Scanned(text, X!ScanFrom(text), i, s)
<1> DEFINE n == Len(text) + 2
           scan == X!ScanFrom(text)
<1>1. X!Places(text) = 1..n
  BY DEF X!Places
<1>2. scan = CHOOSE g : g = [j \in 1..n |-> [q \in X!State |-> Scanned(text, g, j, q)]]
  BY <1>1 DEF X!ScanFrom, Scanned, Pair
<1>3. /\ n \in Nat /\ X!State # {}
      /\ \A j \in 1..n : X!At(text, j) # "eol" =>
           /\ j + 1 \in 1..n /\ j + 2 \in 1..n /\ X!AfterLiteral(text)[j + 1] \in 1..n
           /\ X!AfterLiteral(text)[j + 1] > j
  <2>1. n \in Nat /\ \A j \in 1..n : X!At(text, j) # "eol" => j + 1 \in 1..n /\ j + 2 \in 1..n
    BY CharAt
  <2>2. \A j \in 1..n : X!AfterLiteral(text)[j] \in j..n
    BY LiteralEnds
  <2>3. \A j \in 1..n : X!At(text, j) # "eol" =>
          X!AfterLiteral(text)[j + 1] \in 1..n /\ X!AfterLiteral(text)[j + 1] > j
    <3> HIDE DEF n
    <3> TAKE j \in 1..n
    <3>1. CASE X!At(text, j) # "eol"
      <4>1. j + 1 \in 1..n /\ X!AfterLiteral(text)[j + 1] \in (j + 1)..n
        BY <2>1, <2>2, <3>1
      <4> HIDE DEF n
      <4> QED BY <2>1, <4>1
    <3> QED BY <3>1
  <2>4. [depth |-> 0, inBlockComment |-> TRUE] \in X!State
    BY DEF X!State
  <2> HIDE DEF n
  <2> QED BY <2>1, <2>3, <2>4
<1> DEFINE Val == [X!State -> X!State]
           step == [j \in 1..n |-> [f \in [1..n -> Val] |-> [q \in X!State |-> Scanned(text, f, j, q)]]]
<1>4. ASSUME NEW j \in 1..n, NEW q \in X!State, NEW f \in [1..n -> Val]
      PROVE  Scanned(text, f, j, q) \in X!State
  <2>1. \A k \in 1..n, r \in X!State : f[k][r] \in X!State
    OBVIOUS
  <2> HIDE DEF n
  <2>2. /\ X!Commenting(q, TRUE) \in X!State /\ X!Commenting(q, FALSE) \in X!State
        /\ [q EXCEPT !.depth = @ + 1] \in X!State /\ [q EXCEPT !.depth = @ - 1] \in X!State
    BY ScanStates
  <2> QED BY <1>3, <2>1, <2>2 DEF Scanned
<1>5. ASSUME NEW j \in 1..n, NEW q \in X!State, NEW f \in [1..n -> Val], NEW g \in [1..n -> Val],
             \A k \in 1..n : k > j => f[k] = g[k]
      PROVE  Scanned(text, f, j, q) = Scanned(text, g, j, q)
  <2>1. CASE X!At(text, j) = "eol"
    BY <2>1 DEF Scanned
  <2>2. CASE X!At(text, j) # "eol"
    <3> DEFINE l == X!AfterLiteral(text)[j + 1]
    <3>1. j + 1 \in 1..n /\ j + 2 \in 1..n /\ l \in 1..n /\ j + 1 > j /\ j + 2 > j /\ l > j
      BY <1>3, <2>2
    <3> HIDE DEF l
    <3>2. f[j + 1] = g[j + 1] /\ f[j + 2] = g[j + 2] /\ f[l] = g[l]
      BY <1>5, <3>1
    <3> QED BY <3>2 DEF Scanned, l
  <2> QED BY <2>1, <2>2
<1>6. PICK f \in [1..n -> Val] : Solution(f, n, step)
  <2>1. \A j \in 1..n : \A g \in [1..n -> Val] :
           step[j][g] \in Val /\ step[j][g] = [q \in X!State |-> Scanned(text, g, j, q)]
    <3> HIDE DEF n
    <3> QED BY <1>4
  <2>2. ASSUME NEW j \in 1..n, NEW g \in [1..n -> Val], NEW h \in [1..n -> Val],
               \A k \in 1..n : k > j => g[k] = h[k]
        PROVE  step[j][g] = step[j][h]
    <3>1. \A q \in X!State : Scanned(text, g, j, q) = Scanned(text, h, j, q)
      <4> HIDE DEF n, Val
      <4> QED BY <1>5, <2>2
    <3>2. [q \in X!State |-> Scanned(text, g, j, q)] = [q \in X!State |-> Scanned(text, h, j, q)]
      BY <3>1, Zenon
    <3> HIDE DEF n, step, Val
    <3>3. step[j][g] = [q \in X!State |-> Scanned(text, g, j, q)]
      BY <2>1
    <3>4. step[j][h] = [q \in X!State |-> Scanned(text, h, j, q)]
      BY <2>1
    <3> QED BY ONLY <3>2, <3>3, <3>4, Zenon
  <2> HIDE DEF n, Val, step
  <2>3. Calls(n, Val, step)
    BY <2>1, <2>2 DEF Calls
  <2>4. Val # {}
    <3>1. [q \in X!State |-> q] \in Val
      BY DEF Val
    <3> QED BY <3>1
  <2> QED BY ONLY <1>3, <2>3, <2>4, BackwardsExists
<1>7. f = [j \in 1..n |-> [q \in X!State |-> Scanned(text, f, j, q)]]
  <2>1. \A j \in 1..n : step[j][f] = [q \in X!State |-> Scanned(text, f, j, q)]
    <3> HIDE DEF n
    <3> QED OBVIOUS
  <2> HIDE DEF n, step
  <2> QED BY <1>6, <2>1 DEF Solution
<1>8. scan = [j \in 1..n |-> [q \in X!State |-> Scanned(text, scan, j, q)]]
  <2> HIDE DEF scan, n
  <2> QED BY <1>2, <1>7
<1> HIDE DEF scan
<1>9. i \in 1..n
  OBVIOUS
<1>10. scan[i][s] = Scanned(text, scan, i, s)
  <2> DEFINE Says(j, q) == Scanned(text, scan, j, q)
  <2>1. scan = [j \in 1..n |-> [q \in X!State |-> Says(j, q)]]
    BY <1>8
  <2> HIDE DEF n, Says
  <2>2. scan[i][s] = Says(i, s)
    BY <1>9, <2>1
  <2> QED BY <2>2 DEF Says
<1> QED BY <1>10 DEF scan

\* A scan ends in a state.
LEMMA ScanTyped ==
  ASSUME NEW text \in Seq(Chars), NEW i \in 1..(Len(text) + 2), NEW s \in X!State
  PROVE  X!ScanFrom(text)[i][s] \in X!State
<1> DEFINE n == Len(text) + 2
           scan == X!ScanFrom(text)
           G == {j \in 1..n : \A q \in X!State : scan[j][q] \in X!State}
<1>1. n \in Nat
  BY LenProperties
<1>2. ASSUME NEW j \in 1..n, \A k \in 1..n : k > j => k \in G PROVE j \in G
  <2> SUFFICES ASSUME NEW q \in X!State PROVE scan[j][q] \in X!State
    OBVIOUS
  <2>1. scan[j][q] = Scanned(text, scan, j, q)
    BY Scans
  <2> HIDE DEF scan
  <2>2. CASE X!At(text, j) = "eol"
    BY <2>1, <2>2 DEF Scanned
  <2>3. CASE X!At(text, j) # "eol"
    <3> DEFINE l == X!AfterLiteral(text)[j + 1]
    <3>1. j + 1 \in 1..n /\ j + 2 \in 1..n
      BY <2>3, CharAt
    <3>2. l \in 1..n /\ l > j
      <4>1. l \in (j + 1)..n
        BY <3>1, LiteralEnds
      <4> HIDE DEF l, n
      <4> QED BY <1>1, <4>1
    <3> HIDE DEF l, n
    <3>3. \A r \in X!State : scan[j + 1][r] \in X!State /\ scan[j + 2][r] \in X!State /\ scan[l][r] \in X!State
      <4>1. j + 1 \in G /\ j + 2 \in G /\ l \in G
        BY <1>2, <3>1, <3>2
      <4> QED BY <4>1
    <3>4. /\ X!Commenting(q, TRUE) \in X!State /\ X!Commenting(q, FALSE) \in X!State
          /\ [q EXCEPT !.depth = @ + 1] \in X!State /\ [q EXCEPT !.depth = @ - 1] \in X!State
      BY ScanStates
    <3> QED BY <2>1, <2>3, <3>3, <3>4 DEF Scanned, l
  <2> QED BY <2>2, <2>3
<1>3. 1..n \subseteq G
  <2> HIDE DEF G, n
  <2> QED BY <1>1, <1>2, NumbersFromAbove
<1> QED BY <1>3

\* One line of the slicer's search: it closes the block, or the search goes on as f says.
Searched(ls, f, i, s, opened) ==
    IF i > Len(ls) THEN 0
    ELSE LET after == X!ScanLine(ls[i], s)
             open == opened \/ after.depth > 0
         IN  IF open /\ after.depth <= 0 THEN i ELSE f[i + 1][after][open]

\* The search takes such steps.
LEMMA Searches ==
  ASSUME NEW ls \in Seq(Seq(Chars)), NEW i \in 1..(Len(ls) + 1), NEW s \in X!State, NEW opened \in BOOLEAN
  PROVE  X!CloseFrom(ls)[i][s][opened] = Searched(ls, X!CloseFrom(ls), i, s, opened)
<1> DEFINE n == Len(ls) + 1
           close == X!CloseFrom(ls)
           Val == [X!State -> [BOOLEAN -> Nat]]
           step == [j \in 1..n |-> [f \in [1..n -> Val] |->
                      [q \in X!State |-> [o \in BOOLEAN |-> Searched(ls, f, j, q, o)]]]]
<1>1. close = CHOOSE g : g = [j \in 1..n |-> [q \in X!State |-> [o \in BOOLEAN |-> Searched(ls, g, j, q, o)]]]
  BY DEF X!CloseFrom, Searched
<1>2. n \in Nat /\ Len(ls) \in Nat
  BY LenProperties
<1>3. ASSUME NEW j \in 1..n, j <= Len(ls), NEW q \in X!State
      PROVE  X!ScanLine(ls[j], q) \in X!State /\ j + 1 \in 1..n /\ j + 1 > j
  <2>1. ls[j] \in Seq(Chars)
    BY <1>2, <1>3, ElementOfSeq
  <2>2. 1 \in 1..(Len(ls[j]) + 2)
    BY <2>1, LenProperties
  <2>3. X!ScanLine(ls[j], q) \in X!State
    BY <2>1, <2>2, ScanTyped DEF X!ScanLine
  <2> QED BY <1>2, <1>3, <2>3
<1>4. ASSUME NEW j \in 1..n, NEW q \in X!State, NEW o \in BOOLEAN, NEW f \in [1..n -> Val]
      PROVE  Searched(ls, f, j, q, o) \in Nat
  <2>1. CASE j > Len(ls)
    BY <2>1 DEF Searched
  <2>2. CASE ~(j > Len(ls))
    <3> DEFINE after == X!ScanLine(ls[j], q)
               open == o \/ after.depth > 0
    <3>1. after \in X!State /\ j + 1 \in 1..n /\ open \in BOOLEAN /\ j \in Nat
      BY <1>2, <1>3, <2>2
    <3> HIDE DEF after, open, n
    <3>2. f[j + 1][after][open] \in Nat
      <4>1. f[j + 1][after] \in [BOOLEAN -> Nat]
        BY <3>1
      <4> QED BY ONLY <3>1, <4>1, Zenon
    <3>3. Searched(ls, f, j, q, o) \in {j, f[j + 1][after][open]}
      BY <2>2 DEF Searched, after, open
    <3> QED BY <3>1, <3>2, <3>3
  <2> QED BY <2>1, <2>2
<1>5. ASSUME NEW j \in 1..n, NEW q \in X!State, NEW o \in BOOLEAN, NEW f \in [1..n -> Val],
             NEW g \in [1..n -> Val], \A k \in 1..n : k > j => f[k] = g[k]
      PROVE  Searched(ls, f, j, q, o) = Searched(ls, g, j, q, o)
  <2>1. CASE j > Len(ls)
    BY <2>1 DEF Searched
  <2>2. CASE ~(j > Len(ls))
    <3>1. j + 1 \in 1..n /\ j + 1 > j
      BY <1>2, <1>3, <2>2
    <3>2. f[j + 1] = g[j + 1]
      BY <1>5, <3>1
    <3> QED BY <2>2, <3>2 DEF Searched
  <2> QED BY <2>1, <2>2
<1>6. PICK f \in [1..n -> Val] : Solution(f, n, step)
  <2>1. \A j \in 1..n : \A g \in [1..n -> Val] :
           /\ step[j][g] \in Val
           /\ step[j][g] = [q \in X!State |-> [o \in BOOLEAN |-> Searched(ls, g, j, q, o)]]
    <3> HIDE DEF n
    <3> QED BY <1>4
  <2>2. ASSUME NEW j \in 1..n, NEW g \in [1..n -> Val], NEW h \in [1..n -> Val],
               \A k \in 1..n : k > j => g[k] = h[k]
        PROVE  step[j][g] = step[j][h]
    <3>1. \A q \in X!State, o \in BOOLEAN : Searched(ls, g, j, q, o) = Searched(ls, h, j, q, o)
      <4> HIDE DEF n, Val
      <4> QED BY <1>5, <2>2
    <3>2. [q \in X!State |-> [o \in BOOLEAN |-> Searched(ls, g, j, q, o)]]
            = [q \in X!State |-> [o \in BOOLEAN |-> Searched(ls, h, j, q, o)]]
      BY <3>1, Zenon
    <3> HIDE DEF n, step, Val
    <3>3. step[j][g] = [q \in X!State |-> [o \in BOOLEAN |-> Searched(ls, g, j, q, o)]]
      BY <2>1
    <3>4. step[j][h] = [q \in X!State |-> [o \in BOOLEAN |-> Searched(ls, h, j, q, o)]]
      BY <2>1
    <3> QED BY ONLY <3>2, <3>3, <3>4, Zenon
  <2> HIDE DEF n, Val, step
  <2>3. Calls(n, Val, step)
    BY <2>1, <2>2 DEF Calls
  <2>4. Val # {}
    <3>1. [q \in X!State |-> [o \in BOOLEAN |-> 0]] \in Val
      BY DEF Val
    <3> QED BY <3>1
  <2> QED BY ONLY <1>2, <2>3, <2>4, BackwardsExists
<1>7. f = [j \in 1..n |-> [q \in X!State |-> [o \in BOOLEAN |-> Searched(ls, f, j, q, o)]]]
  <2>1. \A j \in 1..n : step[j][f] = [q \in X!State |-> [o \in BOOLEAN |-> Searched(ls, f, j, q, o)]]
    <3> HIDE DEF n
    <3> QED OBVIOUS
  <2> HIDE DEF n, step
  <2> QED BY <1>6, <2>1 DEF Solution
<1>8. close = [j \in 1..n |-> [q \in X!State |-> [o \in BOOLEAN |-> Searched(ls, close, j, q, o)]]]
  <2> HIDE DEF close, n
  <2> QED BY <1>1, <1>7
<1> HIDE DEF close
<1>9. close[i][s][opened] = Searched(ls, close, i, s, opened)
  <2> DEFINE Says(j, q, o) == Searched(ls, close, j, q, o)
  <2>1. close = [j \in 1..n |-> [q \in X!State |-> [o \in BOOLEAN |-> Says(j, q, o)]]]
    BY <1>8
  <2>2. i \in 1..n
    OBVIOUS
  <2> HIDE DEF n, Says
  <2>3. close[i][s][opened] = Says(i, s, opened)
    BY <2>1, <2>2
  <2> QED BY <2>3 DEF Says
<1> QED BY <1>9 DEF close

\* What the reference keeps of a text while it reads it.
LexPlace == {"code", "slash", "line", "block", "star", "literal", "escape"}
LexState == {r \in [in : LexPlace, depth : Int, deepest : Nat] : r.depth <= r.deepest}
Delta(c) == IF c = "{" THEN 1 ELSE IF c = "}" THEN -1 ELSE 0
CodeIn(c) == IF c = "q" THEN "literal" ELSE IF c = "/" THEN "slash" ELSE "code"

\* The greater of two numbers.
LEMMA GreaterOf ==
  ASSUME NEW a \in Nat, NEW b \in Int
  PROVE  X!Max({a, b}) \in Nat /\ X!Max({a, b}) >= a /\ X!Max({a, b}) >= b
<1>1. \E x \in {a, b} : \A y \in {a, b} : x >= y
  <2>1. CASE a >= b
    BY <2>1
  <2>2. CASE ~(a >= b)
    BY <2>2
  <2> QED BY <2>1, <2>2
<1>2. X!Max({a, b}) \in {a, b} /\ \A y \in {a, b} : X!Max({a, b}) >= y
  BY <1>1 DEF X!Max
<1> QED BY <1>2

\* One character c of the reference's reading, from s to t.
LexedTo(s, c, t) ==
    /\ t \in LexState /\ t.deepest >= s.deepest
    /\ s.in = "code" \/ (s.in = "slash" /\ c \notin {"/", "*"}) =>
         t.in = CodeIn(c) /\ t.depth = s.depth + Delta(c)
    /\ ~(s.in = "code" \/ (s.in = "slash" /\ c \notin {"/", "*"})) => t.depth = s.depth
    /\ s.in = "slash" /\ c = "/" => t.in = "line"
    /\ s.in = "slash" /\ c = "*" => t.in = "block"
    /\ s.in = "line" => t.in = "line"
    /\ s.in = "block" => t.in = (IF c = "*" THEN "star" ELSE "block")
    /\ s.in = "star" => t.in = (IF c = "/" THEN "code" ELSE IF c = "*" THEN "star" ELSE "block")
    /\ s.in = "literal" => t.in = (IF c = "b" THEN "escape" ELSE IF c = "q" THEN "code" ELSE "literal")
    /\ s.in = "escape" => t.in = "literal"

\* The reference reads so.
LEMMA LexedMoves ==
  ASSUME NEW s \in LexState, NEW c \in Chars
  PROVE  LexedTo(s, c, X!Lexed(s, c))
<1> DEFINE t == X!Lexed(s, c)
           deeper == X!Max({s.deepest, s.depth + 1})
           In(x) == [s EXCEPT !.in = x]
           Code == CASE c = "{" -> [s EXCEPT !.in = "code", !.depth = s.depth + 1, !.deepest = deeper]
                     [] c = "}" -> [s EXCEPT !.in = "code", !.depth = s.depth - 1]
                     [] c = "q" -> In("literal")
                     [] c = "/" -> In("slash")
                     [] OTHER -> In("code")
<1>1. /\ s = [in |-> s.in, depth |-> s.depth, deepest |-> s.deepest]
      /\ s.in \in LexPlace /\ s.depth \in Int /\ s.deepest \in Nat /\ s.depth <= s.deepest
  BY DEF LexState
<1>2. deeper \in Nat /\ deeper >= s.deepest /\ deeper >= s.depth + 1
  BY <1>1, GreaterOf
<1> HIDE DEF deeper
<1>3. \A x \in LexPlace : In(x) \in LexState /\ In(x).in = x /\ In(x).depth = s.depth /\ In(x).deepest = s.deepest
  BY <1>1 DEF LexState
<1>4. Code \in LexState /\ Code.in = CodeIn(c) /\ Code.depth = s.depth + Delta(c) /\ Code.deepest >= s.deepest
  <2>1. CASE c = "{"
    <3> DEFINE up == s.depth + 1
               r == [s EXCEPT !.in = "code", !.depth = up, !.deepest = deeper]
    <3>1. up \in Int /\ deeper \in Nat /\ up <= deeper /\ "code" \in LexPlace
      BY <1>1, <1>2 DEF LexPlace
    <3>2. r \in LexState /\ r.in = "code" /\ r.depth = up /\ r.deepest = deeper
      <4> HIDE DEF up
      <4> QED BY <3>1 DEF LexState
    <3>3. Code = r /\ up = s.depth + 1
      BY <2>1
    <3>4. CodeIn(c) = "code" /\ Delta(c) = 1
      BY <2>1 DEF CodeIn, Delta
    <3> HIDE DEF r, Code, up
    <3> QED BY <1>2, <3>2, <3>3, <3>4
  <2>2. CASE c = "}"
    <3> DEFINE down == s.depth - 1
               r == [s EXCEPT !.in = "code", !.depth = down]
    <3>1. down \in Int /\ down <= s.deepest /\ "code" \in LexPlace
      BY <1>1 DEF LexPlace
    <3>2. r \in LexState /\ r.in = "code" /\ r.depth = down /\ r.deepest = s.deepest
      <4> HIDE DEF down
      <4> QED BY <3>1 DEF LexState
    <3>3. Code = r /\ down = s.depth - 1
      BY <2>2
    <3>4. CodeIn(c) = "code" /\ Delta(c) = -1
      BY <2>2 DEF CodeIn, Delta
    <3> HIDE DEF r, Code, down
    <3> QED BY <1>1, <3>2, <3>3, <3>4
  <2>3. CASE c \notin {"{", "}"}
    <3>1. Code = In(CodeIn(c)) /\ CodeIn(c) \in LexPlace /\ Delta(c) = 0
      BY <2>3 DEF CodeIn, Delta, LexPlace
    <3> HIDE DEF Code, In
    <3> QED BY <1>1, <1>3, <3>1
  <2> QED BY <2>1, <2>2, <2>3
<1>5. t = CASE s.in = "code" -> Code
            [] s.in = "slash" -> IF c = "/" THEN In("line") ELSE IF c = "*" THEN In("block") ELSE Code
            [] s.in = "block" -> IF c = "*" THEN In("star") ELSE s
            [] s.in = "star" -> IF c = "/" THEN In("code") ELSE IF c = "*" THEN s ELSE In("block")
            [] s.in = "literal" -> IF c = "b" THEN In("escape") ELSE IF c = "q" THEN In("code") ELSE s
            [] s.in = "escape" -> In("literal")
            [] OTHER -> s
  BY DEF X!Lexed, deeper
<1> HIDE DEF Code, In, t
<1>6. /\ "line" \in LexPlace /\ "block" \in LexPlace /\ "star" \in LexPlace /\ "code" \in LexPlace
      /\ "escape" \in LexPlace /\ "literal" \in LexPlace
  BY DEF LexPlace
<1>7. CASE s.in = "code"
  <2>1. t = Code
    BY <1>5, <1>7
  <2> QED BY <1>4, <1>7, <2>1 DEF t, LexedTo
<1>8. CASE s.in = "slash"
  <2>1. CASE c = "/"
    <3>1. t = In("line")
      BY <1>5, <1>8, <2>1
    <3> QED BY <1>1, <1>3, <1>6, <1>8, <2>1, <3>1 DEF t, LexedTo
  <2>2. CASE c = "*"
    <3>1. t = In("block")
      BY <1>5, <1>8, <2>2
    <3> QED BY <1>1, <1>3, <1>6, <1>8, <2>2, <3>1 DEF t, LexedTo
  <2>3. CASE c \notin {"/", "*"}
    <3>1. t = Code
      BY <1>5, <1>8, <2>3
    <3> QED BY <1>4, <1>8, <2>3, <3>1 DEF t, LexedTo
  <2> QED BY <2>1, <2>2, <2>3
<1>9. CASE s.in = "block"
  <2>1. t = IF c = "*" THEN In("star") ELSE s
    BY <1>5, <1>9
  <2> QED BY <1>1, <1>3, <1>6, <1>9, <2>1 DEF t, LexedTo
<1>10. CASE s.in = "star"
  <2>1. t = IF c = "/" THEN In("code") ELSE IF c = "*" THEN s ELSE In("block")
    BY <1>5, <1>10
  <2> QED BY <1>1, <1>3, <1>6, <1>10, <2>1 DEF t, LexedTo
<1>11. CASE s.in = "literal"
  <2>1. t = IF c = "b" THEN In("escape") ELSE IF c = "q" THEN In("code") ELSE s
    BY <1>5, <1>11
  <2> QED BY <1>1, <1>3, <1>6, <1>11, <2>1 DEF t, LexedTo
<1>12. CASE s.in = "escape"
  <2>1. t = In("literal")
    BY <1>5, <1>12
  <2> QED BY <1>1, <1>3, <1>6, <1>12, <2>1 DEF t, LexedTo
<1>13. CASE s.in = "line"
  <2>1. t = s
    BY <1>5, <1>13
  <2> QED BY <1>1, <1>13, <2>1 DEF t, LexedTo
<1> QED BY <1>1, <1>7, <1>8, <1>9, <1>10, <1>11, <1>12, <1>13 DEF LexPlace

\* Folding the first n numbers, the last one first, is what FoldLeft does with a list.
FoldedUp(f, n, base, step) ==
    f = [Part \in SUBSET (1..n) |->
           IF Part = {} THEN base ELSE step[X!Max(Part)][f[Part \ {X!Max(Part)}]]]

\* Such a fold exists, and takes the numbers one by one.
LEMMA FoldsUp ==
  ASSUME NEW n \in Nat, NEW Val, NEW base \in Val, NEW step, \A k \in 1..n, v \in Val : step[k][v] \in Val
  PROVE  /\ \E f \in [SUBSET (1..n) -> Val] : FoldedUp(f, n, base, step)
         /\ \A k \in 1..n : /\ X!Max(1..k) = k /\ 1..k \in SUBSET (1..n) /\ 1..k # {}
                            /\ (1..k) \ {k} = 1..(k - 1)
         /\ \A Part \in SUBSET (1..n) : Part # {} => X!Max(Part) \in Part
<1> DEFINE choice == [Part \in SUBSET (1..n) |-> X!Max(Part)]
<1>1. \A S : X!Max(S) = Max(S)
  BY DEF X!Max, Max
<1>2. \A Part \in SUBSET (1..n) : Part # {} => X!Max(Part) \in Part
  <2> TAKE Part \in SUBSET (1..n)
  <2>1. Part \in SUBSET (0..n)
    OBVIOUS
  <2>2. Part # {} => Max(Part) \in Part
    BY <2>1, GreatestOf
  <2> QED BY <1>1, <2>2
<1>3. ASSUME NEW k \in 1..n
      PROVE  X!Max(1..k) = k /\ 1..k \in SUBSET (1..n) /\ 1..k # {} /\ (1..k) \ {k} = 1..(k - 1)
  <2>1. 1..k \in SUBSET (1..n) /\ 1..k # {} /\ k \in Nat \ {0} /\ (1..k) \ {k} = 1..(k - 1)
    OBVIOUS
  <2>2. Max(1..k) = k
    BY ONLY <2>1, GreatestOfFirst
  <2> QED BY <1>1, <2>1, <2>2
<1>4. PICK f : Folds(f, 1..n, base, choice, step) /\ f \in [SUBSET (1..n) -> Val]
  <2>1. \A Part \in SUBSET (1..n) : Part # {} => choice[Part] \in Part
    BY <1>2
  <2>2. IsFiniteSet(1..n)
    <3>1. 1 \in Int /\ n \in Int
      OBVIOUS
    <3> QED BY <3>1, FS_Interval
  <2> HIDE DEF choice
  <2> QED BY <2>1, <2>2, FoldExists
<1>5. FoldedUp(f, n, base, step)
  <2>1. \A Part \in SUBSET (1..n) : choice[Part] = X!Max(Part)
    OBVIOUS
  <2> HIDE DEF choice
  <2> QED BY <1>4, <2>1 DEF Folds, FoldedUp
<1> QED BY <1>2, <1>3, <1>4, <1>5

\* The states of the reference on its way through a text.
Lexes(p, s, text) ==
    /\ p \in [0..Len(text) -> LexState] /\ p[0] = s
    /\ \A k \in 1..Len(text) : p[k] = X!Lexed(p[k - 1], text[k])

\* Reading a text ends in the last of them.
LEMMA TextLexed ==
  ASSUME NEW text \in Seq(Chars), NEW s \in LexState
  PROVE  \E p : Lexes(p, s, text) /\ X!FoldLeft(X!Lexed, s, text) = p[Len(text)]
<1> DEFINE n == Len(text)
           F(f) == [Part \in SUBSET (1..n) |->
                      IF Part = {} THEN s ELSE X!Lexed(f[Part \ {X!Max(Part)}], text[X!Max(Part)])]
           f0 == CHOOSE f : f = F(f)
           step == [k \in 1..n |-> [v \in LexState |-> X!Lexed(v, text[k])]]
           p == [k \in 0..n |-> f0[1..k]]
<1>1. n \in Nat /\ DOMAIN text = 1..n /\ \A k \in 1..n : text[k] \in Chars
  BY LenProperties, ElementOfSeq
<1>2. \A k \in 1..n, v \in LexState : step[k][v] = X!Lexed(v, text[k]) /\ step[k][v] \in LexState
  BY <1>1, LexedMoves DEF LexedTo
<1>3. X!FoldLeft(X!Lexed, s, text) = f0[1..n]
  BY ONLY <1>1 DEF X!FoldLeft, X!MapThenFoldSet
<1>4. /\ \E f \in [SUBSET (1..n) -> LexState] : FoldedUp(f, n, s, step)
      /\ \A k \in 1..n : X!Max(1..k) = k /\ 1..k \in SUBSET (1..n) /\ 1..k # {} /\ (1..k) \ {k} = 1..(k - 1)
      /\ \A Part \in SUBSET (1..n) : Part # {} => X!Max(Part) \in Part
  <2> HIDE DEF step, n
  <2> QED BY <1>1, <1>2, FoldsUp
<1>5. PICK f \in [SUBSET (1..n) -> LexState] : FoldedUp(f, n, s, step)
  BY <1>4
<1>6. f = F(f)
  <2>1. ASSUME NEW Part \in SUBSET (1..n), Part # {}
        PROVE  step[X!Max(Part)][f[Part \ {X!Max(Part)}]] = X!Lexed(f[Part \ {X!Max(Part)}], text[X!Max(Part)])
    <3>1. X!Max(Part) \in 1..n /\ f[Part \ {X!Max(Part)}] \in LexState
      BY <1>4, <1>5, <2>1
    <3> HIDE DEF step, n
    <3> QED BY <1>2, <3>1
  <2> HIDE DEF step, n
  <2> QED BY <1>5, <2>1 DEF FoldedUp
<1>7. f0 = F(f0)
  <2> HIDE DEF F
  <2> QED BY <1>6
<1> HIDE DEF f0
<1>8. p[0] = s
  <2>1. f0[{}] = s
    BY <1>7
  <2>2. 1..0 = {} /\ 0 \in 0..n
    BY <1>1
  <2> QED BY <2>1, <2>2
<1>9. \A k \in 1..n : p[k] = X!Lexed(p[k - 1], text[k])
  <2> TAKE k \in 1..n
  <2>1. k \in 0..n /\ k - 1 \in 0..n
    BY <1>1
  <2>2. f0[1..k] = X!Lexed(f0[(1..k) \ {X!Max(1..k)}], text[X!Max(1..k)])
    BY <1>4, <1>7
  <2> QED BY <1>4, <2>1, <2>2
<1>10. \A k \in 0..n : p[k] \in LexState
  <2> DEFINE G == {k \in 0..n : p[k] \in LexState}
  <2>1. 0 \in G
    BY <1>1, <1>8
  <2>2. ASSUME NEW k \in 1..n, k - 1 \in G PROVE k \in G
    <3> HIDE DEF p
    <3>1. p[k] = X!Lexed(p[k - 1], text[k]) /\ p[k - 1] \in LexState /\ text[k] \in Chars
      BY <1>1, <1>9, <2>2
    <3>2. p[k] \in LexState
      BY <3>1, LexedMoves DEF LexedTo
    <3>3. k \in 0..n
      BY <1>1
    <3> QED BY <3>2, <3>3
  <2> HIDE DEF G, p, n
  <2>3. 0..n \subseteq G
    BY <1>1, <2>1, <2>2, NumbersUpTo
  <2> QED BY <2>3 DEF G
<1>11. p \in [0..n -> LexState] /\ p[n] = f0[1..n]
  BY <1>1, <1>10
<1> HIDE DEF p
<1> QED BY <1>3, <1>8, <1>9, <1>11 DEF Lexes

\* The states on the way are states, each the reading of one more character.
LEMMA LexesOn ==
  ASSUME NEW text \in Seq(Chars), NEW s, NEW p, Lexes(p, s, text)
  PROVE  /\ Len(text) \in Nat
         /\ \A k \in 0..Len(text) : p[k] \in LexState
         /\ \A k \in 1..Len(text) :
              /\ X!At(text, k) = text[k] /\ text[k] \in Chars /\ X!At(text, k) # "eol"
              /\ p[k - 1] \in LexState /\ p[k] = X!Lexed(p[k - 1], text[k])
<1>1. Len(text) \in Nat
  BY LenProperties
<1>2. \A k \in 1..Len(text) : X!At(text, k) = text[k] /\ text[k] \in Chars /\ X!At(text, k) # "eol"
  BY <1>1, CharAt
<1>3. \A k \in 1..Len(text) : k - 1 \in 0..Len(text)
  BY <1>1
<1> QED BY <1>1, <1>2, <1>3 DEF Lexes

\* The depth that was reached is never forgotten.
LEMMA DeepestGrows ==
  ASSUME NEW text \in Seq(Chars), NEW s \in LexState, NEW p, Lexes(p, s, text)
  PROVE  p[Len(text)].deepest >= s.deepest /\ p[Len(text)] \in LexState
<1> DEFINE n == Len(text)
           G == {k \in 0..n : p[k].deepest >= s.deepest}
<1>1. n \in Nat /\ p[0] = s /\ s.deepest \in Nat
  BY LexesOn DEF Lexes, LexState
<1>2. 0 \in G
  BY <1>1
<1>3. ASSUME NEW k \in 1..n, k - 1 \in G PROVE k \in G
  <2>1. p[k - 1] \in LexState /\ text[k] \in Chars /\ p[k] = X!Lexed(p[k - 1], text[k])
    BY LexesOn
  <2>2. p[k].deepest >= p[k - 1].deepest /\ p[k] \in LexState
    BY <2>1, LexedMoves DEF LexedTo
  <2>3. p[k].deepest \in Nat /\ p[k - 1].deepest \in Nat /\ p[k - 1].deepest >= s.deepest
    BY <1>3, <2>1, <2>2 DEF LexState
  <2>4. p[k].deepest >= s.deepest
    BY <1>1, <2>2, <2>3
  <2>5. k \in 0..n
    BY <1>1
  <2> QED BY <2>4, <2>5
<1>4. 0..n \subseteq G
  <2> HIDE DEF G, n
  <2> QED BY <1>1, <1>2, <1>3, NumbersUpTo
<1>5. n \in 0..n
  BY <1>1
<1> QED BY <1>4, <1>5, LexesOn

\* A line comment lasts to the end of its line.
LEMMA CommentStays ==
  ASSUME NEW text \in Seq(Chars), NEW s \in LexState, NEW p, Lexes(p, s, text),
         NEW i \in 0..Len(text), p[i].in = "line"
  PROVE  p[Len(text)].in = "line" /\ p[Len(text)].depth = p[i].depth
<1> DEFINE n == Len(text)
           G == {k \in 0..n : k >= i => p[k].in = "line" /\ p[k].depth = p[i].depth}
<1>1. n \in Nat /\ i \in Nat /\ i <= n
  BY LexesOn
<1>2. 0 \in G
  BY <1>1
<1>3. ASSUME NEW k \in 1..n, k - 1 \in G PROVE k \in G
  <2>1. p[k - 1] \in LexState /\ text[k] \in Chars /\ p[k] = X!Lexed(p[k - 1], text[k])
    BY LexesOn
  <2>2. p[k - 1].in = "line" => p[k].in = "line" /\ p[k].depth = p[k - 1].depth
    <3>1. LexedTo(p[k - 1], text[k], p[k])
      BY <2>1, LexedMoves
    <3> QED BY <3>1 DEF LexedTo
  <2>3. k \in 0..n /\ (k >= i => k = i \/ k - 1 >= i)
    BY <1>1
  <2> QED BY <1>3, <2>2, <2>3
<1>4. 0..n \subseteq G
  <2> HIDE DEF G, n
  <2> QED BY <1>1, <1>2, <1>3, NumbersUpTo
<1>5. n \in 0..n /\ n >= i
  BY <1>1
<1> QED BY <1>4, <1>5

\* A literal changes no depth, and ends where the slicer's scan finds its end, if it ends.
LiteralRead(text, p, j, r) ==
    /\ r <= Len(text) => p[r - 1].in = "code" /\ p[r - 1].depth = p[j - 1].depth
    /\ r > Len(text) => /\ p[Len(text)].depth = p[j - 1].depth
                        /\ p[Len(text)].in \in {"code", "literal", "escape"}

LEMMA LiteralsAgree ==
  ASSUME NEW text \in Seq(Chars), NEW s \in LexState, NEW p, Lexes(p, s, text),
         NEW i \in 1..(Len(text) + 1), p[i - 1].in = "literal"
  PROVE  LiteralRead(text, p, i, X!AfterLiteral(text)[i])
<1> DEFINE n == Len(text)
           a == X!AfterLiteral(text)
           G == {j \in 1..(n + 1) : p[j - 1].in = "literal" => LiteralRead(text, p, j, a[j])}
<1>1. n \in Nat /\ n + 1 \in Nat
  BY LexesOn
<1>2. ASSUME NEW j \in 1..(n + 1), \A k \in 1..(n + 1) : k > j => k \in G PROVE j \in G
  <2> SUFFICES ASSUME p[j - 1].in = "literal" PROVE LiteralRead(text, p, j, a[j])
    OBVIOUS
  <2>1. /\ j \in 1..(n + 2)
        /\ a[j] = IF X!At(text, j) = "eol" THEN j
                  ELSE IF X!At(text, j) = "b" THEN a[j + 2]
                  ELSE IF X!At(text, j) = "q" THEN j + 1
                  ELSE a[j + 1]
    BY <1>1, LiteralEnds
  <2> HIDE DEF a
  <2>2. CASE j = n + 1
    <3>1. X!At(text, j) = "eol"
      BY <1>1, <2>2, CharAt
    <3>2. a[j] = n + 1 /\ j - 1 = n
      BY <1>1, <2>1, <2>2, <3>1
    <3> QED BY <1>1, <3>2 DEF LiteralRead
  <2>3. CASE j # n + 1
    <3>1. j \in 1..n /\ j + 1 \in 1..(n + 1) /\ (j + 1) - 1 = j
      BY <1>1, <2>3
    <3>2. /\ X!At(text, j) = text[j] /\ text[j] \in Chars /\ X!At(text, j) # "eol"
          /\ p[j - 1] \in LexState /\ p[j] = X!Lexed(p[j - 1], text[j])
      BY <3>1, LexesOn
    <3>3. /\ p[j] \in LexState /\ p[j].depth = p[j - 1].depth
          /\ p[j].in = IF text[j] = "b" THEN "escape" ELSE IF text[j] = "q" THEN "code" ELSE "literal"
      <4>1. LexedTo(p[j - 1], text[j], p[j])
        BY <3>2, LexedMoves
      <4> QED BY <4>1 DEF LexedTo
    <3>4. CASE text[j] = "b"
      <4>1. a[j] = a[j + 2] /\ p[j].in = "escape"
        BY <2>1, <3>2, <3>3, <3>4
      <4>2. CASE j = n
        <5>1. n + 2 \in 1..(n + 2) /\ X!At(text, n + 2) = "eol"
          BY <1>1, CharAt
        <5>2. a[n + 2] = n + 2
          BY <5>1, LiteralEnds DEF a
        <5>3. a[j] = n + 2 /\ p[n].depth = p[j - 1].depth /\ p[n].in = "escape"
          BY <3>3, <4>1, <4>2, <5>2
        <5> QED BY <1>1, <5>3 DEF LiteralRead
      <4>3. CASE j # n
        <5>1. j + 1 \in 1..n /\ j + 2 \in 1..(n + 1) /\ (j + 2) - 1 = j + 1 /\ (j + 1) - 1 = j /\ j + 2 > j
          BY <1>1, <3>1, <4>3
        <5>2. p[j + 1] = X!Lexed(p[j], text[j + 1]) /\ text[j + 1] \in Chars
          BY <5>1, LexesOn
        <5>3. p[j + 1].in = "literal" /\ p[j + 1].depth = p[j].depth
          <6>1. LexedTo(p[j], text[j + 1], p[j + 1])
            BY <3>3, <5>2, LexedMoves
          <6> QED BY <4>1, <6>1 DEF LexedTo
        <5>4. LiteralRead(text, p, j + 2, a[j + 2])
          BY <1>2, <5>1, <5>3
        <5> QED BY <3>3, <4>1, <5>1, <5>3, <5>4 DEF LiteralRead
      <4> QED BY <4>2, <4>3
    <3>5. CASE text[j] = "q"
      <4>1. a[j] = j + 1 /\ p[j].in = "code"
        BY <2>1, <3>2, <3>3, <3>5
      <4>2. j + 1 > n => j = n
        BY <1>1, <3>1
      <4> QED BY <3>1, <3>3, <4>1, <4>2 DEF LiteralRead
    <3>6. CASE text[j] \notin {"b", "q"}
      <4>1. a[j] = a[j + 1] /\ p[j].in = "literal"
        BY <2>1, <3>2, <3>3, <3>6
      <4>2. j + 1 > j
        BY <3>1
      <4>3. LiteralRead(text, p, j + 1, a[j + 1])
        BY <1>2, <3>1, <4>1, <4>2
      <4> QED BY <3>1, <3>3, <4>1, <4>3 DEF LiteralRead
    <3> QED BY <3>4, <3>5, <3>6
  <2> QED BY <2>2, <2>3
<1>3. 1..(n + 1) \subseteq G
  <2> HIDE DEF G, n
  <2> QED BY <1>1, <1>2, NumbersFromAbove
<1> QED BY <1>3

\* The slicer's scan stands in a line where the reference stands in it.
Stands(text, p, i, q) ==
    /\ q.depth = p[i - 1].depth
    /\ q.inBlockComment => p[i - 1].in = "block" \/ (p[i - 1].in = "star" /\ X!At(text, i) # "/")
    /\ ~q.inBlockComment => p[i - 1].in = "code" \/ (p[i - 1].in = "slash" /\ X!At(text, i) \notin {"/", "*"})

\* Both end the line at one depth, in a block comment or out of it.
EndsWith(text, p, q) ==
    /\ q.depth = p[Len(text)].depth
    /\ q.inBlockComment <=> p[Len(text)].in \in {"block", "star"}

\* One character for the reference, as the scan sees it from where both stand.
LEMMA StandsOn ==
  ASSUME NEW text \in Seq(Chars), NEW s, NEW p, Lexes(p, s, text), NEW i \in 1..Len(text),
         NEW q \in X!State, Stands(text, p, i, q)
  PROVE  /\ ~q.inBlockComment => p[i].in = CodeIn(text[i]) /\ p[i].depth = q.depth + Delta(text[i])
         /\ q.inBlockComment => p[i].in = (IF text[i] = "*" THEN "star" ELSE "block") /\ p[i].depth = q.depth
<1>1. X!At(text, i) = text[i] /\ LexedTo(p[i - 1], text[i], p[i])
  BY LexesOn, LexedMoves
<1>2. CASE ~q.inBlockComment
  <2>1. p[i - 1].in = "code" \/ (p[i - 1].in = "slash" /\ text[i] \notin {"/", "*"})
    BY <1>1, <1>2 DEF Stands
  <2>2. p[i].in = CodeIn(text[i]) /\ p[i].depth = p[i - 1].depth + Delta(text[i])
    BY <1>1, <2>1 DEF LexedTo
  <2> QED BY <1>2, <2>2 DEF Stands
<1>3. CASE q.inBlockComment
  <2>1. p[i - 1].in = "block" \/ (p[i - 1].in = "star" /\ text[i] # "/")
    BY <1>1, <1>3 DEF Stands
  <2>2. p[i].depth = p[i - 1].depth
    BY <1>1, <2>1 DEF LexedTo
  <2>3. p[i].in = IF text[i] = "*" THEN "star" ELSE "block"
    BY <1>1, <2>1 DEF LexedTo
  <2> QED BY <1>3, <2>2, <2>3 DEF Stands
<1> QED BY <1>2, <1>3

\* The scan of a line ends as the reference's reading of it.
LEMMA ScanReads ==
  ASSUME NEW text \in Seq(Chars), NEW s \in LexState, NEW p, Lexes(p, s, text),
         NEW i \in 1..(Len(text) + 1), NEW q \in X!State, Stands(text, p, i, q)
  PROVE  EndsWith(text, p, X!ScanFrom(text)[i][q])
<1> DEFINE n == Len(text)
           scan == X!ScanFrom(text)
           G == {j \in 1..(n + 1) : \A r \in X!State : Stands(text, p, j, r) => EndsWith(text, p, scan[j][r])}
<1>1. n \in Nat /\ n + 1 \in Nat
  BY LexesOn
<1>2. ASSUME NEW j \in 1..(n + 1), \A k \in 1..(n + 1) : k > j => k \in G PROVE j \in G
  <2> SUFFICES ASSUME NEW r \in X!State, Stands(text, p, j, r) PROVE EndsWith(text, p, scan[j][r])
    OBVIOUS
  <2>1. j \in 1..(n + 2) /\ scan[j][r] = Scanned(text, scan, j, r)
    BY <1>1, Scans
  <2>2. r.inBlockComment \in BOOLEAN /\ r.depth \in Int
    BY ScanStates
  <2> HIDE DEF scan
  <2>3. CASE j = n + 1
    <3>1. X!At(text, j) = "eol"
      BY <1>1, <2>3, CharAt
    <3>2. scan[j][r] = r /\ j - 1 = n
      BY <1>1, <2>1, <2>3, <3>1 DEF Scanned
    <3>3. r.inBlockComment => p[n].in \in {"block", "star"}
      BY <3>2 DEF Stands
    <3>4. ~r.inBlockComment => p[n].in \notin {"block", "star"}
      BY <3>2 DEF Stands
    <3>5. r.depth = p[n].depth
      BY <3>2 DEF Stands
    <3> QED BY <2>2, <3>2, <3>3, <3>4, <3>5 DEF EndsWith
  <2>4. CASE j # n + 1
    <3> DEFINE l == X!AfterLiteral(text)[j + 1]
    <3>1. j \in 1..n /\ j + 1 \in 1..(n + 1) /\ j + 1 > j /\ j + 2 > j /\ (j + 1) - 1 = j /\ (j + 2) - 1 = j + 1
      BY <1>1, <2>4
    <3>2. X!At(text, j) = text[j] /\ text[j] \in Chars /\ X!At(text, j) # "eol"
      BY <3>1, LexesOn
    <3>3. /\ ~r.inBlockComment => p[j].in = CodeIn(text[j]) /\ p[j].depth = r.depth + Delta(text[j])
          /\ r.inBlockComment => p[j].in = (IF text[j] = "*" THEN "star" ELSE "block") /\ p[j].depth = r.depth
      BY <3>1, StandsOn
    <3>4. ASSUME NEW k \in 1..(n + 1), k > j, NEW t \in X!State, Stands(text, p, k, t)
          PROVE  EndsWith(text, p, scan[k][t])
      <4>1. k \in G
        BY <1>2, <3>4
      <4> QED BY <3>4, <4>1
    <3>5. /\ X!Commenting(r, TRUE) \in X!State /\ X!Commenting(r, FALSE) \in X!State
          /\ X!Commenting(r, TRUE).depth = r.depth /\ X!Commenting(r, FALSE).depth = r.depth
          /\ X!Commenting(r, TRUE).inBlockComment /\ ~X!Commenting(r, FALSE).inBlockComment
          /\ [r EXCEPT !.depth = @ + 1] \in X!State /\ [r EXCEPT !.depth = @ - 1] \in X!State
          /\ [r EXCEPT !.depth = @ + 1].depth = r.depth + 1
          /\ [r EXCEPT !.depth = @ - 1].depth = r.depth - 1
          /\ [r EXCEPT !.depth = @ + 1].inBlockComment = r.inBlockComment
          /\ [r EXCEPT !.depth = @ - 1].inBlockComment = r.inBlockComment
      BY ScanStates
    <3>6. ASSUME X!At(text, j + 1) # "eol"
          PROVE  j + 1 \in 1..n /\ j + 2 \in 1..(n + 1) /\ X!At(text, j + 1) = text[j + 1]
                 /\ LexedTo(p[j], text[j + 1], p[j + 1])
      <4>1. j + 1 \in 1..n
        BY <1>1, <3>1, <3>6, CharAt
      <4>2. j + 2 \in 1..(n + 1)
        BY <1>1, <4>1
      <4>3. /\ X!At(text, j + 1) = text[j + 1] /\ text[j + 1] \in Chars
            /\ p[(j + 1) - 1] \in LexState /\ p[j + 1] = X!Lexed(p[(j + 1) - 1], text[j + 1])
        BY <4>1, LexesOn
      <4>4. LexedTo(p[j], text[j + 1], p[j + 1])
        BY <3>1, <4>3, LexedMoves
      <4> QED BY <4>1, <4>2, <4>3, <4>4
    <3> HIDE DEF G, n
    <3>7. CASE r.inBlockComment
      <4>1. CASE Pair(text, j, "*", "/")
        <5>1. scan[j][r] = scan[j + 2][X!Commenting(r, FALSE)]
          BY <2>1, <3>2, <3>7, <4>1 DEF Scanned
        <5>2. text[j] = "*" /\ X!At(text, j + 1) = "/"
          BY <3>2, <4>1 DEF Pair
        <5>3. p[j].in = "star" /\ p[j].depth = r.depth
          BY <3>3, <3>7, <5>2
        <5>4. j + 2 \in 1..(n + 1) /\ text[j + 1] = "/" /\ LexedTo(p[j], "/", p[j + 1])
          BY <3>6, <5>2
        <5>5. p[j + 1].in = "code" /\ p[j + 1].depth = r.depth
          BY <5>3, <5>4 DEF LexedTo
        <5>6. Stands(text, p, j + 2, X!Commenting(r, FALSE))
          BY <3>1, <3>5, <5>5 DEF Stands
        <5> QED BY <3>1, <3>4, <3>5, <5>1, <5>4, <5>6
      <4>2. CASE ~Pair(text, j, "*", "/")
        <5>1. scan[j][r] = scan[j + 1][r]
          BY <2>1, <3>2, <3>7, <4>2 DEF Scanned
        <5>2. text[j] = "*" => X!At(text, j + 1) # "/"
          BY <3>2, <4>2 DEF Pair
        <5>3. p[j].in = "block" \/ (p[j].in = "star" /\ X!At(text, j + 1) # "/")
          BY <3>3, <3>7, <5>2
        <5>4. Stands(text, p, j + 1, r)
          BY <3>1, <3>3, <3>7, <5>3 DEF Stands
        <5> QED BY <3>1, <3>4, <5>1, <5>4
      <4> QED BY <4>1, <4>2
    <3>8. CASE ~r.inBlockComment
      <4>0. p[j].in = CodeIn(text[j]) /\ p[j].depth = r.depth + Delta(text[j])
        BY <3>3, <3>8
      <4>1. CASE Pair(text, j, "/", "/")
        <5>1. scan[j][r] = r
          BY <2>1, <3>2, <3>8, <4>1 DEF Scanned
        <5>2. text[j] = "/" /\ X!At(text, j + 1) = "/"
          BY <3>2, <4>1 DEF Pair
        <5>3. p[j].in = "slash" /\ p[j].depth = r.depth
          <6>1. CodeIn("/") = "slash" /\ Delta("/") = 0
            BY DEF CodeIn, Delta
          <6> QED BY <2>2, <4>0, <5>2, <6>1
        <5>4. j + 1 \in 1..n /\ text[j + 1] = "/" /\ LexedTo(p[j], "/", p[j + 1])
          BY <3>6, <5>2
        <5>5. p[j + 1].in = "line" /\ p[j + 1].depth = r.depth
          BY <5>3, <5>4 DEF LexedTo
        <5>6. p[n].in = "line" /\ p[n].depth = r.depth
          <6>1. j + 1 \in 0..n
            BY <1>1, <5>4
          <6> QED BY <5>5, <6>1, CommentStays DEF n
        <5> QED BY <2>2, <3>8, <5>1, <5>6 DEF EndsWith, n
      <4>2. CASE Pair(text, j, "/", "*")
        <5>2. text[j] = "/" /\ X!At(text, j + 1) = "*"
          BY <3>2, <4>2 DEF Pair
        <5>1. scan[j][r] = scan[j + 2][X!Commenting(r, TRUE)]
          <6>1. ~Pair(text, j, "/", "/")
            BY <5>2 DEF Pair
          <6> QED BY <2>1, <3>2, <3>8, <4>2, <6>1 DEF Scanned
        <5>3. p[j].in = "slash" /\ p[j].depth = r.depth
          <6>1. CodeIn("/") = "slash" /\ Delta("/") = 0
            BY DEF CodeIn, Delta
          <6> QED BY <2>2, <4>0, <5>2, <6>1
        <5>4. j + 2 \in 1..(n + 1) /\ text[j + 1] = "*" /\ LexedTo(p[j], "*", p[j + 1])
          BY <3>6, <5>2
        <5>5. p[j + 1].in = "block" /\ p[j + 1].depth = r.depth
          BY <5>3, <5>4 DEF LexedTo
        <5>6. Stands(text, p, j + 2, X!Commenting(r, TRUE))
          BY <3>1, <3>5, <5>5 DEF Stands
        <5> QED BY <3>1, <3>4, <3>5, <5>1, <5>4, <5>6
      <4> DEFINE Plain == ~Pair(text, j, "/", "/") /\ ~Pair(text, j, "/", "*")
      <4>3. CASE Plain /\ text[j] = "q"
        <5>1. scan[j][r] = scan[l][r]
          BY <2>1, <3>2, <3>8, <4>3 DEF Scanned
        <5>2. p[j].in = "literal" /\ p[j].depth = r.depth
          <6>1. CodeIn("q") = "literal" /\ Delta("q") = 0
            BY DEF CodeIn, Delta
          <6> QED BY <2>2, <4>0, <4>3, <6>1
        <5>3. LiteralRead(text, p, j + 1, l)
          BY <3>1, <5>2, LiteralsAgree DEF n
        <5>4. l \in (j + 1)..(n + 2)
          <6>1. j + 1 \in 1..(n + 2)
            BY <1>1, <3>1
          <6> QED BY <6>1, LiteralEnds DEF n
        <5> HIDE DEF l
        <5>5. CASE l <= n
          <6>1. p[l - 1].in = "code" /\ p[l - 1].depth = r.depth
            BY <3>1, <5>2, <5>3, <5>5 DEF LiteralRead, n
          <6>2. Stands(text, p, l, r)
            BY <3>8, <6>1 DEF Stands
          <6>3. l \in 1..(n + 1) /\ l > j
            BY <1>1, <3>1, <5>4, <5>5
          <6> QED BY <3>4, <5>1, <6>2, <6>3
        <5>6. CASE ~(l <= n)
          <6>1. l > n /\ l \in Nat \ {0} /\ l \in 1..(n + 2)
            BY <1>1, <3>1, <5>4, <5>6
          <6>2. X!At(text, l) = "eol"
            BY <6>1, CharAt DEF n
          <6>3. scan[l][r] = r
            <7>1. scan[l][r] = Scanned(text, scan, l, r)
              BY <6>1, Scans DEF scan, n
            <7> QED BY <6>2, <7>1 DEF Scanned
          <6>4. p[n].depth = r.depth /\ p[n].in \in {"code", "literal", "escape"}
            BY <3>1, <5>2, <5>3, <6>1 DEF LiteralRead, n
          <6> QED BY <3>8, <5>1, <6>3, <6>4 DEF EndsWith, n
        <5> QED BY <5>5, <5>6
      <4> DEFINE Next1(t) == t \in X!State /\ ~t.inBlockComment /\ t.depth = r.depth + Delta(text[j])
      <4>4. ASSUME NEW t, Next1(t), Plain, text[j] # "q" PROVE EndsWith(text, p, scan[j + 1][t])
        <5>1. p[j].depth = t.depth
          BY <4>0, <4>4
        <5>2. p[j].in = "code" \/ (p[j].in = "slash" /\ X!At(text, j + 1) \notin {"/", "*"})
          <6>1. CASE text[j] = "/"
            <7>1. X!At(text, j + 1) \notin {"/", "*"}
              BY <3>2, <4>4, <6>1 DEF Pair
            <7> QED BY <4>0, <6>1, <7>1 DEF CodeIn
          <6>2. CASE text[j] # "/"
            BY <4>0, <4>4, <6>2 DEF CodeIn
          <6> QED BY <6>1, <6>2
        <5>3. Stands(text, p, j + 1, t)
          BY <3>1, <4>4, <5>1, <5>2 DEF Stands
        <5> QED BY <3>1, <3>4, <4>4, <5>3
      <4>5. CASE Plain /\ text[j] = "{"
        <5>1. scan[j][r] = scan[j + 1][[r EXCEPT !.depth = @ + 1]]
          BY <2>1, <3>2, <3>8, <4>5 DEF Scanned
        <5>2. Next1([r EXCEPT !.depth = @ + 1])
          BY <3>5, <3>8, <4>5 DEF Delta
        <5>3. text[j] # "q"
          BY <4>5
        <5> HIDE DEF Next1, Plain
        <5> QED BY <4>4, <4>5, <5>1, <5>2, <5>3
      <4>6. CASE Plain /\ text[j] = "}"
        <5>1. scan[j][r] = scan[j + 1][[r EXCEPT !.depth = @ - 1]]
          BY <2>1, <3>2, <3>8, <4>6 DEF Scanned
        <5>2. Next1([r EXCEPT !.depth = @ - 1])
          BY <3>5, <3>8, <4>6 DEF Delta
        <5>3. text[j] # "q"
          BY <4>6
        <5> HIDE DEF Next1, Plain
        <5> QED BY <4>4, <4>6, <5>1, <5>2, <5>3
      <4>7. CASE Plain /\ text[j] \notin {"q", "{", "}"}
        <5>1. scan[j][r] = scan[j + 1][r]
          BY <2>1, <3>2, <3>8, <4>7 DEF Scanned
        <5>2. Next1(r)
          <6>1. Delta(text[j]) = 0
            BY <4>7 DEF Delta
          <6> QED BY <2>2, <3>8, <6>1
        <5>3. text[j] # "q"
          BY <4>7
        <5> HIDE DEF Next1, Plain
        <5> QED BY <4>4, <4>7, <5>1, <5>2, <5>3
      <4> QED BY <4>1, <4>2, <4>3, <4>5, <4>6, <4>7
    <3> QED BY <2>2, <3>7, <3>8
  <2> QED BY <2>3, <2>4
<1>3. 1..(n + 1) \subseteq G
  <2> HIDE DEF G, n
  <2> QED BY <1>1, <1>2, NumbersFromAbove
<1> QED BY <1>3

\* The reference's reading of one more line, from the state the lines before left it in.
LineRead(s, text) ==
    LET end == X!FoldLeft(X!Lexed, s, text)
    IN  [end EXCEPT !.in = IF @ \in {"block", "star"} THEN "block" ELSE "code"]

\* The state in which a line begins, for the reference and for the scan.
LineState == {r \in LexState : r.in \in {"code", "block"}}
Alike(r, q) == q.depth = r.depth /\ (q.inBlockComment <=> r.in = "block")

\* A line's reading begins where it ended, and the depth reached is never forgotten.
LEMMA LineReads ==
  ASSUME NEW s \in LineState, NEW text \in Seq(Chars)
  PROVE  LineRead(s, text) \in LineState /\ LineRead(s, text).deepest >= s.deepest
<1>1. s \in LexState
  BY DEF LineState
<1>2. PICK p : Lexes(p, s, text) /\ X!FoldLeft(X!Lexed, s, text) = p[Len(text)]
  BY <1>1, TextLexed
<1> DEFINE e == p[Len(text)]
           place == IF e.in \in {"block", "star"} THEN "block" ELSE "code"
<1>3. e.deepest >= s.deepest /\ e \in LexState
  BY <1>1, <1>2, DeepestGrows
<1>4. LineRead(s, text) = [e EXCEPT !.in = place]
  BY <1>2 DEF LineRead
<1>5. place \in {"code", "block"} /\ place \in LexPlace
  BY DEF LexPlace
<1> HIDE DEF e, place
<1>6. [e EXCEPT !.in = place] \in LexState /\ [e EXCEPT !.in = place].in = place
      /\ [e EXCEPT !.in = place].deepest = e.deepest
  BY <1>3, <1>5 DEF LexState
<1> QED BY <1>3, <1>4, <1>5, <1>6 DEF LineState

\* The slicer's scan of a line and the reference's reading of it end alike if they begin alike.
LEMMA LineAgrees ==
  ASSUME NEW s \in LineState, NEW text \in Seq(Chars), NEW q \in X!State, Alike(s, q)
  PROVE  X!ScanLine(text, q) \in X!State /\ Alike(LineRead(s, text), X!ScanLine(text, q))
<1>1. s \in LexState /\ s.in \in {"code", "block"}
  BY DEF LineState
<1>2. PICK p : Lexes(p, s, text) /\ X!FoldLeft(X!Lexed, s, text) = p[Len(text)]
  BY <1>1, TextLexed
<1> DEFINE e == p[Len(text)]
           place == IF e.in \in {"block", "star"} THEN "block" ELSE "code"
           t == X!ScanLine(text, q)
<1>3. e \in LexState
  BY <1>1, <1>2, DeepestGrows
<1>4. LineRead(s, text) = [e EXCEPT !.in = place]
  BY <1>2 DEF LineRead
<1>5. 1 \in 1..(Len(text) + 1) /\ 1 \in 1..(Len(text) + 2) /\ 1 - 1 = 0
  BY LenProperties
<1>6. Stands(text, p, 1, q)
  <2>1. p[1 - 1] = s
    BY <1>2, <1>5 DEF Lexes
  <2> HIDE DEF e, t
  <2> QED BY <1>1, <2>1 DEF Stands, Alike
<1>7. EndsWith(text, p, t)
  BY <1>1, <1>2, <1>5, <1>6, ScanReads DEF X!ScanLine
<1>8. t \in X!State
  BY <1>5, ScanTyped DEF X!ScanLine
<1>9. t.inBlockComment <=> place = "block"
  BY <1>7 DEF EndsWith
<1>10. t.depth = e.depth
  BY <1>7 DEF EndsWith
<1> HIDE DEF e, place, t
<1>11. [e EXCEPT !.in = place].in = place /\ [e EXCEPT !.in = place].depth = e.depth
  BY <1>3 DEF LexState
<1>12. Alike(LineRead(s, text), t)
  BY <1>4, <1>9, <1>10, <1>11 DEF Alike
<1> QED BY <1>8, <1>12 DEF t

\* The states of the reference on its way through lines.
Unread == [in |-> "code", depth |-> 0, deepest |-> 0]
Reads(p, ls, from, n) ==
    /\ p \in [0..n -> LineState] /\ p[0] = Unread
    /\ \A k \in 1..n : p[k] = LineRead(p[k - 1], ls[from + k - 1])

\* Reading lines ends in the last of them.
LEMMA LinesRead ==
  ASSUME NEW ls \in Seq(Seq(Chars)), NEW from \in 1..Len(ls), NEW i \in from..Len(ls)
  PROVE  \E p : Reads(p, ls, from, i - from + 1) /\ X!Reading(ls, from, i) = p[i - from + 1]
<1> DEFINE sub == SubSeq(ls, from, i)
           n == i - from + 1
           F(f) == [Part \in SUBSET (1..n) |->
                      IF Part = {} THEN Unread ELSE LineRead(f[Part \ {X!Max(Part)}], sub[X!Max(Part)])]
           f0 == CHOOSE f : f = F(f)
           step == [k \in 1..n |-> [v \in LineState |-> LineRead(v, sub[k])]]
           p == [k \in 0..n |-> f0[1..k]]
<1>0. Len(ls) \in Nat /\ n \in Nat /\ from \in Nat /\ i \in Nat
  BY LenProperties
<1>1. DOMAIN sub = 1..n /\ \A k \in 1..n : sub[k] = ls[from + k - 1] /\ sub[k] \in Seq(Chars)
  <2>1. \A k \in 1..n : from + k - 1 \in 1..Len(ls)
    BY <1>0
  <2>2. \A k \in 1..n : ls[from + k - 1] \in Seq(Chars)
    BY <2>1, ElementOfSeq
  <2>3. sub = [k \in 1..n |-> ls[from + k - 1]]
    BY <1>0, SubSeqProperties
  <2> HIDE DEF sub, n
  <2> QED BY <2>2, <2>3
<1>2. Unread \in LineState
  <2> DEFINE zero == 0
  <2>1. zero \in Nat /\ zero \in Int /\ zero <= zero /\ "code" \in LexPlace
    BY DEF LexPlace
  <2> HIDE DEF zero
  <2>2. [in |-> "code", depth |-> zero, deepest |-> zero] \in LineState
    BY <2>1 DEF LineState, LexState
  <2> QED BY <2>2 DEF Unread, zero
<1>3. \A k \in 1..n, v \in LineState : step[k][v] = LineRead(v, sub[k]) /\ step[k][v] \in LineState
  <2> HIDE DEF sub, n
  <2> QED BY <1>1, LineReads
<1>4. X!Reading(ls, from, i) = f0[1..n]
  BY ONLY <1>1 DEF X!Reading, X!FoldLeft, X!MapThenFoldSet, LineRead, Unread
<1>5. /\ \E f \in [SUBSET (1..n) -> LineState] : FoldedUp(f, n, Unread, step)
      /\ \A k \in 1..n : X!Max(1..k) = k /\ 1..k \in SUBSET (1..n) /\ 1..k # {} /\ (1..k) \ {k} = 1..(k - 1)
      /\ \A Part \in SUBSET (1..n) : Part # {} => X!Max(Part) \in Part
  <2> HIDE DEF step, n
  <2> QED BY <1>0, <1>2, <1>3, FoldsUp
<1>6. PICK f \in [SUBSET (1..n) -> LineState] : FoldedUp(f, n, Unread, step)
  BY <1>5
<1>7. f = F(f)
  <2>1. ASSUME NEW Part \in SUBSET (1..n), Part # {}
        PROVE  step[X!Max(Part)][f[Part \ {X!Max(Part)}]] = LineRead(f[Part \ {X!Max(Part)}], sub[X!Max(Part)])
    <3>1. X!Max(Part) \in 1..n /\ f[Part \ {X!Max(Part)}] \in LineState
      BY <1>5, <1>6, <2>1
    <3> HIDE DEF step, n, sub
    <3> QED BY <1>3, <3>1
  <2> HIDE DEF step, n, sub
  <2> QED BY <1>6, <2>1 DEF FoldedUp
<1>8. f0 = F(f0)
  <2> HIDE DEF F
  <2> QED BY <1>7
<1> HIDE DEF f0, sub
<1>9. p[0] = Unread
  <2>1. f0[{}] = Unread
    BY <1>8
  <2>2. 1..0 = {} /\ 0 \in 0..n
    BY <1>0
  <2> HIDE DEF n
  <2> QED BY <2>1, <2>2
<1> HIDE DEF n
<1>10. \A k \in 1..n : p[k] = LineRead(p[k - 1], sub[k])
  <2> TAKE k \in 1..n
  <2>1. k \in 0..n /\ k - 1 \in 0..n
    BY <1>0
  <2>2. f0[1..k] = LineRead(f0[(1..k) \ {X!Max(1..k)}], sub[X!Max(1..k)])
    BY <1>5, <1>8
  <2> QED BY <1>5, <2>1, <2>2
<1>11. \A k \in 0..n : p[k] \in LineState
  <2> DEFINE G == {k \in 0..n : p[k] \in LineState}
  <2>1. 0 \in G
    BY <1>0, <1>2, <1>9
  <2>2. ASSUME NEW k \in 1..n, k - 1 \in G PROVE k \in G
    <3> HIDE DEF p
    <3>1. p[k] = LineRead(p[k - 1], sub[k]) /\ p[k - 1] \in LineState /\ sub[k] \in Seq(Chars)
      BY <1>1, <1>10, <2>2
    <3>2. p[k] \in LineState
      BY <3>1, LineReads
    <3>3. k \in 0..n
      BY <1>0
    <3> QED BY <3>2, <3>3
  <2> HIDE DEF G, p
  <2>3. 0..n \subseteq G
    BY <1>0, <2>1, <2>2, NumbersUpTo
  <2> QED BY <2>3 DEF G
<1>12. p \in [0..n -> LineState] /\ p[n] = f0[1..n]
  BY <1>0, <1>11
<1> HIDE DEF p
<1>13. Reads(p, ls, from, n)
  BY <1>1, <1>9, <1>10, <1>12 DEF Reads
<1> QED BY <1>4, <1>12, <1>13 DEF n

\* Each reading is the one before it and a line more.
LEMMA ReadingsGrow ==
  ASSUME NEW ls \in Seq(Seq(Chars)), NEW from \in 1..Len(ls)
  PROVE  \E p : /\ Reads(p, ls, from, Len(ls) - from + 1)
                /\ \A i \in from..Len(ls) : X!Reading(ls, from, i) = p[i - from + 1]
<1> DEFINE n == Len(ls)
<1>1. n \in Nat /\ from \in Nat /\ from <= n /\ n \in from..n
  BY LenProperties
<1>2. PICK p : Reads(p, ls, from, n - from + 1)
  BY <1>1, LinesRead
<1>3. ASSUME NEW i \in from..n PROVE X!Reading(ls, from, i) = p[i - from + 1]
  <2>1. PICK r : Reads(r, ls, from, i - from + 1) /\ X!Reading(ls, from, i) = r[i - from + 1]
    BY LinesRead
  <2> DEFINE m == i - from + 1
             G == {k \in 0..m : r[k] = p[k]}
  <2>2. m \in Nat /\ m <= n - from + 1 /\ n - from + 1 \in Nat
    BY <1>1
  <2> HIDE DEF m
  <2>3. 0 \in G
    BY <1>2, <2>1, <2>2 DEF Reads
  <2>4. ASSUME NEW k \in 1..m, k - 1 \in G PROVE k \in G
    <3>1. k \in 1..(n - from + 1) /\ k \in 0..m
      BY <2>2
    <3>2. p[k] = LineRead(p[k - 1], ls[from + k - 1])
      BY <1>2, <3>1 DEF Reads
    <3>3. r[k] = LineRead(r[k - 1], ls[from + k - 1])
      BY <2>1, <3>1 DEF Reads, m
    <3> QED BY <2>4, <3>1, <3>2, <3>3
  <2>5. 0..m \subseteq G
    <3> HIDE DEF G
    <3> QED BY <2>2, <2>3, <2>4, NumbersUpTo
  <2>6. m \in 0..m
    BY <2>2
  <2> QED BY <2>1, <2>5, <2>6 DEF m
<1> QED BY <1>2, <1>3

\* What the slicer's search from line i on should return: the first line that leaves the
\* depth at zero or below, it or an earlier one from b on having left it above; 0 when none does.
OpenedBy(d, b, j, opened) == opened \/ \E k \in b..j : d[k] > 0
FirstClose(d, n, i, opened, c) ==
    /\ c = 0 \/ (c \in i..n /\ OpenedBy(d, i, c, opened) /\ d[c] <= 0)
    /\ \A j \in i..n : c = 0 \/ j < c => ~(OpenedBy(d, i, j, opened) /\ d[j] <= 0)

\* Passing over a line is looking for the first from the next line on.
LEMMA FirstCloseAfter ==
  ASSUME NEW n \in Nat, NEW i \in 1..n, NEW d, \A k \in 1..n : d[k] \in Int, NEW opened \in BOOLEAN, NEW c,
         ~((opened \/ d[i] > 0) /\ d[i] <= 0),
         FirstClose(d, n, i + 1, opened \/ d[i] > 0, c)
  PROVE  FirstClose(d, n, i, opened, c)
<1>1. \A j \in (i + 1)..n : j \in i..n /\ (OpenedBy(d, i, j, opened) <=> OpenedBy(d, i + 1, j, opened \/ d[i] > 0))
  <2> TAKE j \in (i + 1)..n
  <2>1. i..j = {i} \cup ((i + 1)..j) /\ j \in i..n
    OBVIOUS
  <2> QED BY <2>1 DEF OpenedBy
<1>2. ~(OpenedBy(d, i, i, opened) /\ d[i] <= 0)
  <2>1. i..i = {i}
    OBVIOUS
  <2> QED BY <2>1 DEF OpenedBy
<1>3. i..n = {i} \cup ((i + 1)..n)
  OBVIOUS
<1> QED BY <1>1, <1>2, <1>3 DEF FirstClose

\* The search returns that line, from any line at which it stands as the reference does.
LEMMA SearchFinds ==
  ASSUME NEW ls \in Seq(Seq(Chars)), NEW from \in 1..Len(ls),
         NEW p, Reads(p, ls, from, Len(ls) - from + 1),
         NEW d, \A k \in 1..Len(ls) : d[k] \in Int, \A k \in from..Len(ls) : d[k] = p[k - from + 1].depth,
         NEW i \in from..(Len(ls) + 1), NEW q \in X!State, NEW opened \in BOOLEAN, Alike(p[i - from], q)
  PROVE  FirstClose(d, Len(ls), i, opened, X!CloseFrom(ls)[i][q][opened])
<1> DEFINE n == Len(ls)
           close == X!CloseFrom(ls)
           Finds(j) == \A r \in X!State, o \in BOOLEAN : Alike(p[j - from], r) => FirstClose(d, n, j, o, close[j][r][o])
           G == {j \in 1..(n + 1) : j >= from => Finds(j)}
<1>1. n \in Nat /\ n + 1 \in Nat /\ from \in Nat
  BY LenProperties
<1>2. ASSUME NEW j \in 1..(n + 1), \A k \in 1..(n + 1) : k > j => k \in G PROVE j \in G
  <2> SUFFICES ASSUME j >= from, NEW r \in X!State, NEW o \in BOOLEAN, Alike(p[j - from], r)
               PROVE  FirstClose(d, n, j, o, close[j][r][o])
    OBVIOUS
  <2>1. close[j][r][o] = Searched(ls, close, j, r, o)
    BY Searches
  <2> HIDE DEF close
  <2>2. CASE j = n + 1
    <3>1. close[j][r][o] = 0
      BY <1>1, <2>1, <2>2 DEF Searched
    <3>2. j..n = {}
      BY <1>1, <2>2
    <3> HIDE DEF n, G
    <3> QED BY <3>1, <3>2 DEF FirstClose
  <2>3. CASE j # n + 1
    <3> DEFINE after == X!ScanLine(ls[j], r)
               open == o \/ after.depth > 0
    <3>1. /\ j \in 1..n /\ j \in from..n /\ j + 1 \in 1..(n + 1) /\ j + 1 > j /\ j + 1 >= from
          /\ j - from + 1 \in 1..(n - from + 1) /\ j - from \in 0..(n - from + 1)
          /\ (j - from + 1) - 1 = j - from /\ from + (j - from + 1) - 1 = j /\ (j + 1) - from = j - from + 1
          /\ ~(j > n)
      <4>1. j \in Nat /\ j >= 1 /\ j <= n /\ n \in Nat /\ from \in Nat /\ from >= 1 /\ j >= from
        BY <1>1, <2>3
      <4> HIDE DEF n
      <4> QED BY ONLY <4>1
    <3>2. p[j - from] \in LineState /\ p[j - from + 1] = LineRead(p[j - from], ls[j])
      BY <3>1 DEF Reads
    <3>3. ls[j] \in Seq(Chars)
      BY <1>1, <3>1, ElementOfSeq
    <3>4. after \in X!State /\ Alike(p[j - from + 1], after)
      BY <3>2, <3>3, LineAgrees
    <3>5. after.depth = d[j] /\ d[j] \in Int
      BY <3>1, <3>4 DEF Alike
    <3>6. close[j][r][o] = IF open /\ after.depth <= 0 THEN j ELSE close[j + 1][after][open]
      BY <2>1, <3>1 DEF Searched
    <3>7. open = (o \/ d[j] > 0) /\ open \in BOOLEAN
      BY <3>5
    <3> HIDE DEF after, open, G, n
    <3>8. CASE open /\ after.depth <= 0
      <4>1. close[j][r][o] = j
        BY <3>6, <3>8
      <4>2. OpenedBy(d, j, j, o) /\ d[j] <= 0
        <5>1. j..j = {j}
          BY <3>1
        <5> QED BY <3>5, <3>7, <3>8, <5>1 DEF OpenedBy
      <4>3. j # 0 /\ \A k \in j..n : ~(k < j)
        BY <1>1, <3>1
      <4>4. j \in j..n
        BY <1>1, <3>1
      <4> QED BY <4>1, <4>2, <4>3, <4>4 DEF FirstClose
    <3>9. CASE ~(open /\ after.depth <= 0)
      <4>1. close[j][r][o] = close[j + 1][after][open]
        BY <3>6, <3>9
      <4>2. Finds(j + 1)
        <5>1. j + 1 \in G
          BY <1>2, <3>1
        <5> HIDE DEF Finds
        <5> QED BY <3>1, <5>1 DEF G
      <4>3. Alike(p[(j + 1) - from], after)
        BY <3>1, <3>4
      <4>4. FirstClose(d, n, j + 1, open, close[j + 1][after][open])
        BY <3>4, <3>7, <4>2, <4>3
      <4>5. ~((o \/ d[j] > 0) /\ d[j] <= 0)
        BY <3>5, <3>7, <3>9
      <4>6. FirstClose(d, n, j + 1, o \/ d[j] > 0, close[j][r][o])
        BY <3>7, <4>1, <4>4
      <4>7. \A k \in 1..n : d[k] \in Int
        BY DEF n
      <4> HIDE DEF Finds
      <4> QED BY ONLY <1>1, <3>1, <4>5, <4>6, <4>7, FirstCloseAfter, o \in BOOLEAN
    <3> QED BY <3>8, <3>9
  <2> QED BY <2>2, <2>3
<1>3. 1..(n + 1) \subseteq G
  <2> HIDE DEF G, n
  <2> QED BY <1>1, <1>2, NumbersFromAbove
<1>4. i \in G /\ i >= from
  <2>1. i \in 1..(n + 1) /\ i >= from
    BY <1>1
  <2> HIDE DEF G, n
  <2> QED BY <1>3, <2>1
<1>5. Finds(i)
  <2> HIDE DEF Finds
  <2> QED BY <1>4
<1> QED BY <1>5

\* The depth reached never falls from one line to a later one, and bounds the depth at each.
LEMMA DeepestLasts ==
  ASSUME NEW ls \in Seq(Seq(Chars)), NEW from \in 1..Len(ls), NEW n \in Nat, n <= Len(ls) - from + 1,
         NEW p, Reads(p, ls, from, n), NEW j \in 0..n, NEW i \in j..n
  PROVE  /\ p[i] \in LineState /\ p[i].depth \in Int /\ p[i].deepest \in Nat /\ p[j].depth \in Int
         /\ p[i].deepest >= p[j].depth
<1> DEFINE G == {k \in 0..n : k >= j => p[k].deepest >= p[j].deepest}
<1>1. \A k \in 0..n : p[k] \in LineState /\ p[k].depth \in Int /\ p[k].deepest \in Nat /\ p[k].depth <= p[k].deepest
  BY DEF Reads, LineState, LexState
<1>2. 0 \in G
  <2>1. 0 \in 0..n /\ (0 >= j => j = 0)
    OBVIOUS
  <2>2. p[0].deepest >= p[0].deepest
    BY <1>1, <2>1
  <2> QED BY <2>1, <2>2
<1>3. ASSUME NEW k \in 1..n, k - 1 \in G PROVE k \in G
  <2>1. k \in 0..n /\ k - 1 \in 0..n /\ from + k - 1 \in 1..Len(ls)
    BY LenProperties
  <2>2. p[k] = LineRead(p[k - 1], ls[from + k - 1]) /\ ls[from + k - 1] \in Seq(Chars)
    BY <2>1, ElementOfSeq DEF Reads
  <2>3. p[k].deepest >= p[k - 1].deepest
    BY <1>1, <2>1, <2>2, LineReads
  <2>4. CASE k = j
    BY <1>1, <2>1, <2>4
  <2>5. CASE k # j
    <3>1. k >= j => k - 1 >= j
      BY <2>5
    <3> QED BY <1>1, <1>3, <2>1, <2>3, <3>1
  <2> QED BY <2>4, <2>5
<1>4. 0..n \subseteq G
  <2> HIDE DEF G
  <2> QED BY <1>2, <1>3, NumbersUpTo
<1>5. i \in 0..n /\ j \in 0..n /\ i >= j
  OBVIOUS
<1>6. p[i].deepest >= p[j].deepest
  BY <1>4, <1>5
<1> QED BY <1>1, <1>5, <1>6

\* The file that an author types: it keeps the line it began with.
AnchorsInv == file \in Seq(Seq(Chars)) /\ Len(file) >= 1

\* One sole line that carries the anchor is the one a slice starts at.
LEMMA SoleMatch ==
  ASSUME AnchorsInv, NEW start \in X!Matches(file), X!Cardinality(X!Matches(file)) = 1
  PROVE  X!Matches(file) = {start} /\ start \in 1..Len(file)
<1>1. DOMAIN file = 1..Len(file) /\ Len(file) \in Nat
  BY LenProperties DEF AnchorsInv
<1>2. X!Matches(file) \subseteq 1..Len(file)
  BY <1>1 DEF X!Matches
<1>3. \A S : X!Cardinality(S) = Cardinality(S)
  BY DEF X!Cardinality, Cardinality
<1> DEFINE M == X!Matches(file)
<1>4. M \subseteq 1..Len(file) /\ start \in M /\ Cardinality(M) = 1
  BY <1>2, <1>3
<1> HIDE DEF M
<1>5. IsFiniteSet(1..Len(file))
  <2>1. 1 \in Int /\ Len(file) \in Int
    BY <1>1
  <2> QED BY <2>1, FS_Interval
<1>6. IsFiniteSet(M)
  BY <1>4, <1>5, FS_Subset
<1>7. \E x : M = {x}
  BY <1>4, <1>6, FS_Singleton
<1> QED BY <1>4, <1>7 DEF M

\* The least of a set of numbers.
LEMMA LeastOf ==
  ASSUME NEW S \in SUBSET Nat, S # {}
  PROVE  X!Min(S) \in S /\ \A k \in S : X!Min(S) <= k
<1>1. \E x \in S : \A y \in S : x <= y
  BY LeastNat
<1> QED BY <1>1 DEF X!Min

\* The slice that the slicer cuts is the block, when the block outlives a line.
LEMMA SliceShown == AnchorsInv => X!SliceIsItsBlock
<1> SUFFICES ASSUME AnchorsInv, NEW start \in X!Matches(file), X!Cardinality(X!Matches(file)) = 1,
                    \E m \in start..Len(file) :
                        /\ X!Reading(file, start, m).depth > 0
                        /\ X!Closed(file, start) # {} => m < X!Min(X!Closed(file, start))
             PROVE  X!ExtractAnchor(file) = IF X!Closed(file, start) = {} THEN "never closes"
                                            ELSE <<start, X!Min(X!Closed(file, start))>>
  BY DEF X!SliceIsItsBlock
<1> DEFINE n == Len(file)
           closed == X!Closed(file, start)
           begin == [depth |-> 0, inBlockComment |-> FALSE]
           end == X!CloseFrom(file)[start][begin][FALSE]
<1>1. X!Matches(file) = {start} /\ start \in 1..n
  BY SoleMatch
<1>2. n \in Nat /\ file \in Seq(Seq(Chars))
  BY LenProperties DEF AnchorsInv
<1>3. X!ExtractAnchor(file) = IF end = 0 THEN "never closes" ELSE <<start, end>>
  <2>1. X!Matches(file) # {} /\ (CHOOSE i \in X!Matches(file) : TRUE) = start
    BY <1>1
  <2>2. ~(X!Cardinality(X!Matches(file)) > 1)
    OBVIOUS
  <2> QED BY <2>1, <2>2 DEF X!ExtractAnchor
<1>4. PICK p : /\ Reads(p, file, start, n - start + 1)
               /\ \A i \in start..n : X!Reading(file, start, i) = p[i - start + 1]
  BY <1>1, <1>2, ReadingsGrow
<1> DEFINE d == [k \in 1..n |-> IF k \in start..n THEN p[k - start + 1].depth ELSE 0]
           h == [k \in start..n |-> p[k - start + 1].deepest]
<1>5. \A k \in start..n : k \in 1..n /\ k - start + 1 \in 1..(n - start + 1) /\ k - start + 1 \in 0..(n - start + 1)
  BY <1>1, <1>2
<1>6. \A k \in 0..(n - start + 1) : p[k].depth \in Int
  BY <1>4 DEF Reads, LineState, LexState
<1>7. /\ \A k \in 1..n : d[k] \in Int
      /\ \A k \in start..n : /\ d[k] = p[k - start + 1].depth /\ h[k] = p[k - start + 1].deepest
                             /\ X!Reading(file, start, k).depth = d[k]
                             /\ X!Reading(file, start, k).deepest = h[k]
  BY <1>4, <1>5, <1>6
<1>8. \A k \in start..n : \A j \in start..k : h[k] \in Nat /\ d[j] \in Int /\ h[k] >= d[j]
  <2> TAKE k \in start..n
  <2> TAKE j \in start..k
  <2>1. j - start + 1 \in 0..(n - start + 1) /\ k - start + 1 \in (j - start + 1)..(n - start + 1) /\ j \in start..n
    BY <1>1, <1>2
  <2>2. n - start + 1 \in Nat /\ n - start + 1 <= n - start + 1
    BY <1>1, <1>2
  <2>3. /\ p[k - start + 1].deepest \in Nat /\ p[j - start + 1].depth \in Int
        /\ p[k - start + 1].deepest >= p[j - start + 1].depth
    BY <1>1, <1>2, <1>4, <2>1, <2>2, DeepestLasts
  <2> QED BY <1>7, <2>1, <2>3
<1>9. FirstClose(d, n, start, FALSE, end)
  <2>1. begin \in X!State /\ begin.depth = 0 /\ ~begin.inBlockComment
    BY DEF X!State
  <2>2. Alike(p[start - start], begin)
    <3>1. start - start = 0 /\ p[0] = Unread
      BY <1>1, <1>4 DEF Reads
    <3>2. Unread.depth = 0 /\ Unread.in # "block"
      BY DEF Unread
    <3> HIDE DEF begin
    <3> QED BY <2>1, <3>1, <3>2 DEF Alike
  <2>3. start \in start..(n + 1) /\ FALSE \in BOOLEAN
    BY <1>1, <1>2
  <2> HIDE DEF begin, d
  <2> QED BY <1>1, <1>2, <1>4, <1>7, <2>1, <2>2, <2>3, SearchFinds
<1>10. closed = {k \in start..n : h[k] > 0 /\ d[k] <= 0}
  <2>1. closed = {k \in start..n : X!Reading(file, start, k).deepest > 0 /\ X!Reading(file, start, k).depth <= 0}
    BY DEF X!Closed
  <2> HIDE DEF closed, d, h, n
  <2> QED BY <1>7, <2>1
<1>11. PICK m \in start..n : d[m] > 0 /\ (closed # {} => m < X!Min(closed))
  <2> HIDE DEF closed, d
  <2> QED BY <1>7 DEF closed
<1> HIDE DEF closed, d, h, end
<1>12. end # 0 => end \in closed
  <2> SUFFICES ASSUME end # 0 PROVE end \in closed
    OBVIOUS
  <2>1. end \in start..n /\ OpenedBy(d, start, end, FALSE) /\ d[end] <= 0
    BY <1>9 DEF FirstClose
  <2>2. PICK k \in start..end : d[k] > 0
    BY <2>1 DEF OpenedBy
  <2>3. h[end] \in Nat /\ d[k] \in Int /\ h[end] >= d[k]
    BY <1>8, <2>1
  <2>4. h[end] > 0
    BY <2>2, <2>3
  <2> QED BY <1>10, <2>1, <2>4
<1>13. CASE closed = {}
  <2>1. end = 0
    BY <1>12, <1>13
  <2> QED BY <1>3, <1>13, <2>1 DEF closed
<1>14. CASE closed # {}
  <2> DEFINE least == X!Min(closed)
  <2>1. least \in closed /\ \A k \in closed : least <= k
    <3>1. closed \in SUBSET Nat
      BY <1>1, <1>2, <1>10
    <3> QED BY <1>14, <3>1, LeastOf
  <2>2. least \in start..n /\ d[least] <= 0 /\ m \in start..least
    <3>1. least \in start..n /\ d[least] <= 0 /\ m < least
      BY <1>10, <1>11, <1>14, <2>1
    <3> HIDE DEF least
    <3> QED BY <1>1, <1>2, <3>1
  <2> HIDE DEF least
  <2>3. OpenedBy(d, start, least, FALSE)
    BY <1>11, <2>2 DEF OpenedBy
  <2>4. end # 0 /\ ~(least < end)
    BY <1>9, <2>2, <2>3 DEF FirstClose
  <2>5. end \in Nat /\ least \in Nat /\ least <= end
    BY <1>1, <1>2, <1>10, <1>12, <2>1, <2>2, <2>4
  <2>6. end = least
    BY <2>4, <2>5
  <2> QED BY <1>3, <1>14, <2>4, <2>6 DEF closed, least
<1> QED BY <1>13, <1>14 DEF closed

\* The author's file is a file from the start and after every piece typed.
LEMMA AnchorsInit == X!Init => AnchorsInv
<1> SUFFICES ASSUME X!Init PROVE AnchorsInv
  OBVIOUS
<1>1. "A" \in Chars /\ "{" \in Chars
  BY DEF Chars
<1>2. <<"A", "{">> \in Seq(Chars)
  <2>1. \A c, e \in Chars : <<c, e>> \in Seq(Chars)
    OBVIOUS
  <2> QED BY <1>1, <2>1
<1>3. file = << <<"A", "{">> >>
  BY DEF X!Init
<1>4. file \in Seq(Seq(Chars)) /\ Len(file) = 1
  <2> DEFINE first == <<"A", "{">>
  <2> HIDE DEF first
  <2>1. first \in Seq(Chars) /\ file = <<first>>
    BY <1>2, <1>3 DEF first
  <2> QED BY <2>1
<1> QED BY <1>4 DEF AnchorsInv

LEMMA AnchorsStep == AnchorsInv /\ X!Next => AnchorsInv'
<1> SUFFICES ASSUME AnchorsInv, X!Next PROVE AnchorsInv'
  OBVIOUS
<1>1. file \in Seq(Seq(Chars)) /\ Len(file) \in Nat /\ Len(file) \in 1..Len(file)
  BY LenProperties DEF AnchorsInv
<1>2. CASE X!Type
  <2>1. PICK piece \in X!Pieces : file' = [file EXCEPT ![Len(file)] = @ \o piece]
    BY <1>2 DEF X!Type
  <2>2. \A c \in Chars : <<c>> \in Seq(Chars)
    OBVIOUS
  <2>3. \A c, e \in Chars : <<c, e>> \in Seq(Chars)
    OBVIOUS
  <2>4. piece \in Seq(Chars)
    <3>1. /\ "A" \in Chars /\ "q" \in Chars /\ "b" \in Chars /\ "/" \in Chars /\ "*" \in Chars
          /\ "{" \in Chars /\ "}" \in Chars /\ ";" \in Chars
      BY DEF Chars
    <3> QED BY <2>1, <2>2, <2>3, <3>1 DEF X!Pieces
  <2>5. file[Len(file)] \in Seq(Chars)
    BY <1>1, ElementOfSeq
  <2>6. file[Len(file)] \o piece \in Seq(Chars)
    BY <2>4, <2>5, ConcatProperties
  <2>7. file' \in Seq(Seq(Chars)) /\ Len(file') = Len(file)
    BY <1>1, <2>1, <2>6, ExceptSeq
  <2> QED BY <2>7 DEF AnchorsInv
<1>3. CASE X!NewLine
  <2>1. file' = Append(file, <<>>)
    BY <1>3 DEF X!NewLine
  <2>2. <<>> \in Seq(Chars)
    BY EmptySeq
  <2>3. file' \in Seq(Seq(Chars)) /\ Len(file') = Len(file) + 1
    BY <1>1, <2>1, <2>2, AppendProperties
  <2> QED BY <1>1, <2>3 DEF AnchorsInv
<1> QED BY <1>2, <1>3 DEF X!Next

\* The file is left alone by the screens.
LEMMA AnchorsRests ==
  AnchorsInv /\ UNCHANGED anchorsOwn => AnchorsInv'
<1> SUFFICES ASSUME AnchorsInv, UNCHANGED anchorsOwn PROVE AnchorsInv'
  OBVIOUS
<1>1. file' = file
  BY DEF anchorsOwn
<1> QED BY <1>1 DEF AnchorsInv

-----------------------------------------------------------------------------
(* The screens side by side.                                               *)

\* The inductive invariant: the learn flow's, which is at rest on the other screens,
\* and that of the screen that is shown.
ScreensInv ==
    /\ LearnInv
    /\ screen = "account" => AccountInv
    /\ screen = "training" => TrainingInv
    /\ screen = "bridge" => BridgeInv
    /\ screen = "verdict" => VerdictInv
    /\ screen = "demo" => DemoInv
    /\ screen = "anchors" => AnchorsInv

\* Whichever screen is opened, all of them start in their invariants.
LEMMA ScreensStart == ScreensInit => ScreensInv
<1> SUFFICES ASSUME ScreensInit PROVE ScreensInv
  OBVIOUS
<1>1. LearnInv
  <2>1. Init
    BY DEF ScreensInit, NoLearn
  <2> QED BY <2>1, LearnInit
<1>2. N!EpochsConstants
  BY ScreensAssumption
<1>3. screen = "account" => AccountInv
  BY AccountInit DEF ScreensInit
<1>4. screen = "training" => TrainingInv
  BY TrainingInit DEF ScreensInit
<1>5. screen = "bridge" => BridgeInv
  BY BridgeInit DEF ScreensInit
<1>6. screen = "verdict" => VerdictInv
  BY VerdictInit DEF ScreensInit
<1>7. screen = "demo" => DemoInv
  BY <1>2, DemoInit DEF ScreensInit
<1>8. screen = "anchors" => AnchorsInv
  BY AnchorsInit DEF ScreensInit
<1> QED BY <1>1, <1>3, <1>4, <1>5, <1>6, <1>7, <1>8 DEF ScreensInv

\* A step of the open screen keeps its invariant, and the others rest.
LEMMA ScreensStep == ScreensInv /\ [ScreensNext]_screensVars => ScreensInv'
<1> SUFFICES ASSUME ScreensInv, [ScreensNext]_screensVars PROVE ScreensInv'
  OBVIOUS
<1>1. screen' = screen
  BY DEF ScreensNext, screensVars
<1>2. LearnInv'
  <2>1. (LearnInv /\ Next) \/ (LearnInv /\ UNCHANGED vars)
    BY DEF ScreensInv, ScreensNext, screensVars
  <2> QED BY <2>1, LearnStep, LearnRests
<1>3. ASSUME screen = "account" PROVE AccountInv'
  <2>1. A!Next \/ UNCHANGED <<accountOwn, mount, flight, lost>>
    BY <1>3 DEF ScreensNext, screensVars, shared
  <2> QED BY <1>3, <2>1, AccountStep, AccountRests DEF ScreensInv
<1>4. ASSUME screen = "training" PROVE TrainingInv'
  <2>1. T!Next \/ UNCHANGED <<trainingOwn, shared>>
    BY <1>4 DEF ScreensNext, screensVars
  <2> QED BY <1>4, <2>1, TrainingStep, TrainingRests DEF ScreensInv
<1>5. ASSUME screen = "bridge" PROVE BridgeInv'
  <2>1. B!Next \/ UNCHANGED <<bridgeOwn, flight, lost, jobs>>
    BY <1>5 DEF ScreensNext, screensVars, shared
  <2> QED BY <1>5, <2>1, BridgeStep, BridgeRests DEF ScreensInv
<1>6. ASSUME screen = "verdict" PROVE VerdictInv'
  <2>1. V!Next \/ UNCHANGED <<verdictOwn, loading, error, flight>>
    BY <1>6 DEF ScreensNext, screensVars, shared, jobs
  <2> QED BY <1>6, <2>1, VerdictStep, VerdictRests DEF ScreensInv
<1>7. ASSUME screen = "demo" PROVE DemoInv'
  <2>1. N!Next \/ UNCHANGED demoOwn
    BY <1>7 DEF ScreensNext, screensVars
  <2>2. N!EpochsConstants
    BY ScreensAssumption
  <2> QED BY <1>7, <2>1, <2>2, DemoStep, DemoRests DEF ScreensInv
<1>8. ASSUME screen = "anchors" PROVE AnchorsInv'
  <2>1. X!Next \/ UNCHANGED anchorsOwn
    BY <1>8 DEF ScreensNext, screensVars
  <2> QED BY <1>8, <2>1, AnchorsStep, AnchorsRests DEF ScreensInv
<1> QED BY <1>1, <1>2, <1>3, <1>4, <1>5, <1>6, <1>7, <1>8 DEF ScreensInv

\* What is seen of it on each screen.
LEMMA ScreensShow ==
  ScreensInv => /\ TypesOK /\ FormsTellTheTruth /\ RestingRowsAreTrue /\ PagesFollowRoutes
                /\ FinishIsAnnounced /\ OneFrameLoop /\ LinksShowSomething /\ LogNeverFreezes /\ SliceIsItsBlock
<1> SUFFICES ASSUME ScreensInv
             PROVE  /\ TypesOK /\ FormsTellTheTruth /\ RestingRowsAreTrue /\ PagesFollowRoutes
                    /\ FinishIsAnnounced /\ OneFrameLoop /\ LinksShowSomething /\ LogNeverFreezes /\ SliceIsItsBlock
  OBVIOUS
<1>1. TypeOK /\ OneFrameLoop /\ LinksShowSomething
  BY LearnTyped, LearnShows DEF ScreensInv, LearnInv
<1>2. screen = "account" => A!TypeOK /\ A!OutcomeIsTrue /\ A!NoZombie
  BY AccountShows DEF ScreensInv
<1>3. screen = "training" =>
        T!TypeOK /\ T!RestingRowsAreTrue /\ T!ShownModelIsCurrent /\ T!DefaultsFollowDataset
  BY TrainingShows DEF ScreensInv
<1>4. screen = "bridge" => B!TypeOK /\ B!FinishIsAnnounced /\ B!AnnouncedIsReady /\ B!AnnouncedIsListed
  BY BridgeShows DEF ScreensInv
<1>5. screen = "verdict" => V!TypeOK /\ V!VerdictFollowsLink /\ V!PageAgreesWithItself
  BY VerdictShows DEF ScreensInv, VerdictInv
<1>6. screen = "demo" => N!LogNeverFreezes
  BY DEF ScreensInv, DemoInv
<1>7. TypesOK /\ PagesFollowRoutes
  BY <1>1, <1>2, <1>3, <1>4, <1>5 DEF TypesOK, PagesFollowRoutes
<1>8. FormsTellTheTruth /\ RestingRowsAreTrue
  BY <1>2, <1>3 DEF FormsTellTheTruth, RestingRowsAreTrue
<1>9. FinishIsAnnounced /\ LogNeverFreezes
  BY <1>4, <1>6 DEF FinishIsAnnounced, LogNeverFreezes
<1>10. SliceIsItsBlock
  BY SliceShown DEF ScreensInv, SliceIsItsBlock
<1> QED BY <1>1, <1>7, <1>8, <1>9, <1>10

\* The inductive invariant of all screens.
LEMMA ScreensInvariant == ScreensSpec => []ScreensInv
  BY ScreensStart, ScreensStep, PTL DEF ScreensSpec

\* Every variable of the screen that is shown has its type, for any number of mounts,
\* moves, polls, runs and events.
THEOREM TypesAreCorrect == ScreensSpec => []TypesOK
  BY ScreensInvariant, ScreensShow, PTL

\* A form that has stopped working tells the truth about its last submission, although
\* StrictMode runs its effects twice, and nobody stays signed in after a new password or
\* a deletion (PasswordReset.tsx, VerifyEmail.tsx, Account.tsx).
THEOREM FormsAreTruthful == ScreensSpec => []FormsTellTheTruth
  BY ScreensInvariant, ScreensShow, PTL

\* The job list never comes to rest on rows that are wrong (Training.tsx).
THEOREM RowsComeToRest == ScreensSpec => []RestingRowsAreTrue
  BY ScreensInvariant, ScreensShow, PTL

\* A model's page, its form and a verdict's page settle on what their route names, and a
\* verdict's page does not contradict itself (TrainingModel.tsx, BridgeVerdict.tsx).
THEOREM PagesAreTheirRoutes == ScreensSpec => []PagesFollowRoutes
  BY ScreensInvariant, ScreensShow, PTL

\* A finished search never just vanishes; what is announced can be opened and is in both
\* lists once they have been loaded (Bridge.tsx).
THEOREM FinishesAreAnnounced == ScreensSpec => []FinishIsAnnounced
  BY ScreensInvariant, ScreensShow, PTL

\* The walkthrough runs one animation-frame loop while it plays and none while it does
\* not (useTimeline.ts).
THEOREM OneLoopRuns == ScreensSpec => []OneFrameLoop
  BY ScreensInvariant, ScreensShow, PTL

\* A link into the learn flow shows the chapter that it names, and a page that has
\* something to show (Walkthrough.tsx, AbstractionPage.tsx).
THEOREM LinksLand == ScreensSpec => []LinksShowSomething
  BY ScreensInvariant, ScreensShow, PTL

\* The landing page's log never freezes while it says running (NeuronDemo.tsx).
THEOREM LogRunsOn == ScreensSpec => []LogNeverFreezes
  BY ScreensInvariant, ScreensShow, PTL

\* Of a file of any number of lines of any length, whose one anchor starts a block that
\* outlives a line, the slice is that line to the one that closes the block, whatever its
\* comments and literals hold; without a closing line there is no slice (anchors.ts).
THEOREM SlicesAreBlocks == ScreensSpec => []SliceIsItsBlock
  BY ScreensInvariant, ScreensShow, PTL

=============================================================================
