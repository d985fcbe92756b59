-------------------------- MODULE BridgePartsProofs --------------------------
(***************************************************************************)
(* Proofs about the bridge's spending, its feasibility assessments and the *)
(* recent searches, for any number of users, requests, executors, runs,    *)
(* datasets, searches and transactions, any prices, limits and caps.       *)
(*                                                                         *)
(* Spending.  IInv says who holds which row and what it has been charged;  *)
(* StakeOK bounds what the rows of the day show and what the runs and      *)
(* requests under way can still add.  Every step but a request that passes *)
(* the cap's test leaves what is at stake or lowers it, and that request   *)
(* passes below the cap, when few rows are open (OneActiveEach).           *)
(*                                                                         *)
(* Assessments.  RunOK is an account of a run's candidates, place by       *)
(* place: each is rejected by a gate, left uninspected, still to be judged *)
(* or a survivor, and none is two of these (Left, UnderWay).  What a stage *)
(* does to the lists is a lemma about it (RunGatesHolds, ProbeAllHolds,    *)
(* ExtendedHolds); ArtefactHolds reads the verdict off the account.        *)
(*                                                                         *)
(* Recent searches.  RowsAreAsked says why a search has no row: there are  *)
(* enough newer ones.  NeverLong counts the rows that any set of deletes   *)
(* already under way will leave: a commit turns a set into a larger one.   *)
(*                                                                         *)
(* Induction over data is over a well-founded order or a set of numbers    *)
(* (LeastNat, SmallestSubset, NumbersUpTo): the folds and the recursive    *)
(* functions of the model are shown to be the functions they define.       *)
(***************************************************************************)
EXTENDS BridgeParts, FiniteSetTheorems, WellFoundedInduction, SequenceTheorems, TLAPS

\* Of some natural numbers one is the least.
LEMMA LeastNat ==
  ASSUME NEW Bad \in SUBSET Nat, Bad # {}
  PROVE  \E n \in Bad : \A k \in Bad : n <= k
<1>1. PICK n \in Bad : \A k \in Bad : ~(<<k, n>> \in OpToRel(<, Nat))
  BY NatLessThanWellFounded, WFMin
<1>2. \A k \in Bad : ~(k < n)
  BY <1>1 DEF OpToRel
<1> QED BY <1>2

\* Of some subsets of a finite set one has no smaller one among them.
LEMMA SmallestSubset ==
  ASSUME NEW S, IsFiniteSet(S), NEW Bad \in SUBSET SUBSET S, Bad # {}
  PROVE  \E U \in Bad : \A V \in Bad : ~(V \subseteq U /\ V # U)
<1>1. IsWellFoundedOn(StrictSubsetOrdering(S), FiniteSubsetsOf(S))
  BY FS_StrictSubsetOrderingWellFounded
<1>2. FiniteSubsetsOf(S) = SUBSET S
  BY FS_FiniteSubsetsOfFinite
<1>3. \E U \in Bad : \A V \in Bad : ~(<<V, U>> \in StrictSubsetOrdering(S))
  <2> HIDE DEF StrictSubsetOrdering
  <2> QED BY <1>1, <1>2, WFMin
<1>4. PICK U \in Bad : \A V \in Bad : ~(<<V, U>> \in StrictSubsetOrdering(S))
  BY <1>3
<1>5. \A V \in Bad : ~(V \subseteq U /\ V # U)
  BY <1>4 DEF StrictSubsetOrdering
<1> QED BY <1>4, <1>5

\* What MapThenFoldSet computes: choice says which element of a set is taken next, and
\* step what it does.
Folds(fold, S, base, choice, step) ==
    fold = [T \in SUBSET S |->
               IF T = {} THEN base ELSE step[choice[T]][fold[T \ {choice[T]}]]]

\* A fold over a finite set exists: what MapThenFoldSet chooses is there to be chosen.
LEMMA FoldExists ==
  ASSUME NEW S, IsFiniteSet(S), NEW Val, NEW base \in Val,
         NEW choice, \A T \in SUBSET S : T # {} => choice[T] \in T,
         NEW step, \A x \in S, v \in Val : step[x][v] \in Val
  PROVE  \E fold : Folds(fold, S, base, choice, step) /\ fold \in [SUBSET S -> Val]
<1> DEFINE Upto(n) == {T \in SUBSET S : Cardinality(T) <= n}
           Rest(T) == T \ {choice[T]}
           IsFold(f, n) == f \in [Upto(n) -> Val] /\ \A T \in Upto(n) :
                             f[T] = IF T = {} THEN base ELSE step[choice[T]][f[Rest(T)]]
           Bad == {n \in Nat : ~\E f : IsFold(f, n)}
<1>0. ASSUME NEW T \in SUBSET S
      PROVE  /\ IsFiniteSet(T) /\ Cardinality(T) \in Nat /\ Cardinality(T) <= Cardinality(S)
             /\ T # {} => Rest(T) \in SUBSET S /\ Cardinality(Rest(T)) = Cardinality(T) - 1
             /\ Cardinality(T) <= 0 <=> T = {}
  <2>1. IsFiniteSet(T) /\ Cardinality(T) \in Nat /\ Cardinality(T) <= Cardinality(S)
    BY FS_Subset, FS_CardinalityType
  <2>2. Cardinality(T) = 0 <=> T = {}
    BY <2>1, FS_EmptySet
  <2>3. T # {} => Rest(T) \in SUBSET S /\ Cardinality(Rest(T)) = Cardinality(T) - 1
    BY <2>1, FS_RemoveElement
  <2> QED BY <2>1, <2>2, <2>3
<1>1. \E f : IsFold(f, 0)
  <2> DEFINE f == [T \in Upto(0) |-> base]
  <2>1. \A T \in Upto(0) : T = {}
    BY <1>0
  <2>2. IsFold(f, 0)
    BY <2>1
  <2> QED BY <2>2
<1>2. ASSUME NEW n \in Nat, NEW g, IsFold(g, n) PROVE \E f : IsFold(f, n + 1)
  <2> DEFINE f == [T \in Upto(n + 1) |-> IF T \in Upto(n) THEN g[T] ELSE step[choice[T]][g[Rest(T)]]]
  <2>1. ASSUME NEW T \in Upto(n + 1), T # {} PROVE Rest(T) \in Upto(n) /\ choice[T] \in S
    <3>1. /\ Cardinality(T) \in Nat /\ Cardinality(T) <= n + 1
          /\ Rest(T) \in SUBSET S /\ Cardinality(Rest(T)) = Cardinality(T) - 1
      BY <1>0, <2>1
    <3> QED BY <2>1, <3>1
  <2>2. {} \in Upto(n) /\ Upto(n) \subseteq Upto(n + 1)
    <3>1. Cardinality({}) <= n
      BY FS_EmptySet
    <3>2. ASSUME NEW T \in Upto(n) PROVE T \in Upto(n + 1)
      <4>1. Cardinality(T) \in Nat
        BY <1>0
      <4> QED BY <4>1
    <3> QED BY <3>1, <3>2
  <2>3. ASSUME NEW T \in Upto(n + 1)
        PROVE  f[T] \in Val /\ f[T] = IF T = {} THEN base ELSE step[choice[T]][f[Rest(T)]]
    <3>1. CASE T = {}
      BY <1>2, <2>2, <3>1
    <3>2. CASE T # {}
      <4>1. Rest(T) \in Upto(n) /\ choice[T] \in S /\ f[Rest(T)] = g[Rest(T)] /\ g[Rest(T)] \in Val
        BY <1>2, <2>1, <2>2, <3>2
      <4>2. f[T] = step[choice[T]][g[Rest(T)]]
        BY <1>2, <2>2, <3>2
      <4> QED BY <3>2, <4>1, <4>2
    <3> QED BY <3>1, <3>2
  <2>4. f \in [Upto(n + 1) -> Val]
    BY <2>3
  <2> HIDE DEF f
  <2> QED BY <2>3, <2>4
<1>3. ASSUME Bad # {} PROVE FALSE
  <2>1. PICK n \in Bad : \A k \in Bad : n <= k
    <3>1. Bad \in SUBSET Nat
      OBVIOUS
    <3> HIDE DEF Bad
    <3> QED BY <1>3, <3>1, LeastNat
  <2>2. n \in Nat /\ ~\E f : IsFold(f, n)
    BY <2>1
  <2> HIDE DEF IsFold
  <2>3. n # 0
    BY <1>1, <2>2
  <2>4. n - 1 \in Nat /\ \E f : IsFold(f, n - 1)
    BY <2>1, <2>2, <2>3
  <2>5. \E f : IsFold(f, (n - 1) + 1)
    BY <2>4, <1>2
  <2>6. (n - 1) + 1 = n
    BY <2>2
  <2> QED BY <2>2, <2>5, <2>6
<1>4. Cardinality(S) \in Nat
  BY <1>0
<1>5. PICK f : IsFold(f, Cardinality(S))
  BY <1>3, <1>4
<1>6. Upto(Cardinality(S)) = SUBSET S
  BY <1>0
<1>7. f = [T \in SUBSET S |-> IF T = {} THEN base ELSE step[choice[T]][f[Rest(T)]]]
  BY <1>5, <1>6
<1>8. f \in [SUBSET S -> Val]
  BY <1>5, <1>6
<1> QED BY <1>7, <1>8 DEF Folds

\* The sum of the costs of the rows in S, the next row to add, and how the sum unfolds.
Total(j, S) == MapThenSumSet(LAMBDA r : j[r].cost, S)
Pick(S) == CHOOSE r \in S : TRUE
Unfolds(f, j, S) ==
    \A T \in SUBSET S :
        /\ f[T] \in Nat
        /\ f[T] = IF T = {} THEN 0 ELSE j[Pick(T)].cost + f[T \ {Pick(T)}]

\* A sum over a finite set is what its recursion says.
LEMMA TotalUnfolds ==
  ASSUME NEW S, IsFiniteSet(S), NEW j, \A r \in S : j[r].cost \in Nat
  PROVE  \E f : Total(j, S) = f[S] /\ Unfolds(f, j, S)
<1> DEFINE F(f) == [T \in SUBSET S |-> IF T = {} THEN 0 ELSE j[Pick(T)].cost + f[T \ {Pick(T)}]]
           f0 == CHOOSE f : f = F(f)
           choice == [T \in SUBSET S |-> Pick(T)]
           step == [x \in S |-> [v \in Nat |-> j[x].cost + v]]
<1>0. \A T \in SUBSET S : T # {} => Pick(T) \in T
  BY DEF Pick
<1>1. PICK f : Folds(f, S, 0, choice, step) /\ f \in [SUBSET S -> Nat]
  <2>1. \A T \in SUBSET S : T # {} => choice[T] \in T
    BY <1>0
  <2>2. \A x \in S, v \in Nat : step[x][v] \in Nat
    OBVIOUS
  <2> HIDE DEF choice, step
  <2>3. 0 \in Nat
    OBVIOUS
  <2> QED BY <2>1, <2>2, <2>3, FoldExists
<1>2. ASSUME NEW T \in SUBSET S, T # {}
      PROVE  step[choice[T]][f[T \ {choice[T]}]] = j[Pick(T)].cost + f[T \ {Pick(T)}]
  <2>1. choice[T] = Pick(T) /\ Pick(T) \in S
    BY <1>0, <1>2
  <2>2. f[T \ {Pick(T)}] \in Nat
    BY <1>1
  <2> QED BY <2>1, <2>2
<1>3. f = F(f)
  <2> HIDE DEF choice, step
  <2> QED BY <1>1, <1>2 DEF Folds
<1>4. f0 = F(f0)
  <2> HIDE DEF F
  <2> QED BY <1>3
<1>5. Total(j, S) = f0[S]
  BY DEF Total, MapThenSumSet, MapThenFoldSet, Pick
<1> HIDE DEF f0
<1>6. \A T \in SUBSET S : f0[T] = IF T = {} THEN 0 ELSE j[Pick(T)].cost + f0[T \ {Pick(T)}]
  BY <1>4
<1>7. \A T \in SUBSET S : f0[T] \in Nat
  <2> DEFINE Bad == {T \in SUBSET S : f0[T] \notin Nat}
  <2>1. ASSUME Bad # {} PROVE FALSE
    <3>1. PICK T \in Bad : \A V \in Bad : ~(V \subseteq T /\ V # T)
      <4>1. Bad \in SUBSET SUBSET S
        OBVIOUS
      <4> HIDE DEF Bad
      <4> QED BY <2>1, <4>1, SmallestSubset
    <3>2. T \in SUBSET S /\ f0[T] \notin Nat
      BY <3>1
    <3>3. T # {} /\ Pick(T) \in T
      <4>1. f0[{}] = 0
        BY <1>6
      <4>2. T # {}
        BY <3>2, <4>1
      <4> QED BY <1>0, <3>2, <4>2
    <3>4. T \ {Pick(T)} \in SUBSET S /\ T \ {Pick(T)} \notin Bad
      BY <3>1, <3>2, <3>3
    <3>5. f0[T \ {Pick(T)}] \in Nat
      BY <3>4
    <3>6. j[Pick(T)].cost \in Nat
      BY <3>2, <3>3
    <3>7. f0[T] = j[Pick(T)].cost + f0[T \ {Pick(T)}]
      BY <1>6, <3>2, <3>3
    <3>8. f0[T] \in Nat
      BY <3>5, <3>6, <3>7
    <3> QED BY <3>2, <3>8
  <2> QED BY <2>1
<1> QED BY <1>5, <1>6, <1>7 DEF Unfolds

\* What is more by M at most, and that only on the rows in O, sums up to more by M
\* at most for each of them.
LEMMA TotalWithin ==
  ASSUME NEW S, IsFiniteSet(S), NEW M \in Nat, NEW O,
         NEW j, \A r \in S : j[r].cost \in Nat,
         NEW k, \A r \in S : k[r].cost \in Nat,
         \A r \in S : k[r].cost <= j[r].cost + (IF r \in O THEN M ELSE 0)
  PROVE  /\ Total(j, S) \in Nat /\ Total(k, S) \in Nat
         /\ Cardinality(O \cap S) \in Nat
         /\ Total(k, S) <= Total(j, S) + M * Cardinality(O \cap S)
<1>1. PICK f : Total(j, S) = f[S] /\ Unfolds(f, j, S)
  BY TotalUnfolds
<1>2. PICK g : Total(k, S) = g[S] /\ Unfolds(g, k, S)
  BY TotalUnfolds
<1> DEFINE n(T) == Cardinality(O \cap T)
           Bad == {T \in SUBSET S : ~(g[T] <= f[T] + M * n(T))}
<1>3. \A T \in SUBSET S : IsFiniteSet(O \cap T) /\ n(T) \in Nat
  BY FS_Subset, FS_Intersection, FS_CardinalityType
<1>4. ASSUME Bad # {} PROVE FALSE
  <2>1. PICK T \in Bad : \A V \in Bad : ~(V \subseteq T /\ V # T)
    <3>1. Bad \in SUBSET SUBSET S
      OBVIOUS
    <3> HIDE DEF Bad
    <3> QED BY <1>4, <3>1, SmallestSubset
  <2>2. T \in SUBSET S /\ ~(g[T] <= f[T] + M * n(T))
    BY <2>1
  <2>3. n(T) \in Nat /\ f[T] \in Nat /\ g[T] \in Nat
    BY <1>1, <1>2, <1>3, <2>2 DEF Unfolds
  <2>4. M * n(T) \in Nat
    BY <2>3
  <2>5. T # {}
    <3>1. f[{}] = 0 /\ g[{}] = 0
      BY <1>1, <1>2 DEF Unfolds
    <3>2. CASE T = {}
      <4>1. ~(0 <= 0 + M * n(T))
        BY <2>2, <3>1, <3>2
      <4> HIDE DEF n
      <4> QED BY <2>4, <4>1
    <3> QED BY <3>2
  <2> DEFINE x == Pick(T)
             V == T \ {x}
  <2>6. x \in T /\ x \in S /\ V \in SUBSET S
    BY <2>2, <2>5 DEF Pick
  <2>7. V \notin Bad
    BY <2>1, <2>6
  <2>8. g[V] <= f[V] + M * n(V)
    BY <2>6, <2>7
  <2>9. /\ f[T] = j[x].cost + f[V] /\ g[T] = k[x].cost + g[V]
        /\ f[V] \in Nat /\ g[V] \in Nat
    BY <1>1, <1>2, <2>2, <2>5, <2>6 DEF Unfolds
  <2>10. /\ n(V) \in Nat
         /\ n(T) = n(V) + (IF x \in O THEN 1 ELSE 0)
    <3>1. O \cap V = (O \cap T) \ {x}
      OBVIOUS
    <3>2. IsFiniteSet(O \cap T)
      BY <1>3, <2>2
    <3>3. n(V) = IF x \in O \cap T THEN n(T) - 1 ELSE n(T)
      BY <3>1, <3>2, FS_RemoveElement
    <3>4. n(V) \in Nat
      BY <1>3, <2>6
    <3> QED BY <2>3, <2>6, <3>3, <3>4
  <2>11. M * n(T) = M * n(V) + (IF x \in O THEN M ELSE 0) /\ M * n(V) \in Nat
    BY <2>10
  <2>12. k[x].cost \in Nat /\ j[x].cost \in Nat /\ k[x].cost <= j[x].cost + (IF x \in O THEN M ELSE 0)
    BY <2>6
  <2> HIDE DEF n, x, V
  <2> QED BY <2>2, <2>3, <2>8, <2>9, <2>11, <2>12
<1>5. g[S] <= f[S] + M * n(S)
  BY <1>4
<1>6. f[S] \in Nat /\ g[S] \in Nat /\ n(S) \in Nat
  BY <1>1, <1>2, <1>3 DEF Unfolds
<1> QED BY <1>1, <1>2, <1>5, <1>6

\* The division with remainder by which Rounded is defined.
LEMMA Quotient ==
  ASSUME BridgeSpendConstants, NEW x \in Nat
  PROVE  /\ x \div Grain \in Nat /\ x % Grain \in 0..(Grain - 1)
         /\ x = Grain * (x \div Grain) + (x % Grain)
  BY DEF BridgeSpendConstants

\* The column's rounding (Numeric(8, 4)) errs by half a Grain at most.
LEMMA Rounding ==
  ASSUME BridgeSpendConstants, NEW x \in Nat
  PROVE  /\ Rounded(x) \in Nat
         /\ 2 * (Rounded(x) - x) <= Grain
         /\ 2 * (x - Rounded(x)) <= Grain
<1> DEFINE m == x % Grain
           q == x \div Grain
<1>1. Grain \in Nat \ {0} /\ q \in Nat /\ m \in 0..(Grain - 1) /\ x = Grain * q + m
  BY Quotient DEF BridgeSpendConstants
<1>2. Rounded(x) = IF 2 * m < Grain THEN x - m ELSE x - m + Grain
  BY DEF Rounded
<1>3. Grain * q \in Nat
  BY <1>1
<1> HIDE DEF m, q
<1>4. m <= x
  BY <1>1, <1>3
<1> QED
  BY <1>1, <1>2, <1>4

\* Rounding keeps the order: more is never shown as less.
LEMMA RoundingIsMonotonic ==
  ASSUME BridgeSpendConstants, NEW x \in Nat, NEW y \in Nat, x <= y
  PROVE  Rounded(x) <= Rounded(y)
<1> DEFINE a == x % Grain
           p == x \div Grain
           b == y % Grain
           q == y \div Grain
<1>1. /\ Grain \in Nat \ {0} /\ p \in Nat /\ a \in 0..(Grain - 1) /\ x = Grain * p + a
      /\ q \in Nat /\ b \in 0..(Grain - 1) /\ y = Grain * q + b
  BY Quotient DEF BridgeSpendConstants
<1>2. /\ Rounded(x) = IF 2 * a < Grain THEN x - a ELSE x - a + Grain
      /\ Rounded(y) = IF 2 * b < Grain THEN y - b ELSE y - b + Grain
  BY DEF Rounded
<1> HIDE DEF a, b, p, q
<1>3. Grain * p \in Nat /\ Grain * q \in Nat
  BY <1>1
<1>4. CASE p = q
  <2>1. a <= b
    BY <1>1, <1>3, <1>4
  <2> QED
    BY <1>1, <1>2, <1>3, <1>4, <2>1
<1>5. CASE p < q
  <2>1. Grain * (p + 1) <= Grain * q
    BY <1>1, <1>5
  <2>2. Grain * (p + 1) = Grain * p + Grain
    BY <1>1
  <2> QED
    BY <1>1, <1>2, <1>3, <2>1, <2>2
<1>6. CASE q < p
  <2>1. Grain * (q + 1) <= Grain * p
    BY <1>1, <1>6
  <2>2. Grain * (q + 1) = Grain * q + Grain
    BY <1>1
  <2> QED
    BY <1>1, <1>3, <2>1, <2>2
<1> QED
  BY <1>1, <1>4, <1>5, <1>6

----------------------------------------------------------------------------
\* An idle executor holds no run, a busy one a run that was claimed.
ExecutorsOK ==
    \A e \in Executor :
        /\ At(e, "idle") <=> exec[e].run = None
        /\ exec[e].run # None => job[exec[e].run].status \notin {"unborn", "queued"}

\* A run has one executor.
OneExecutor ==
    \A e \in Executor, f \in Executor :
        e # f /\ exec[e].run = exec[f].run => exec[e].run = None

\* Only what was asked for is somebody's.
OwnersOK == \A r \in Run : job[r].status = "unborn" => job[r].user = None

\* A call is under way only below the ceiling, and its executor knows the row's cost.
CallsOK ==
    \A e \in Executor : At(e, "calling") =>
        /\ exec[e].seen < Ceiling
        /\ Exists(exec[e].run) => exec[e].seen = job[exec[e].run].cost

\* Nothing was wasted on a run that waits or still has its executor.
NoWasteYet ==
    /\ \A r \in Run : job[r].status \in {"unborn", "queued"} => job[r].wasted = 0
    /\ \A e \in Executor : exec[e].run # None => job[exec[e].run].wasted = 0

\* The inductive invariant.
IInv ==
    /\ BridgeSpendConstants /\ TypeOK
    /\ OwnersOK /\ ExecutorsOK /\ OneExecutor /\ CallsOK /\ NoWasteYet
    /\ CeilingHolds /\ LedgerIsTrue

----------------------------------------------------------------------------
\* The most a row can show is a number.
LEMMA MostIsNat == ASSUME BridgeSpendConstants PROVE MostOfARun \in Nat
<1>1. Ceiling - 1 + MaxCall \in Nat
  BY DEF BridgeSpendConstants
<1> QED
  BY <1>1, Rounding DEF MostOfARun

\* The invariant holds of the empty table.
LEMMA InitInv == ASSUME BridgeSpendConstants, Init PROVE IInv
<1>1. TypeOK
  BY DEF Init, TypeOK, Row, Hold, NoJob, Idle, Active
<1>2. OwnersOK /\ ExecutorsOK /\ OneExecutor /\ CallsOK /\ NoWasteYet
  BY DEF Init, OwnersOK, ExecutorsOK, OneExecutor, CallsOK, NoWasteYet, At, Idle, NoJob
<1>3. CeilingHolds
  BY MostIsNat DEF Init, CeilingHolds, NoJob
<1>4. LedgerIsTrue
  BY DEF Init, LedgerIsTrue, NoJob, BridgeSpendConstants
<1> QED
  BY <1>1, <1>2, <1>3, <1>4 DEF IInv

\* What only ends rows, or asks for a new one, leaves the accounts alone.
LEMMA AccountsUntouched ==
  ASSUME IInv, TypeOK', UNCHANGED exec,
         \A r \in Run :
            \/ job'[r] = job[r]
            \/ /\ Exists(r) /\ job'[r].status = "over"
               /\ job'[r].cost = job[r].cost /\ job'[r].calls = job[r].calls
               /\ job'[r].price = job[r].price /\ job'[r].wasted = job[r].wasted
            \/ /\ job[r].status = "unborn" /\ job'[r].status = "queued"
               /\ job'[r].cost = 0 /\ job'[r].calls = 0
               /\ job'[r].price = 0 /\ job'[r].wasted = 0
            \/ job'[r] = Gone /\ job[r].status # "unborn"
  PROVE  IInv'
<1>1. ExecutorsOK' /\ OneExecutor'
  BY DEF IInv, TypeOK, Row, Hold, ExecutorsOK, OneExecutor, At, Exists, Active, Gone, NoJob
<1>2. CallsOK'
  BY DEF IInv, TypeOK, Row, Hold, ExecutorsOK, CallsOK, At, Exists, Active, Gone, NoJob
<1>3. NoWasteYet'
  BY DEF IInv, TypeOK, Row, Hold, ExecutorsOK, NoWasteYet, Exists, Active, Gone, NoJob
<1>4. CeilingHolds'
  BY MostIsNat DEF IInv, CeilingHolds, MostOfARun, Rounded, Gone, NoJob
<1>5. LedgerIsTrue'
  BY DEF IInv, TypeOK, Row, LedgerIsTrue, Gone, NoJob, BridgeSpendConstants
<1>6. OwnersOK'
  BY DEF IInv, OwnersOK, Exists, Active, Gone, NoJob
<1> QED
  BY <1>1, <1>2, <1>3, <1>4, <1>5, <1>6 DEF IInv, BridgeSpendConstants

----------------------------------------------------------------------------
\* An executor that leaves its run, with a call wasted or without.
LEMMA Leaving ==
  ASSUME IInv, TypeOK', NEW e \in Executor, ~At(e, "idle"),
         exec' = [exec EXCEPT ![e] = Idle],
         \A r \in Run :
            \/ job'[r] = job[r]
            \/ /\ r = exec[e].run /\ Exists(r)
               /\ job'[r].status \in {"over", job[r].status}
               /\ job'[r].cost = job[r].cost /\ job'[r].calls = job[r].calls
               /\ job'[r].price = job[r].price
               /\ job'[r].wasted \in {job[r].wasted, job[r].wasted + 1}
  PROVE  IInv'
<1>1. PICK r0 \in Run : exec[e].run = r0
  BY DEF IInv, TypeOK, Hold, ExecutorsOK
<1>2. /\ exec'[e].pc = "idle" /\ exec'[e].run = None
      /\ \A f \in Executor : f # e => exec'[f] = exec[f]
  BY DEF IInv, TypeOK, Hold, Idle
<1>3. /\ job[r0].status \notin {"unborn", "queued"} /\ job[r0].wasted = 0
      /\ None \notin Run
  BY <1>1 DEF IInv, ExecutorsOK, NoWasteYet, BridgeSpendConstants, Run
<1>4. \A r \in Run : r # r0 => job'[r] = job[r]
  BY <1>1
<1>5. /\ job'[r0].status \notin {"unborn", "queued"} /\ job'[r0].cost = job[r0].cost
      /\ job'[r0].calls = job[r0].calls /\ job'[r0].price = job[r0].price
      /\ job'[r0].wasted \in {0, 1}
  BY <1>1, <1>3
<1>6. \A f \in Executor : f # e => exec[f].run # r0
  BY <1>1, <1>3 DEF IInv, OneExecutor
<1>7. ExecutorsOK' /\ OneExecutor'
  BY <1>2, <1>4, <1>6 DEF IInv, TypeOK, Hold, ExecutorsOK, OneExecutor, At
<1>8. CallsOK'
  BY <1>2, <1>4, <1>6 DEF IInv, TypeOK, Hold, CallsOK, ExecutorsOK, At, Exists
<1>9. NoWasteYet'
  BY <1>2, <1>4, <1>5, <1>6 DEF IInv, TypeOK, Hold, NoWasteYet
<1>10. CeilingHolds'
  BY <1>4, <1>5 DEF IInv, CeilingHolds, MostOfARun, Rounded
<1>11. LedgerIsTrue'
  BY <1>4, <1>5 DEF IInv, LedgerIsTrue
<1>12. OwnersOK'
  BY <1>4, <1>5 DEF IInv, OwnersOK
<1> QED
  BY <1>7, <1>8, <1>9, <1>10, <1>11, <1>12 DEF IInv, BridgeSpendConstants

\* The drain's claim keeps the invariant: a queued run has no executor.
LEMMA ClaimKeeps ==
  ASSUME IInv, TypeOK', NEW e \in Executor, NEW r0 \in Run, Claim(e, r0)
  PROVE  IInv'
<1>1. /\ exec'[e].pc = "ready" /\ exec'[e].run = r0
      /\ \A f \in Executor : f # e => exec'[f] = exec[f]
  BY DEF Claim, IInv, TypeOK, Hold
<1>2. /\ job[r0].status = "queued" /\ job'[r0].status = "running"
      /\ job'[r0].cost = job[r0].cost /\ job'[r0].calls = job[r0].calls
      /\ job'[r0].price = job[r0].price /\ job'[r0].wasted = job[r0].wasted
      /\ \A r \in Run : r # r0 => job'[r] = job[r]
  BY DEF Claim, IInv, TypeOK, Row
<1>3. r0 # None /\ job[r0].wasted = 0 /\ \A f \in Executor : exec[f].run # r0
  BY <1>2 DEF IInv, BridgeSpendConstants, Run, ExecutorsOK, NoWasteYet
<1>4. ExecutorsOK' /\ OneExecutor'
  BY <1>1, <1>2, <1>3 DEF IInv, TypeOK, Hold, ExecutorsOK, OneExecutor, At
<1>5. CallsOK'
  BY <1>1, <1>2, <1>3 DEF IInv, TypeOK, Hold, CallsOK, ExecutorsOK, At, Exists
<1>6. NoWasteYet'
  BY <1>1, <1>2, <1>3 DEF IInv, TypeOK, Hold, NoWasteYet
<1>7. CeilingHolds' /\ LedgerIsTrue' /\ OwnersOK'
  BY <1>2 DEF IInv, CeilingHolds, MostOfARun, Rounded, LedgerIsTrue, OwnersOK
<1> QED
  BY <1>4, <1>5, <1>6, <1>7 DEF IInv, BridgeSpendConstants

\* SpendLedger.check keeps it: the row was read below the ceiling.
LEMMA DispatchKeeps ==
  ASSUME IInv, TypeOK', NEW e \in Executor, Dispatch(e)
  PROVE  IInv'
<1>1. PICK r0 \in Run : exec[e].run = r0
  BY DEF Dispatch, At, IInv, TypeOK, Hold, ExecutorsOK
<1>2. /\ exec'[e].pc = "calling" /\ exec'[e].run = r0 /\ exec'[e].seen = job[r0].cost
      /\ \A f \in Executor : f # e => exec'[f] = exec[f]
      /\ exec[e].pc = "ready" /\ job[r0].cost < Ceiling
  BY <1>1 DEF Dispatch, At, UnderCeiling, IInv, TypeOK, Hold
<1>3. UNCHANGED job
  BY DEF Dispatch
<1>4. ExecutorsOK' /\ OneExecutor'
  BY <1>1, <1>2, <1>3 DEF IInv, ExecutorsOK, OneExecutor, At
<1>5. CallsOK'
  BY <1>1, <1>2, <1>3 DEF IInv, CallsOK, At, Exists
<1>6. NoWasteYet' /\ CeilingHolds' /\ LedgerIsTrue' /\ OwnersOK'
  BY <1>1, <1>2, <1>3
  DEF IInv, NoWasteYet, CeilingHolds, LedgerIsTrue, OwnersOK, MostOfARun, Rounded
<1> QED
  BY <1>4, <1>5, <1>6 DEF IInv, BridgeSpendConstants

\* SpendLedger.charge keeps it: what is written is the row's cost and the charge, one
\* call past the ceiling at most.
LEMMA AnswerKeeps ==
  ASSUME IInv, TypeOK', NEW e \in Executor, NEW c \in Charge, Answer(e, c)
  PROVE  IInv'
<1>1. PICK r0 \in Run : exec[e].run = r0
  BY DEF Answer, At, IInv, TypeOK, Hold, ExecutorsOK
<1> DEFINE seen == exec[e].seen
<1>2. /\ exec[e].pc = "calling" /\ Exists(r0)
      /\ seen \in Nat /\ seen < Ceiling /\ seen = job[r0].cost
  BY <1>1 DEF Answer, At, IInv, TypeOK, Hold, CallsOK
<1>3. /\ exec'[e].pc = "ready" /\ exec'[e].run = r0
      /\ \A f \in Executor : f # e => exec'[f] = exec[f]
  BY <1>1 DEF Answer, IInv, TypeOK, Hold
<1>4. /\ job'[r0].cost = Rounded(seen + c)
      /\ job'[r0].calls = job[r0].calls + 1 /\ job'[r0].price = job[r0].price + c
      /\ job'[r0].status = job[r0].status /\ job'[r0].wasted = job[r0].wasted
      /\ \A r \in Run : r # r0 => job'[r] = job[r]
  BY <1>1 DEF Answer, Charged, IInv, TypeOK, Row
<1>5. /\ Grain \in Nat \ {0} /\ Ceiling \in Nat \ {0} /\ MaxCall \in Nat
      /\ None \notin Run /\ BridgeSpendConstants /\ c \in 1..MaxCall
  BY DEF IInv, BridgeSpendConstants, Run
<1>6. \A f \in Executor : f # e => exec[f].run # r0
  BY <1>1, <1>5 DEF IInv, OneExecutor
<1>7. ExecutorsOK' /\ OneExecutor'
  BY <1>1, <1>3, <1>4, <1>5 DEF IInv, TypeOK, Hold, ExecutorsOK, OneExecutor, At
<1>8. CallsOK'
  BY <1>3, <1>4, <1>6 DEF IInv, TypeOK, Hold, CallsOK, ExecutorsOK, At, Exists
<1>9. NoWasteYet' /\ OwnersOK'
  <2>1. NoWasteYet'
    <3>1. \A r \in Run : job'[r].status = job[r].status /\ job'[r].wasted = job[r].wasted
      BY <1>4
    <3>2. \A f \in Executor : exec'[f].run = exec[f].run
      BY <1>1, <1>3
    <3>3. \A f \in Executor : exec[f].run # None => exec[f].run \in Run
      BY DEF IInv, TypeOK, Hold
    <3> QED BY <3>1, <3>2, <3>3 DEF IInv, NoWasteYet
  <2>2. OwnersOK'
    BY <1>2, <1>4 DEF IInv, OwnersOK, Exists, Active
  <2> QED BY <2>1, <2>2
<1>10. c \in Nat /\ c <= MaxCall /\ seen + c \in Nat
  BY <1>2, <1>5
<1>11. Rounded(seen + c) <= MostOfARun
  <2>1. Ceiling - 1 + MaxCall \in Nat /\ seen + c <= Ceiling - 1 + MaxCall
    BY <1>2, <1>5, <1>10
  <2> QED
    BY <1>5, <1>10, <2>1, RoundingIsMonotonic DEF MostOfARun
<1>12. CeilingHolds'
  BY <1>4, <1>11 DEF IInv, CeilingHolds, MostOfARun, Rounded
<1>13. /\ 2 * (job'[r0].price - job'[r0].cost) <= job'[r0].calls * Grain
       /\ 2 * (job'[r0].cost - job'[r0].price) <= job'[r0].calls * Grain
  <2>1. /\ 2 * (job[r0].price - job[r0].cost) <= job[r0].calls * Grain
        /\ 2 * (job[r0].cost - job[r0].price) <= job[r0].calls * Grain
        /\ job[r0].price \in Nat /\ job[r0].cost \in Nat /\ job[r0].calls \in Nat
    BY DEF IInv, TypeOK, Row, LedgerIsTrue
  <2>2. (job[r0].calls + 1) * Grain = job[r0].calls * Grain + Grain
    BY <1>5, <2>1
  <2>3. job[r0].calls * Grain \in Nat
    BY <1>5, <2>1
  <2>4. /\ Rounded(seen + c) \in Nat
        /\ 2 * (Rounded(seen + c) - (seen + c)) <= Grain
        /\ 2 * ((seen + c) - Rounded(seen + c)) <= Grain
    BY <1>5, <1>10, Rounding
  <2> QED
    BY <1>2, <1>4, <1>5, <1>10, <2>1, <2>2, <2>3, <2>4
<1>14. LedgerIsTrue'
  BY <1>4, <1>13 DEF IInv, LedgerIsTrue
<1> QED
  BY <1>7, <1>8, <1>9, <1>12, <1>14 DEF IInv, BridgeSpendConstants

----------------------------------------------------------------------------
\* Every step keeps the types.
LEMMA TypeKept ==
  ASSUME IInv, [Next]_vars
  PROVE  TypeOK'
<1> USE DEF Active
<1>1. ASSUME NEW h \in Handler, Insert(h) PROVE TypeOK'
  <2>1. handler[h] \in User /\ handler' \in [Handler -> User \cup {None}]
    BY <1>1 DEF IInv, TypeOK, Row, Hold, Insert
  <2>2. NewJob(handler[h]) \in Row
    BY <2>1 DEF Row, NewJob, NoJob
  <2>3. CASE UNCHANGED job
    BY <1>1, <2>1, <2>3 DEF IInv, TypeOK, Row, Hold, Insert
  <2>4. ASSUME NEW r \in Run, job' = [job EXCEPT ![r] = NewJob(handler[h])]
        PROVE  TypeOK'
    BY <1>1, <2>1, <2>2, <2>4 DEF IInv, TypeOK, Row, Hold, Insert
  <2> QED
    BY <1>1, <2>3, <2>4 DEF Insert
<1>2. ASSUME NEW h \in Handler, NEW u \in User, PassCap(h, u) PROVE TypeOK'
  BY <1>2 DEF IInv, TypeOK, Row, Hold, PassCap
<1>3. ASSUME NEW u \in User, DeleteAccount(u) PROVE TypeOK'
  BY <1>3 DEF IInv, TypeOK, Row, Hold, DeleteAccount, Gone, NoJob
<1>4. ASSUME NEW r \in Run, Cancel(r) PROVE TypeOK'
  BY <1>4 DEF IInv, TypeOK, Row, Hold, Cancel
<1>5. ASSUME NEW r \in Run, Reclaim(r) PROVE TypeOK'
  BY <1>5 DEF IInv, TypeOK, Row, Hold, Reclaim, Reclaimed
<1>6. ASSUME NEW r \in Run, NEW e \in Executor, Claim(e, r) PROVE TypeOK'
  BY <1>6 DEF IInv, TypeOK, Row, Hold, Claim
<1>7. ASSUME NEW e \in Executor, Dispatch(e) PROVE TypeOK'
  BY <1>7 DEF IInv, TypeOK, Row, Hold, ExecutorsOK, Dispatch, At, Exists
<1>8. ASSUME NEW e \in Executor, Waste(e) PROVE TypeOK'
  BY <1>8 DEF IInv, TypeOK, Row, Hold, ExecutorsOK, Waste, Idle, At, Exists
<1>9. ASSUME NEW e \in Executor, End(e) PROVE TypeOK'
  <2>1. exec' \in [Executor -> Hold]
    BY <1>9 DEF IInv, TypeOK, Row, Hold, End, Idle
  <2>2. PICK r0 \in Run : exec[e].run = r0
    BY <1>9 DEF End, At, IInv, TypeOK, Row, Hold, ExecutorsOK
  <2>3. job' = Over(r0) /\ UNCHANGED handler
    BY <1>9, <2>2 DEF End
  <2>4. CASE Exists(r0)
    <3>1. job' = [job EXCEPT ![r0].status = "over"]
      BY <2>3, <2>4 DEF Over
    <3>2. job[r0] \in Row
      BY DEF IInv, TypeOK
    <3>3. [job[r0] EXCEPT !.status = "over"] \in Row
      BY <3>2 DEF Row
    <3>4. job' \in [Run -> Row]
      BY <3>1, <3>3 DEF IInv, TypeOK
    <3> QED
      BY <2>1, <2>3, <3>4 DEF IInv, TypeOK
  <2>5. CASE ~Exists(r0)
    BY <2>1, <2>3, <2>5 DEF IInv, TypeOK, Row, Hold, Over
  <2> QED
    BY <2>4, <2>5
<1>10. ASSUME NEW e \in Executor, Crash(e) PROVE TypeOK'
  BY <1>10 DEF IInv, TypeOK, Row, Hold, Crash, Idle
<1>11. ASSUME NEW e \in Executor, NEW c \in Charge, Answer(e, c) PROVE TypeOK'
  <2>1. PICK r0 \in Run : exec[e].run = r0
    BY <1>11 DEF Answer, At, IInv, TypeOK, Row, Hold, ExecutorsOK
  <2>2. c \in Nat /\ exec[e].seen \in Nat /\ exec[e].seen + c \in Nat
    <3>1. c \in 1..MaxCall /\ exec[e].seen \in Nat
      BY DEF IInv, TypeOK, Hold, BridgeSpendConstants
    <3> QED BY <3>1
  <2>3. Rounded(exec[e].seen + c) \in Nat
    BY <2>2, Rounding DEF IInv
  <2> QED
    BY <1>11, <2>1, <2>2, <2>3 DEF Answer, Charged, IInv, TypeOK, Row
<1>12. CASE UNCHANGED vars
  BY <1>12 DEF IInv, TypeOK, Row, Hold, vars
<1> QED
  BY <1>1, <1>2, <1>3, <1>4, <1>5, <1>6, <1>7, <1>8, <1>9, <1>10, <1>11, <1>12 DEF Next

\* Every step keeps the invariant.
LEMMA StepInv ==
  ASSUME IInv, [Next]_vars
  PROVE  IInv'
<1>0. TypeOK'
  BY TypeKept
<1>1. ASSUME NEW h \in Handler, Insert(h) PROVE IInv'
  <2>1. UNCHANGED exec
    BY <1>1 DEF Insert
  <2>2. CASE UNCHANGED job
    BY <1>0, <2>1, <2>2, AccountsUntouched
  <2>3. ASSUME NEW q \in Run, job[q].status = "unborn",
               job' = [job EXCEPT ![q] = NewJob(handler[h])]
        PROVE  IInv'
    <3>1. /\ job'[q] = NewJob(handler[h])
          /\ \A r \in Run : r # q => job'[r] = job[r]
      BY <2>3 DEF IInv, TypeOK, Row
    <3>2. /\ job'[q].status = "queued" /\ job'[q].cost = 0 /\ job'[q].calls = 0
          /\ job'[q].price = 0 /\ job'[q].wasted = 0
      BY <3>1 DEF NewJob, NoJob
    <3> QED
      BY <1>0, <2>1, <2>3, <3>1, <3>2, AccountsUntouched
  <2> QED
    BY <1>1, <2>2, <2>3 DEF Insert
<1>2. ASSUME NEW h \in Handler, NEW u \in User, PassCap(h, u) PROVE IInv'
  BY <1>0, <1>2, AccountsUntouched DEF PassCap
<1>3. ASSUME NEW u \in User, DeleteAccount(u) PROVE IInv'
  <2>1. UNCHANGED exec /\ \A r \in Run : job'[r] = IF job[r].user = u THEN Gone ELSE job[r]
    BY <1>3 DEF DeleteAccount
  <2>2. \A r \in Run : job[r].user = u => job[r].status # "unborn"
    BY DEF IInv, OwnersOK, BridgeSpendConstants
  <2> QED
    BY <1>0, <2>1, <2>2, AccountsUntouched
<1>4. ASSUME NEW q \in Run, Cancel(q) \/ Reclaim(q) PROVE IInv'
  <2>1. /\ UNCHANGED exec
        /\ job[q].status \in Active /\ job'[q].status = "over"
        /\ job'[q].cost = job[q].cost /\ job'[q].calls = job[q].calls
        /\ job'[q].price = job[q].price /\ job'[q].wasted = job[q].wasted
        /\ \A r \in Run : r # q => job'[r] = job[r]
    BY <1>4 DEF Cancel, Reclaim, Reclaimed, Active, IInv, TypeOK, Row
  <2>2. Exists(q)
    BY <2>1 DEF Exists, Active
  <2> QED
    BY <1>0, <2>1, <2>2, AccountsUntouched
<1>5. ASSUME NEW r \in Run, NEW e \in Executor, Claim(e, r) PROVE IInv'
  BY <1>0, <1>5, ClaimKeeps
<1>6. ASSUME NEW e \in Executor, Dispatch(e) PROVE IInv'
  BY <1>0, <1>6, DispatchKeeps
<1>7. ASSUME NEW e \in Executor, NEW c \in Charge, Answer(e, c) PROVE IInv'
  BY <1>0, <1>7, AnswerKeeps
<1>8. ASSUME NEW e \in Executor, Waste(e) PROVE IInv'
  <2>1. PICK r0 \in Run : exec[e].run = r0
    BY <1>8 DEF Waste, At, IInv, TypeOK, Row, Hold, ExecutorsOK
  <2>2. /\ Exists(r0) /\ ~At(e, "idle") /\ exec' = [exec EXCEPT ![e] = Idle]
        /\ job'[r0].status \in {"over", job[r0].status}
        /\ job'[r0].cost = job[r0].cost /\ job'[r0].calls = job[r0].calls
        /\ job'[r0].price = job[r0].price /\ job'[r0].wasted = job[r0].wasted + 1
        /\ \A r \in Run : r # r0 => job'[r] = job[r]
    BY <1>8, <2>1 DEF Waste, At, IInv, TypeOK, Row
  <2> QED
    BY <1>0, <2>1, <2>2, Leaving
<1>9. ASSUME NEW e \in Executor, End(e) PROVE IInv'
  <2>1. PICK r0 \in Run : exec[e].run = r0
    BY <1>9 DEF End, At, IInv, TypeOK, Row, Hold, ExecutorsOK
  <2>2. ~At(e, "idle") /\ exec' = [exec EXCEPT ![e] = Idle] /\ job' = Over(r0)
    BY <1>9, <2>1 DEF End
  <2>3. CASE Exists(r0)
    <3>1. /\ job'[r0].status = "over"
          /\ job'[r0].cost = job[r0].cost /\ job'[r0].calls = job[r0].calls
          /\ job'[r0].price = job[r0].price /\ job'[r0].wasted = job[r0].wasted
          /\ \A r \in Run : r # r0 => job'[r] = job[r]
      BY <2>2, <2>3 DEF Over, IInv, TypeOK, Row
    <3> QED
      BY <1>0, <2>1, <2>2, <2>3, <3>1, Leaving
  <2>4. CASE ~Exists(r0)
    <3>1. UNCHANGED job
      BY <2>2, <2>4 DEF Over
    <3> QED
      BY <1>0, <2>2, <3>1, Leaving
  <2> QED
    BY <2>3, <2>4
<1>10. ASSUME NEW e \in Executor, Crash(e) PROVE IInv'
  BY <1>0, <1>10, Leaving DEF Crash, At
<1>11. CASE UNCHANGED vars
  BY <1>0, <1>11, AccountsUntouched DEF vars
<1> QED
  BY <1>1, <1>2, <1>3, <1>4, <1>5, <1>6, <1>7, <1>8, <1>9, <1>10, <1>11 DEF Next

\* The invariant holds of every state of every behaviour.
LEMMA Inductive == ASSUME BridgeSpendConstants PROVE Spec => []IInv
<1>1. Init => IInv
  BY InitInv
<1>2. IInv /\ [Next]_vars => IInv'
  BY StepInv
<1> QED
  BY <1>1, <1>2, PTL DEF Spec

\* The rows, the handlers and the executors are well typed (BridgeJob, SpendLedger).
THEOREM TypeCorrect == ASSUME BridgeSpendConstants PROVE Spec => []TypeOK
<1>1. IInv => TypeOK
  BY DEF IInv
<1> QED
  BY <1>1, Inductive, PTL

\* No row ever shows more than the ceiling and one call (SpendLedger.check before the
\* call, charge after it).
THEOREM CeilingKept == ASSUME BridgeSpendConstants PROVE Spec => []CeilingHolds
<1>1. IInv => CeilingHolds
  BY DEF IInv
<1> QED
  BY <1>1, Inductive, PTL

\* What the ledger shows is what the charged calls cost, to half a Grain each, and a
\* run wastes one call at most, because a run that was given up is never queued again.
THEOREM LedgerTrue == ASSUME BridgeSpendConstants PROVE Spec => []LedgerIsTrue
<1>1. IInv => LedgerIsTrue
  BY DEF IInv
<1> QED
  BY <1>1, Inductive, PTL

\* The runs whose cost can still grow: those that wait or run, and those that an
\* executor holds on to, given up or not.
Open ==
    {r \in Run : job[r].status \in Active \/ \E e \in Executor : exec[e].run = r}

\* The requests that have passed the cap's test.
Pending == {h \in Handler : handler[h] # None}

\* What the runs can come to cost, and with them the runs that are asked for.
Weighted == [r \in Run |-> [cost |-> IF r \in Open THEN MostOfARun ELSE job[r].cost]]
AtStake == Total(Weighted, Run) + MostOfARun * Cardinality(Pending)

\* The cap with its overshoot, and that what is at stake keeps to it.
Limit ==
    Cap - 1 + MostOfARun * (Cardinality(User) + Cardinality(Handler) + Cardinality(Executor))
StakeOK == AtStake = 0 \/ AtStake <= Limit

\* A run that waits or runs is a user's, and the user's only one.
OneActiveEach ==
    /\ \A r \in Run : job[r].status \in Active => job[r].user \in User
    /\ \A r, q \in Run :
          /\ job[r].status \in Active /\ job[q].status \in Active
          /\ job[r].user = job[q].user
          => r = q

\* What can still grow, user by user and executor by executor.
LEMMA OpenIsFew ==
  ASSUME IInv, OneActiveEach
  PROVE  /\ IsFiniteSet(Open) /\ Cardinality(Open) \in Nat
         /\ Cardinality(Open) <= Cardinality(User) + Cardinality(Executor)
<1> DEFINE act == {r \in Run : job[r].status \in Active}
           held == {r \in Run : \E e \in Executor : exec[e].run = r}
           owner == [r \in act |-> job[r].user]
           holder == [r \in held |-> CHOOSE e \in Executor : exec[e].run = r]
<1>0. IsFiniteSet(User) /\ IsFiniteSet(Executor)
  BY DEF IInv, BridgeSpendConstants
<1>1. IsFiniteSet(act) /\ Cardinality(act) <= Cardinality(User)
  <2>1. owner \in Injection(act, User)
    BY DEF OneActiveEach, Injection, IsInjective
  <2> HIDE DEF act, owner
  <2> QED BY <1>0, <2>1, FS_Injection
<1>2. IsFiniteSet(held) /\ Cardinality(held) <= Cardinality(Executor)
  <2>1. \A r \in held : holder[r] \in Executor /\ exec[holder[r]].run = r
    OBVIOUS
  <2>2. holder \in [held -> Executor]
    BY <2>1
  <2>3. holder \in Injection(held, Executor)
    <3> HIDE DEF holder, held
    <3>1. \A q, r \in held : holder[q] = holder[r] => q = r
      BY <2>1
    <3> QED BY <2>2, <3>1 DEF Injection, IsInjective
  <2> HIDE DEF held, holder
  <2> QED BY <1>0, <2>3, FS_Injection
<1>3. /\ Cardinality(act) \in Nat /\ Cardinality(held) \in Nat
      /\ Cardinality(act \cap held) \in Nat
      /\ Cardinality(User) \in Nat /\ Cardinality(Executor) \in Nat
  <2> HIDE DEF act, held
  <2> QED BY <1>0, <1>1, <1>2, FS_CardinalityType, FS_Intersection
<1>4. Open = act \cup held
  BY DEF Open
<1>5. /\ IsFiniteSet(act \cup held)
      /\ Cardinality(act \cup held) = Cardinality(act) + Cardinality(held) - Cardinality(act \cap held)
  <2> HIDE DEF act, held
  <2> QED BY <1>1, <1>2, FS_Union
<1>6. Cardinality(act \cup held) \in Nat
  <2> HIDE DEF act, held
  <2> QED BY <1>5, FS_CardinalityType
<1> HIDE DEF act, held
<1> QED BY <1>1, <1>2, <1>3, <1>4, <1>5, <1>6

\* The numbers that a state is measured by.
Measured ==
    /\ IsFiniteSet(Run) /\ MostOfARun \in Nat
    /\ \A r \in Run :
          /\ job[r].cost \in Nat /\ job[r].cost <= MostOfARun /\ Weighted[r].cost \in Nat
          /\ Weighted[r].cost = IF r \in Open THEN MostOfARun ELSE job[r].cost
    /\ Total(job, Run) \in Nat /\ Total(Weighted, Run) \in Nat
    /\ IsFiniteSet(Pending) /\ Cardinality(Pending) \in Nat
    /\ Cardinality(Pending) <= Cardinality(Handler)
    /\ AtStake = Total(Weighted, Run) + MostOfARun * Cardinality(Pending)
    /\ MostOfARun * Cardinality(Pending) \in Nat /\ AtStake \in Nat
    /\ Limit \in Int

\* What is measured is a number.
LEMMA StakeTypes == IInv => Measured
<1> SUFFICES ASSUME IInv PROVE Measured
  OBVIOUS
<1>1. IsFiniteSet(Run)
  <2>1. MaxRuns \in Int
    BY DEF IInv, BridgeSpendConstants
  <2> QED BY <2>1, FS_Interval DEF Run
<1>2. MostOfARun \in Nat
  BY MostIsNat DEF IInv
<1>3. \A r \in Run : job[r].cost \in Nat /\ job[r].cost <= MostOfARun
  BY DEF IInv, TypeOK, Row, CeilingHolds
<1>4. \A r \in Run : Weighted[r].cost = IF r \in Open THEN MostOfARun ELSE job[r].cost
  BY DEF Weighted
<1>5. \A r \in Run : Weighted[r].cost \in Nat
  BY <1>2, <1>3, <1>4
<1>6. Total(job, Run) \in Nat /\ Total(Weighted, Run) \in Nat
  <2>1. \A r \in Run : job[r].cost <= job[r].cost + (IF r \in {} THEN 0 ELSE 0)
    BY <1>3
  <2>2. \A r \in Run : Weighted[r].cost <= Weighted[r].cost + (IF r \in {} THEN 0 ELSE 0)
    BY <1>5
  <2>3. 0 \in Nat
    OBVIOUS
  <2>4. Total(job, Run) \in Nat
    BY <1>1, <1>3, <2>1, <2>3, TotalWithin
  <2>5. Total(Weighted, Run) \in Nat
    BY <1>1, <1>5, <2>2, <2>3, TotalWithin
  <2> QED BY <2>4, <2>5
<1>7. /\ IsFiniteSet(Pending) /\ Cardinality(Pending) \in Nat
      /\ Cardinality(Pending) <= Cardinality(Handler)
  <2>1. IsFiniteSet(Handler) /\ Pending \subseteq Handler
    BY DEF IInv, BridgeSpendConstants, Pending
  <2> QED BY <2>1, FS_Subset, FS_CardinalityType
<1>8. /\ AtStake = Total(Weighted, Run) + MostOfARun * Cardinality(Pending)
      /\ MostOfARun * Cardinality(Pending) \in Nat /\ AtStake \in Nat
  BY <1>2, <1>6, <1>7 DEF AtStake
<1>9. Limit \in Int
  <2>1. Cap \in Nat /\ Cardinality(User) \in Nat /\ Cardinality(Handler) \in Nat /\ Cardinality(Executor) \in Nat
    BY FS_CardinalityType DEF IInv, BridgeSpendConstants
  <2>2. Cardinality(User) + Cardinality(Handler) + Cardinality(Executor) \in Nat
    BY <2>1
  <2>3. MostOfARun * (Cardinality(User) + Cardinality(Handler) + Cardinality(Executor)) \in Nat
    BY <1>2, <2>2
  <2> QED BY <2>1, <2>3 DEF Limit
<1> QED BY <1>1, <1>2, <1>3, <1>4, <1>5, <1>6, <1>7, <1>8, <1>9 DEF Measured

\* The same of the next state.
LEMMA StakeTypesNext == IInv' => Measured'
<1>1. IInv => Measured
  BY StakeTypes
<1> QED BY <1>1, PTL

\* What the next state measures, in the terms of this one.
LEMMA NextMeasure ==
  ASSUME IInv, IInv'
  PROVE  /\ \A r \in Run :
               /\ job'[r].cost \in Nat /\ job'[r].cost <= MostOfARun
               /\ Weighted'[r].cost \in Nat
               /\ Weighted'[r].cost = IF r \in Open' THEN MostOfARun ELSE job'[r].cost
         /\ Total(Weighted', Run) \in Nat
         /\ IsFiniteSet(Pending') /\ Cardinality(Pending') \in Nat
         /\ Cardinality(Pending') <= Cardinality(Handler)
         /\ MostOfARun * Cardinality(Pending') \in Nat
         /\ AtStake' = Total(Weighted', Run) + MostOfARun * Cardinality(Pending')
         /\ Limit' = Limit
<1>1. /\ MostOfARun' = MostOfARun /\ Run' = Run /\ Limit' = Limit
      /\ Total(Weighted, Run)' = Total(Weighted', Run)
  BY DEF MostOfARun, Rounded, Run, Limit, Total, MapThenSumSet, MapThenFoldSet
<1>2. Measured'
  BY StakeTypesNext
<1> QED BY <1>1, <1>2 DEF Measured

\* What opens no run, lets no other run's cost grow and passes no request leaves
\* no more at stake.
LEMMA StakeFalls ==
  ASSUME IInv, IInv', StakeOK, Open' \subseteq Open, Pending' \subseteq Pending,
         \A r \in Run : r \notin Open => job'[r].cost <= job[r].cost
  PROVE  StakeOK'
<1>1. Measured
  BY StakeTypes
<1>2. \A r \in Run : Weighted'[r].cost <= Weighted[r].cost + (IF r \in {} THEN 0 ELSE 0)
  BY <1>1, NextMeasure DEF Measured
<1>3. Total(Weighted', Run) <= Total(Weighted, Run)
  <2>1. Total(Weighted', Run) <= Total(Weighted, Run) + 0 * Cardinality({} \cap Run)
    <3>1. \A r \in Run : Weighted[r].cost \in Nat /\ Weighted'[r].cost \in Nat
      BY <1>1, NextMeasure DEF Measured
    <3> QED BY <1>1, <1>2, <3>1, TotalWithin DEF Measured
  <2>2. Cardinality({} \cap Run) \in Nat
    BY <1>1, FS_Intersection, FS_EmptySet, FS_CardinalityType DEF Measured
  <2> QED BY <1>1, <2>1, <2>2, NextMeasure DEF Measured
<1>4. MostOfARun * Cardinality(Pending') <= MostOfARun * Cardinality(Pending)
  <2>1. Cardinality(Pending') <= Cardinality(Pending)
    BY <1>1, FS_Subset DEF Measured
  <2> QED BY <1>1, <2>1, NextMeasure DEF Measured
<1> QED BY <1>1, <1>3, <1>4, NextMeasure DEF Measured, StakeOK

\* An insert opens one run in the place of the request.
LEMMA InsertStake ==
  ASSUME IInv, IInv', StakeOK, NEW q \in Run, NEW h \in Pending,
         Open' \subseteq Open \cup {q}, Pending' = Pending \ {h},
         \A r \in Run : r \notin Open /\ r # q => job'[r].cost <= job[r].cost
  PROVE  StakeOK'
<1>1. Measured
  BY StakeTypes
<1>2. \A r \in Run : Weighted'[r].cost <= Weighted[r].cost + (IF r \in {q} THEN MostOfARun ELSE 0)
  BY <1>1, NextMeasure DEF Measured
<1>3. Total(Weighted', Run) <= Total(Weighted, Run) + MostOfARun
  <2>1. Total(Weighted', Run) <= Total(Weighted, Run) + MostOfARun * Cardinality({q} \cap Run)
    <3>1. \A r \in Run : Weighted[r].cost \in Nat /\ Weighted'[r].cost \in Nat
      BY <1>1, NextMeasure DEF Measured
    <3> QED BY <1>1, <1>2, <3>1, TotalWithin DEF Measured
  <2>2. {q} \cap Run = {q} /\ Cardinality({q}) = 1
    BY FS_Singleton
  <2>3. MostOfARun * Cardinality({q} \cap Run) = MostOfARun
    <3>1. \A m \in Nat : m * 1 = m
      OBVIOUS
    <3>2. Cardinality({q} \cap Run) = 1
      BY <2>2
    <3>3. MostOfARun \in Nat
      BY <1>1 DEF Measured
    <3> QED BY <3>1, <3>2, <3>3
  <2> QED BY <2>1, <2>3
<1>4. MostOfARun * Cardinality(Pending') = MostOfARun * Cardinality(Pending) - MostOfARun
  <2>1. Cardinality(Pending') = Cardinality(Pending) - 1
    BY <1>1, FS_RemoveElement DEF Measured
  <2> QED BY <1>1, <2>1 DEF Measured
<1>5. AtStake' <= AtStake
  <2>1. /\ Total(Weighted', Run) \in Nat /\ Total(Weighted, Run) \in Nat /\ MostOfARun \in Nat
        /\ MostOfARun * Cardinality(Pending) \in Nat
        /\ AtStake = Total(Weighted, Run) + MostOfARun * Cardinality(Pending)
        /\ AtStake' = Total(Weighted', Run) + MostOfARun * Cardinality(Pending')
    BY <1>1, NextMeasure DEF Measured
  <2> QED BY <1>3, <1>4, <2>1
<1>6. AtStake \in Nat /\ AtStake' \in Nat /\ Limit \in Int /\ Limit' = Limit
  <2>1. MostOfARun * Cardinality(Pending') \in Nat /\ Total(Weighted', Run) \in Nat
    BY NextMeasure
  <2> QED BY <1>1, <2>1, NextMeasure DEF Measured
<1> QED BY <1>5, <1>6 DEF StakeOK

\* The cap's test leaves room for what is open and for each handler's request.
LEMMA PassCapStake ==
  ASSUME IInv, IInv', OneActiveEach, DailySpend < Cap, UNCHANGED <<job, exec>>
  PROVE  StakeOK'
<1>1. Measured
  BY StakeTypes
<1>2. Open' = Open /\ Weighted' = Weighted
  BY DEF Open, Weighted, Run, MostOfARun, Rounded
<1>3. Total(job, Run) <= Cap - 1
  <2>1. Cap \in Nat
    BY DEF IInv, BridgeSpendConstants
  <2> QED BY <1>1, <2>1 DEF Measured, Total, DailySpend
<1>4. Total(Weighted, Run) <= Total(job, Run) + MostOfARun * Cardinality(Open)
  <2>1. \A r \in Run : Weighted[r].cost <= job[r].cost + (IF r \in Open THEN MostOfARun ELSE 0)
    BY <1>1 DEF Measured
  <2>2. \A r \in Run : Weighted[r].cost \in Nat /\ job[r].cost \in Nat
    BY <1>1 DEF Measured
  <2>3. Total(Weighted, Run) <= Total(job, Run) + MostOfARun * Cardinality(Open \cap Run)
    BY <1>1, <2>1, <2>2, TotalWithin DEF Measured
  <2>4. Open \cap Run = Open
    BY DEF Open
  <2> QED BY <2>3, <2>4
<1> DEFINE m == MostOfARun
           u == Cardinality(User)
           d == Cardinality(Executor)
           a == Cardinality(Handler)
           o == Cardinality(Open)
           p == Cardinality(Pending')
<1>5. /\ m \in Nat /\ u \in Nat /\ d \in Nat /\ a \in Nat /\ o \in Nat /\ p \in Nat
      /\ o <= u + d /\ p <= a /\ Cap \in Nat
  BY <1>1, OpenIsFew, NextMeasure, FS_CardinalityType
  DEF Measured, IInv, BridgeSpendConstants
<1>6. AtStake' = Total(Weighted, Run) + m * p /\ Limit' = Cap - 1 + m * (u + a + d)
  BY <1>2, NextMeasure DEF Limit
<1>7. m * o + m * p <= m * (u + a + d)
  <2> HIDE DEF m, u, d, a, o, p
  <2>1. o + p <= u + a + d
    BY <1>5
  <2>2. m * (o + p) <= m * (u + a + d)
    BY <1>5, <2>1
  <2>3. m * (o + p) = m * o + m * p
    BY <1>5
  <2> QED BY <2>2, <2>3
<1>8. /\ Total(Weighted, Run) \in Nat /\ Total(job, Run) \in Nat
      /\ m * o \in Int /\ m * p \in Int /\ m * (u + a + d) \in Int
  <2>1. Total(Weighted, Run) \in Nat /\ Total(job, Run) \in Nat
    BY <1>1 DEF Measured
  <2> HIDE DEF m, u, d, a, o, p
  <2> QED BY <1>5, <2>1
<1>9. AtStake' <= Limit'
  <2>1. Total(Weighted, Run) <= Total(job, Run) + m * o
    BY <1>4
  <2> HIDE DEF m, u, d, a, o, p
  <2> QED BY <1>3, <1>5, <1>6, <1>7, <1>8, <2>1
<1> QED BY <1>9 DEF StakeOK

----------------------------------------------------------------------------
\* Every step keeps what is at stake within the limit.
LEMMA StakeKept ==
  ASSUME IInv, IInv', OneActiveEach, StakeOK, [Next]_vars
  PROVE  StakeOK'
<1>0. Run' = Run /\ Active' = Active
  BY DEF Run, Active
<1>1. ASSUME NEW h \in Handler, Insert(h) PROVE StakeOK'
  <2>1. h \in Pending /\ Pending' = Pending \ {h} /\ UNCHANGED exec
    BY <1>1 DEF Insert, Pending, IInv, TypeOK
  <2>2. CASE UNCHANGED job
    BY <2>1, <2>2, <1>0, StakeTypes, StakeFalls DEF Open, Measured
  <2>3. ASSUME NEW q \in Run, job' = [job EXCEPT ![q] = NewJob(handler[h])]
        PROVE  StakeOK'
    <3>1. \A r \in Run : r # q => job'[r] = job[r]
      BY <2>3 DEF IInv, TypeOK
    <3>2. Open' \subseteq Open \cup {q}
      BY <1>0, <2>1, <3>1 DEF Open
    <3>3. \A r \in Run : r # q => job'[r].cost <= job[r].cost
      BY <3>1, StakeTypes DEF Measured
    <3> QED BY <2>1, <3>2, <3>3, InsertStake
  <2> QED BY <1>1, <2>2, <2>3 DEF Insert
<1>2. ASSUME NEW h \in Handler, NEW u \in User, PassCap(h, u) PROVE StakeOK'
  BY <1>2, PassCapStake DEF PassCap, WithinCap
<1>3. ASSUME NEW u \in User, DeleteAccount(u) PROVE StakeOK'
  <2>1. UNCHANGED exec /\ \A r \in Run : job'[r] = job[r] \/ job'[r] = Gone
    BY <1>3 DEF DeleteAccount
  <2>2. Gone.status \notin Active /\ Gone.cost = 0
    BY DEF Gone, NoJob, Active
  <2>3. Open' \subseteq Open
    BY <1>0, <2>1, <2>2 DEF Open
  <2>4. Pending' \subseteq Pending
    BY <1>3 DEF DeleteAccount, Pending
  <2>5. \A r \in Run : job'[r].cost <= job[r].cost
    BY <2>1, <2>2, StakeTypes DEF Measured
  <2> QED BY <2>3, <2>4, <2>5, StakeFalls
<1>4. ASSUME NEW q \in Run, Cancel(q) \/ Reclaim(q) PROVE StakeOK'
  <2>1. UNCHANGED <<handler, exec>> /\ job' = [job EXCEPT ![q].status = "over"]
    BY <1>4 DEF Cancel, Reclaim, Reclaimed
  <2>2. \A r \in Run : job'[r].cost = job[r].cost /\ job'[r].status \in {job[r].status, "over"}
    BY <2>1 DEF IInv, TypeOK, Row
  <2> QED BY <1>0, <2>1, <2>2, StakeTypes, StakeFalls DEF Open, Pending, Active, Measured
<1>5. ASSUME NEW q \in Run, NEW e \in Executor, Claim(e, q) PROVE StakeOK'
  <2>1. UNCHANGED handler /\ job[q].status = "queued"
    BY <1>5 DEF Claim
  <2>2. \A f \in Executor : exec'[f].run \in {exec[f].run, q}
    BY <1>5 DEF Claim, IInv, TypeOK, Hold
  <2>3. \A r \in Run : job'[r].cost = job[r].cost /\ (r # q => job'[r] = job[r])
    BY <1>5 DEF Claim, IInv, TypeOK, Row
  <2>4. Open' \subseteq Open
    BY <1>0, <2>1, <2>2, <2>3 DEF Open, Active
  <2> QED BY <2>1, <2>3, <2>4, StakeTypes, StakeFalls DEF Pending, Measured
<1>6. ASSUME NEW e \in Executor, Dispatch(e) PROVE StakeOK'
  <2>1. UNCHANGED <<job, handler>> /\ \A f \in Executor : exec'[f].run = exec[f].run
    BY <1>6 DEF Dispatch, IInv, TypeOK, Hold
  <2> QED BY <1>0, <2>1, StakeTypes, StakeFalls DEF Open, Pending, Measured
<1>7. ASSUME NEW e \in Executor, NEW c \in Charge, Answer(e, c) PROVE StakeOK'
  <2>1. PICK q \in Run : exec[e].run = q
    BY <1>7 DEF Answer, At, IInv, TypeOK, Hold, ExecutorsOK
  <2>2. /\ UNCHANGED handler /\ \A f \in Executor : exec'[f].run = exec[f].run
        /\ \A r \in Run : r # q => job'[r] = job[r]
    BY <1>7, <2>1 DEF Answer, IInv, TypeOK, Row, Hold
  <2>3. q \in Open
    BY <2>1 DEF Open
  <2>4. Open' \subseteq Open
    BY <1>0, <2>2, <2>3 DEF Open
  <2> QED BY <2>2, <2>3, <2>4, StakeTypes, StakeFalls DEF Pending, Measured
<1>8. ASSUME NEW e \in Executor, UNCHANGED handler, exec' = [exec EXCEPT ![e] = Idle],
             \A r \in Run : /\ job'[r].cost = job[r].cost
                           /\ job'[r].status \in {job[r].status, "over"}
      PROVE  StakeOK'
  <2>1. \A f \in Executor : exec'[f].run \in {exec[f].run, None} /\ None \notin Run
    BY <1>8 DEF Idle, IInv, TypeOK, Hold, BridgeSpendConstants, Run
  <2> QED BY <1>0, <1>8, <2>1, StakeTypes, StakeFalls DEF Open, Pending, Active, Measured
<1>9. ASSUME NEW e \in Executor, Waste(e) PROVE StakeOK'
  <2>1. \A r \in Run : job'[r].cost = job[r].cost /\ job'[r].status \in {job[r].status, "over"}
    BY <1>9 DEF Waste, IInv, TypeOK, Row
  <2> QED BY <1>8, <1>9, <2>1 DEF Waste
<1>10. ASSUME NEW e \in Executor, End(e) PROVE StakeOK'
  <2>1. \A r \in Run : job'[r].cost = job[r].cost /\ job'[r].status \in {job[r].status, "over"}
    BY <1>10 DEF End, Over, IInv, TypeOK, Row
  <2> QED BY <1>8, <1>10, <2>1 DEF End
<1>11. ASSUME NEW e \in Executor, Crash(e) PROVE StakeOK'
  BY <1>8, <1>11 DEF Crash
<1>12. CASE UNCHANGED vars
  BY <1>0, <1>12, StakeTypes, StakeFalls DEF Open, Pending, Measured, vars
<1> QED
  BY <1>1, <1>2, <1>3, <1>4, <1>5, <1>6, <1>7, <1>9, <1>10, <1>11, <1>12 DEF Next

\* A user has one run that waits or runs (uq_bridge_jobs_active_per_user).
LEMMA OneActiveKept ==
  ASSUME IInv, OneActiveEach, [Next]_vars
  PROVE  OneActiveEach'
<1> USE DEF Active
<1>0. Run' = Run
  BY DEF Run
<1>1. ASSUME \A r \in Run : job'[r].status \in Active =>
                job[r].status \in Active /\ job'[r].user = job[r].user
      PROVE  OneActiveEach'
  BY <1>0, <1>1 DEF OneActiveEach
<1>2. ASSUME NEW h \in Handler, Insert(h) PROVE OneActiveEach'
  <2>1. CASE UNCHANGED job
    BY <1>1, <2>1
  <2>2. ASSUME NEW q \in Run, SlotFree(handler[h]), job' = [job EXCEPT ![q] = NewJob(handler[h])]
        PROVE  OneActiveEach'
    <3>1. handler[h] \in User
      BY <1>2 DEF Insert, IInv, TypeOK
    <3>2. job'[q].user = handler[h] /\ \A r \in Run : r # q => job'[r] = job[r]
      BY <2>2 DEF NewJob, NoJob, IInv, TypeOK
    <3> QED BY <1>0, <2>2, <3>1, <3>2 DEF OneActiveEach, SlotFree
  <2> QED BY <1>2, <2>1, <2>2 DEF Insert
<1>3. ASSUME NEW h \in Handler, NEW u \in User, PassCap(h, u) PROVE OneActiveEach'
  BY <1>1, <1>3 DEF PassCap
<1>4. ASSUME NEW u \in User, DeleteAccount(u) PROVE OneActiveEach'
  <2>1. \A r \in Run : job'[r] = job[r] \/ job'[r] = Gone
    BY <1>4 DEF DeleteAccount
  <2> QED BY <1>1, <2>1 DEF Gone, NoJob
<1>5. ASSUME NEW q \in Run, Cancel(q) \/ Reclaim(q) PROVE OneActiveEach'
  BY <1>1, <1>5 DEF Cancel, Reclaim, Reclaimed, IInv, TypeOK, Row
<1>6. ASSUME NEW q \in Run, NEW e \in Executor, Claim(e, q) PROVE OneActiveEach'
  BY <1>1, <1>6 DEF Claim, IInv, TypeOK, Row
<1>7. ASSUME NEW e \in Executor, Dispatch(e) PROVE OneActiveEach'
  BY <1>1, <1>7 DEF Dispatch
<1>8. ASSUME NEW e \in Executor, NEW c \in Charge, Answer(e, c) PROVE OneActiveEach'
  BY <1>1, <1>8 DEF Answer, IInv, TypeOK, Row
<1>9. ASSUME NEW e \in Executor, Waste(e) PROVE OneActiveEach'
  BY <1>1, <1>9 DEF Waste, IInv, TypeOK, Row
<1>10. ASSUME NEW e \in Executor, End(e) PROVE OneActiveEach'
  BY <1>1, <1>10 DEF End, Over, IInv, TypeOK, Row
<1>11. ASSUME NEW e \in Executor, Crash(e) PROVE OneActiveEach'
  BY <1>1, <1>11 DEF Crash
<1>12. CASE UNCHANGED vars
  BY <1>1, <1>12 DEF vars
<1> QED
  BY <1>2, <1>3, <1>4, <1>5, <1>6, <1>7, <1>8, <1>9, <1>10, <1>11, <1>12 DEF Next

\* Nothing is at stake of the empty table.
LEMMA InitStake == ASSUME BridgeSpendConstants, Init PROVE OneActiveEach /\ StakeOK
<1>0. IInv /\ Measured
  BY InitInv, StakeTypes
<1>1. OneActiveEach
  BY DEF Init, NoJob, OneActiveEach, Active
<1>2. Open = {} /\ Pending = {}
  BY DEF Init, NoJob, Idle, Open, Pending, Active, BridgeSpendConstants, Run
<1>3. \A r \in Run : Weighted[r].cost = 0
  BY <1>0, <1>2 DEF Measured, Init, NoJob
<1>4. Total(Weighted, Run) = 0
  <2>1. PICK f : Total(Weighted, Run) = f[Run] /\ Unfolds(f, Weighted, Run)
    BY <1>0, TotalUnfolds DEF Measured
  <2> DEFINE Bad == {T \in SUBSET Run : f[T] # 0}
  <2>2. ASSUME Bad # {} PROVE FALSE
    <3>1. PICK T \in Bad : \A V \in Bad : ~(V \subseteq T /\ V # T)
      <4>1. Bad \in SUBSET SUBSET Run
        OBVIOUS
      <4> HIDE DEF Bad
      <4> QED BY <1>0, <2>2, <4>1, SmallestSubset DEF Measured
    <3>2. T # {} /\ T \in SUBSET Run /\ f[T] # 0
      BY <2>1, <3>1 DEF Unfolds
    <3>3. Pick(T) \in T /\ T \ {Pick(T)} \in SUBSET Run
      BY <3>2 DEF Pick
    <3>4. f[T \ {Pick(T)}] = 0
      BY <3>1, <3>3
    <3>5. f[T] = Weighted[Pick(T)].cost + f[T \ {Pick(T)}]
      BY <2>1, <3>2 DEF Unfolds
    <3> QED BY <1>3, <3>2, <3>3, <3>4, <3>5
  <2> QED BY <2>1, <2>2
<1>5. AtStake = 0
  <2>1. Cardinality(Pending) = 0
    BY <1>2, FS_EmptySet
  <2> QED BY <1>0, <1>4, <2>1 DEF Measured
<1> QED BY <1>1, <1>5 DEF StakeOK

\* The invariant of the spending, with what is at stake.
SpendInv == IInv /\ OneActiveEach /\ StakeOK

\* What is at stake bounds what is shown.
LEMMA StakeBounds == ASSUME SpendInv PROVE CapHolds
<1>1. Measured
  BY StakeTypes DEF SpendInv
<1>2. Total(job, Run) <= AtStake
  <2>1. \A r \in Run : job[r].cost <= Weighted[r].cost + (IF r \in {} THEN 0 ELSE 0)
    BY <1>1 DEF Measured
  <2>2. \A r \in Run : job[r].cost \in Nat /\ Weighted[r].cost \in Nat
    BY <1>1 DEF Measured
  <2>3. Total(job, Run) <= Total(Weighted, Run) + 0 * Cardinality({} \cap Run)
    BY <1>1, <2>1, <2>2, TotalWithin DEF Measured
  <2>4. Cardinality({} \cap Run) \in Nat
    BY <1>1, FS_Intersection, FS_EmptySet, FS_CardinalityType DEF Measured
  <2>5. 0 * Cardinality({} \cap Run) = 0
    BY <2>4
  <2> QED BY <1>1, <2>3, <2>5 DEF Measured
<1>3. DailySpend = Total(job, Run)
  BY DEF DailySpend, Total
<1> QED BY <1>1, <1>2, <1>3 DEF Measured, SpendInv, StakeOK, CapHolds, Limit

\* What holds of 0, and of each number up to n if it holds of the one before.
LEMMA NumbersUpTo ==
  ASSUME NEW n \in Nat, NEW G, 0 \in G, \A k \in 1..n : k - 1 \in G => k \in G
  PROVE  0..n \subseteq G
<1> DEFINE Bad == {k \in 0..n : k \notin G}
<1>1. ASSUME Bad # {} PROVE FALSE
  <2>1. PICK k \in Bad : \A m \in Bad : k <= m
    <3>1. Bad \in SUBSET Nat
      OBVIOUS
    <3> HIDE DEF Bad
    <3> QED BY <1>1, <3>1, LeastNat
  <2>2. k \in 1..n
    BY <2>1
  <2>3. k - 1 \in 0..n /\ k - 1 \notin Bad
    BY <2>1, <2>2
  <2> QED BY <2>1, <2>2, <2>3
<1> QED BY <1>1

\* A value for each number up to n, by steps: choice finds it.
Iterates(f, n, base, step) ==
    f = [k \in 0..n |-> IF k = 0 THEN base ELSE step[k][f[k - 1]]]

\* A recursion along 0..n exists: what CHOOSE chooses is there to be chosen.
LEMMA IterationExists ==
  ASSUME NEW n \in Nat, NEW Val, NEW base \in Val,
         NEW step, \A k \in 1..n, v \in Val : step[k][v] \in Val
  PROVE  \E f : Iterates(f, n, base, step) /\ f \in [0..n -> Val]
<1> DEFINE Is(f, m) == Iterates(f, m, base, step) /\ f \in [0..m -> Val]
           G == {m \in 0..n : \E f : Is(f, m)}
<1>1. 0 \in G
  <2> DEFINE f == [k \in 0..0 |-> base]
  <2>1. Is(f, 0)
    BY DEF Iterates
  <2>2. \E h : Is(h, 0)
    BY <2>1
  <2> HIDE DEF Is
  <2> QED BY <2>2
<1>2. ASSUME NEW m \in 1..n, m - 1 \in G PROVE m \in G
  <2>1. PICK g : Is(g, m - 1)
    BY <1>2
  <2> DEFINE f == [k \in 0..m |-> IF k = m THEN step[m][g[m - 1]] ELSE g[k]]
  <2>2. g[m - 1] \in Val /\ \A k \in 0..(m - 1) : g[k] \in Val
    BY <2>1
  <2>3. f \in [0..m -> Val]
    BY <2>2
  <2>4. ASSUME NEW k \in 0..m PROVE f[k] = IF k = 0 THEN base ELSE step[k][f[k - 1]]
    <3>1. CASE k = m
      BY <3>1
    <3>2. CASE k # m
      <4>1. k \in 0..(m - 1) /\ f[k] = g[k]
        BY <3>2
      <4>2. g[k] = IF k = 0 THEN base ELSE step[k][g[k - 1]]
        BY <2>1, <4>1 DEF Iterates
      <4>3. k # 0 => f[k - 1] = g[k - 1]
        BY <4>1
      <4> QED BY <4>1, <4>2, <4>3
    <3> QED BY <3>1, <3>2
  <2>5. Iterates(f, m, base, step)
    <3>1. f = [k \in 0..m |-> f[k]]
      OBVIOUS
    <3> HIDE DEF f
    <3> QED BY <2>4, <3>1 DEF Iterates
  <2>6. \E h : Is(h, m)
    BY <2>3, <2>5
  <2> HIDE DEF Is
  <2> QED BY <2>6
<1>3. 0..n \subseteq G
  <2> HIDE DEF G
  <2> QED BY <1>1, <1>2, NumbersUpTo
<1>4. n \in G
  BY <1>3
<1> QED BY <1>4

\* How Those goes through a sequence.
Selects(f, s, Kept) ==
    /\ f[0] = <<>>
    /\ \A n \in 1..Len(s) :
          f[n] = IF s[n] \in Kept THEN Append(f[n - 1], s[n]) ELSE f[n - 1]

\* What Those computes, element by element.
LEMMA ThoseSelects ==
  ASSUME NEW D, NEW s \in Seq(D), NEW Kept
  PROVE  \E f : A!Those(s, Kept) = f[Len(s)] /\ f \in [0..Len(s) -> Seq(D)] /\ Selects(f, s, Kept)
<1> DEFINE N == Len(s)
           F(f) == [n \in 0..N |->
                      IF n = 0 THEN <<>>
                      ELSE IF s[n] \in Kept THEN Append(f[n - 1], s[n]) ELSE f[n - 1]]
           f0 == CHOOSE f : f = F(f)
           step == [n \in 1..N |-> [v \in Seq(D) |-> IF s[n] \in Kept THEN Append(v, s[n]) ELSE v]]
<1>1. N \in Nat /\ \A n \in 1..N : s[n] \in D
  OBVIOUS
<1>2. \A n \in 1..N, v \in Seq(D) : step[n][v] \in Seq(D)
  BY <1>1
<1>3. PICK f : Iterates(f, N, <<>>, step) /\ f \in [0..N -> Seq(D)]
  <2>1. <<>> \in Seq(D)
    OBVIOUS
  <2> HIDE DEF step, N
  <2> QED BY <1>1, <1>2, <2>1, IterationExists
<1>4. f = F(f)
  <2>1. ASSUME NEW n \in 0..N
        PROVE  f[n] = IF n = 0 THEN <<>>
                      ELSE IF s[n] \in Kept THEN Append(f[n - 1], s[n]) ELSE f[n - 1]
    <3>1. f[n] = IF n = 0 THEN <<>> ELSE step[n][f[n - 1]]
      BY <1>3 DEF Iterates
    <3>2. CASE n = 0
      BY <3>1, <3>2
    <3>3. CASE n # 0
      <4>1. n \in 1..N /\ n - 1 \in 0..N
        BY <1>1, <3>3
      <4>2. f[n - 1] \in Seq(D)
        BY <1>3, <4>1
      <4>3. step[n][f[n - 1]] = IF s[n] \in Kept THEN Append(f[n - 1], s[n]) ELSE f[n - 1]
        BY <4>1, <4>2
      <4> QED BY <3>1, <3>3, <4>3
    <3> QED BY <3>2, <3>3
  <2>2. f = [n \in 0..N |-> f[n]]
    BY <1>3
  <2> QED BY <2>1, <2>2
<1>5. f0 = F(f0)
  <2> HIDE DEF F
  <2> QED BY <1>4
<1>6. A!Those(s, Kept) = f0[N]
  BY DEF A!Those
<1> HIDE DEF f0
<1>7. f0[0] = <<>> /\ \A n \in 1..N : f0[n] = IF s[n] \in Kept THEN Append(f0[n - 1], s[n]) ELSE f0[n - 1]
  <2>1. \A n \in 0..N : f0[n] = IF n = 0 THEN <<>>
                                ELSE IF s[n] \in Kept THEN Append(f0[n - 1], s[n]) ELSE f0[n - 1]
    BY <1>5
  <2>2. 0 \in 0..N /\ \A n \in 1..N : n \in 0..N /\ n # 0
    BY <1>1
  <2> HIDE DEF N
  <2> QED BY <2>1, <2>2
<1>8. \A n \in 0..N : f0[n] \in Seq(D)
  <2> DEFINE G == {n \in 0..N : f0[n] \in Seq(D)}
  <2>1. 0 \in G
    <3>1. 0 \in 0..N /\ <<>> \in Seq(D)
      BY <1>1
    <3>2. f0[0] = <<>>
      BY <1>7
    <3> QED BY <3>1, <3>2
  <2>2. ASSUME NEW n \in 1..N, n - 1 \in G PROVE n \in G
    <3>1. n \in 0..N /\ f0[n - 1] \in Seq(D) /\ s[n] \in D
      BY <1>1, <2>2
    <3>2. Append(f0[n - 1], s[n]) \in Seq(D)
      BY <3>1
    <3>3. f0[n] \in {f0[n - 1], Append(f0[n - 1], s[n])}
      BY <1>7
    <3> QED BY <3>1, <3>2, <3>3
  <2>3. 0..N \subseteq G
    <3> HIDE DEF G, N
    <3> QED BY <1>1, <2>1, <2>2, NumbersUpTo
  <2> QED BY <2>3
<1>9. f0 \in [0..N -> Seq(D)]
  BY <1>5, <1>8
<1> QED BY <1>6, <1>7, <1>9 DEF Selects

Distinct(s) == \A i, j \in DOMAIN s : s[i] = s[j] => i = j

\* What a sequence holds, with one more element.
LEMMA AppendHolds ==
  ASSUME NEW D, NEW s \in Seq(D), NEW x \in D
  PROVE  /\ Append(s, x) \in Seq(D)
         /\ A!ToSet(Append(s, x)) = A!ToSet(s) \cup {x}
         /\ Distinct(s) /\ x \notin A!ToSet(s) => Distinct(Append(s, x))
<1> DEFINE t == Append(s, x)
<1>1. /\ t \in Seq(D) /\ Len(t) = Len(s) + 1 /\ Len(s) \in Nat
      /\ DOMAIN t = 1..(Len(s) + 1) /\ DOMAIN s = 1..Len(s)
      /\ \A i \in 1..Len(s) : t[i] = s[i]
      /\ t[Len(s) + 1] = x
  OBVIOUS
<1> HIDE DEF t
<1>2. A!ToSet(t) = A!ToSet(s) \cup {x}
  <2>1. \A i \in DOMAIN t : i \in DOMAIN s \/ i = Len(s) + 1
    BY <1>1
  <2>2. \A i \in DOMAIN s : i \in DOMAIN t
    BY <1>1
  <2>3. Len(s) + 1 \in DOMAIN t
    BY <1>1
  <2> QED BY <1>1, <2>1, <2>2, <2>3 DEF A!ToSet
<1>3. Distinct(s) /\ x \notin A!ToSet(s) => Distinct(t)
  <2>1. \A i \in DOMAIN t : i \in DOMAIN s \/ i = Len(s) + 1
    BY <1>1
  <2> QED BY <1>1, <2>1 DEF A!ToSet, Distinct
<1> QED BY <1>1, <1>2, <1>3 DEF t

\* What two sequences hold, one after the other.
LEMMA ConcatHolds ==
  ASSUME NEW D, NEW s \in Seq(D), NEW t \in Seq(D)
  PROVE  /\ s \o t \in Seq(D)
         /\ Len(s \o t) = Len(s) + Len(t)
         /\ A!ToSet(s \o t) = A!ToSet(s) \cup A!ToSet(t)
         /\ Distinct(s) /\ Distinct(t) /\ A!ToSet(s) \cap A!ToSet(t) = {} => Distinct(s \o t)
<1> DEFINE u == s \o t
<1>1. /\ u \in Seq(D) /\ Len(u) = Len(s) + Len(t) /\ Len(s) \in Nat /\ Len(t) \in Nat
      /\ DOMAIN u = 1..(Len(s) + Len(t)) /\ DOMAIN s = 1..Len(s) /\ DOMAIN t = 1..Len(t)
      /\ \A i \in 1..(Len(s) + Len(t)) : u[i] = IF i <= Len(s) THEN s[i] ELSE t[i - Len(s)]
  OBVIOUS
<1> HIDE DEF u
<1>2. \A i \in DOMAIN u : \/ i \in DOMAIN s /\ u[i] = s[i]
                          \/ i - Len(s) \in DOMAIN t /\ u[i] = t[i - Len(s)] /\ ~(i <= Len(s))
  BY <1>1
<1>3. \A i \in DOMAIN s : i \in DOMAIN u /\ u[i] = s[i]
  BY <1>1
<1>4. \A i \in DOMAIN t : i + Len(s) \in DOMAIN u /\ u[i + Len(s)] = t[i]
  BY <1>1
<1>5. A!ToSet(u) = A!ToSet(s) \cup A!ToSet(t)
  BY <1>2, <1>3, <1>4 DEF A!ToSet
<1>6. ASSUME Distinct(s), Distinct(t), A!ToSet(s) \cap A!ToSet(t) = {} PROVE Distinct(u)
  <2> SUFFICES ASSUME NEW i \in DOMAIN u, NEW j \in DOMAIN u, u[i] = u[j] PROVE i = j
    BY DEF Distinct
  <2>1. \A k \in DOMAIN s, l \in DOMAIN t : s[k] # t[l]
    BY <1>6 DEF A!ToSet
  <2>2. CASE i \in DOMAIN s /\ u[i] = s[i]
    BY <1>2, <1>6, <2>1, <2>2 DEF Distinct
  <2>3. CASE i - Len(s) \in DOMAIN t /\ u[i] = t[i - Len(s)]
    <3>1. j - Len(s) \in DOMAIN t /\ u[j] = t[j - Len(s)]
      BY <1>2, <2>1, <2>3
    <3>2. i - Len(s) = j - Len(s)
      BY <1>6, <2>3, <3>1 DEF Distinct
    <3> QED BY <1>1, <3>2
  <2> QED BY <1>2, <2>2, <2>3
<1> QED BY <1>1, <1>5, <1>6 DEF u

\* What a sequence's beginning holds.
LEMMA PrefixHolds ==
  ASSUME NEW D, NEW s \in Seq(D), NEW n \in 0..Len(s)
  PROVE  /\ SubSeq(s, 1, n) \in Seq(D)
         /\ Len(SubSeq(s, 1, n)) = n
         /\ \A i \in 1..n : SubSeq(s, 1, n)[i] = s[i]
         /\ A!ToSet(SubSeq(s, 1, n)) = {s[i] : i \in 1..n}
         /\ A!ToSet(SubSeq(s, 1, n)) \subseteq A!ToSet(s)
         /\ Distinct(s) => Distinct(SubSeq(s, 1, n))
         /\ n = Len(s) => SubSeq(s, 1, n) = s
<1> DEFINE t == SubSeq(s, 1, n)
<1>1. /\ t \in Seq(D) /\ Len(t) = n /\ n \in Nat /\ Len(s) \in Nat /\ n <= Len(s)
      /\ DOMAIN t = 1..n /\ DOMAIN s = 1..Len(s)
      /\ \A i \in 1..n : t[i] = s[i] /\ i \in DOMAIN s
  OBVIOUS
<1> HIDE DEF t
<1>2. A!ToSet(t) = {s[i] : i \in 1..n} /\ A!ToSet(t) \subseteq A!ToSet(s)
  BY <1>1 DEF A!ToSet
<1>3. Distinct(s) => Distinct(t)
  BY <1>1 DEF Distinct
<1>4. n = Len(s) => t = s
  BY <1>1, SeqEqual
<1> QED BY <1>1, <1>2, <1>3, <1>4 DEF t

\* A sequence without repetition is as long as the set of its elements is large.
LEMMA DistinctSize ==
  ASSUME NEW D, NEW s \in Seq(D), Distinct(s)
  PROVE  /\ IsFiniteSet(A!ToSet(s)) /\ Cardinality(A!ToSet(s)) = Len(s)
         /\ A!ToSet(s) \subseteq D /\ Len(s) \in Nat
         /\ A!ToSet(s) = {} <=> s = <<>>
<1>1. Len(s) \in Nat /\ s \in [1..Len(s) -> D] /\ DOMAIN s = 1..Len(s)
  OBVIOUS
<1>2. IsFiniteSet(1..Len(s)) /\ Cardinality(1..Len(s)) = Len(s)
  BY <1>1, FS_Interval
<1>3. s \in Surjection(1..Len(s), A!ToSet(s)) /\ s \in Injection(1..Len(s), A!ToSet(s))
  BY <1>1 DEF Surjection, Injection, IsInjective, A!ToSet, Distinct
<1>4. IsFiniteSet(A!ToSet(s)) /\ Cardinality(A!ToSet(s)) = Len(s)
  BY <1>2, <1>3, FS_Surjection
<1>5. A!ToSet(s) \subseteq D
  BY <1>1 DEF A!ToSet
<1>6. A!ToSet(s) = {} <=> s = <<>>
  <2>1. s = <<>> => A!ToSet(s) = {}
    BY DEF A!ToSet
  <2>2. s # <<>> => s[1] \in A!ToSet(s)
    <3>1. s # <<>> => 1 \in DOMAIN s
      BY <1>1
    <3> QED BY <3>1 DEF A!ToSet
  <2> QED BY <2>1, <2>2
<1> QED BY <1>1, <1>4, <1>5, <1>6

\* The first element is an element.
LEMMA HeadHolds ==
  ASSUME NEW D, NEW s \in Seq(D), s # <<>>
  PROVE  Head(s) = s[1] /\ Head(s) \in A!ToSet(s) /\ Len(s) >= 1
  BY DEF A!ToSet

\* Those selects: what is kept, and nothing twice.
LEMMA ThoseHolds ==
  ASSUME NEW D, NEW s \in Seq(D), NEW Kept
  PROVE  /\ A!Those(s, Kept) \in Seq(D)
         /\ A!ToSet(A!Those(s, Kept)) = A!ToSet(s) \cap Kept
         /\ Distinct(s) => Distinct(A!Those(s, Kept))
<1>1. PICK f : A!Those(s, Kept) = f[Len(s)] /\ f \in [0..Len(s) -> Seq(D)] /\ Selects(f, s, Kept)
  BY ThoseSelects
<1> DEFINE First(n) == {s[i] : i \in 1..n}
           G == {n \in 0..Len(s) : /\ A!ToSet(f[n]) = First(n) \cap Kept
                                   /\ Distinct(s) => Distinct(f[n])}
<1>2. Len(s) \in Nat /\ DOMAIN s = 1..Len(s) /\ \A n \in 1..Len(s) : s[n] \in D
  OBVIOUS
<1>3. 0 \in G
  <2>1. f[0] = <<>> /\ A!ToSet(<<>>) = {} /\ Distinct(<<>>) /\ First(0) = {}
    BY <1>1 DEF Selects, A!ToSet, Distinct
  <2> HIDE DEF First
  <2> QED BY <1>2, <2>1
<1>4. ASSUME NEW n \in 1..Len(s), n - 1 \in G PROVE n \in G
  <2>1. /\ f[n - 1] \in Seq(D) /\ A!ToSet(f[n - 1]) = First(n - 1) \cap Kept
        /\ Distinct(s) => Distinct(f[n - 1])
        /\ f[n] = IF s[n] \in Kept THEN Append(f[n - 1], s[n]) ELSE f[n - 1]
    BY <1>1, <1>4 DEF Selects
  <2>2. First(n) = First(n - 1) \cup {s[n]}
    <3>1. 1..n = 1..(n - 1) \cup {n}
      BY <1>2
    <3> QED BY <3>1
  <2>3. Distinct(s) => s[n] \notin First(n - 1)
    <3>1. \A i \in 1..(n - 1) : i \in DOMAIN s /\ n \in DOMAIN s /\ i # n
      BY <1>2
    <3> QED BY <3>1 DEF Distinct
  <2> HIDE DEF First
  <2>4. CASE s[n] \in Kept
    <3>1. f[n] = Append(f[n - 1], s[n]) /\ s[n] \in D
      BY <1>2, <2>1, <2>4
    <3>2. /\ A!ToSet(f[n]) = A!ToSet(f[n - 1]) \cup {s[n]}
          /\ Distinct(f[n - 1]) /\ s[n] \notin A!ToSet(f[n - 1]) => Distinct(f[n])
      BY <2>1, <3>1, AppendHolds
    <3>3. A!ToSet(f[n]) = First(n) \cap Kept
      BY <2>1, <2>2, <2>4, <3>2
    <3>4. Distinct(s) => Distinct(f[n])
      BY <2>1, <2>3, <3>2
    <3>5. n \in 0..Len(s)
      BY <1>2
    <3> QED BY <3>3, <3>4, <3>5
  <2>5. CASE s[n] \notin Kept
    <3>1. f[n] = f[n - 1]
      BY <2>1, <2>5
    <3>2. A!ToSet(f[n]) = First(n) \cap Kept
      BY <2>1, <2>2, <2>5, <3>1
    <3>3. n \in 0..Len(s)
      BY <1>2
    <3> QED BY <2>1, <3>1, <3>2, <3>3
  <2> QED BY <2>4, <2>5
<1>5. 0..Len(s) \subseteq G
  <2> HIDE DEF G
  <2> QED BY <1>2, <1>3, <1>4, NumbersUpTo
<1>6. Len(s) \in G
  BY <1>2, <1>5
<1>7. A!ToSet(s) = First(Len(s))
  BY <1>2 DEF A!ToSet
<1> QED BY <1>1, <1>2, <1>6, <1>7

\* Lists of datasets, none twice.
Lists == {s \in Seq(A!Dataset) : Distinct(s)}

\* A list is as long as the set of its datasets is large.
LEMMA ListHolds ==
  ASSUME NEW s \in Lists
  PROVE  /\ s \in Seq(A!Dataset) /\ Distinct(s) /\ Len(s) \in Nat
         /\ IsFiniteSet(A!ToSet(s)) /\ Cardinality(A!ToSet(s)) = Len(s)
         /\ A!ToSet(s) \subseteq A!Dataset
         /\ A!ToSet(s) = {} <=> s = <<>>
<1>1. s \in Seq(A!Dataset) /\ Distinct(s)
  BY DEF Lists
<1> QED BY <1>1, DistinctSize

\* What is kept of a list is a list.
LEMMA ThoseOfList ==
  ASSUME NEW s \in Lists, NEW Kept
  PROVE  A!Those(s, Kept) \in Lists /\ A!ToSet(A!Those(s, Kept)) = A!ToSet(s) \cap Kept
<1>1. s \in Seq(A!Dataset) /\ Distinct(s)
  BY ListHolds
<1> QED BY <1>1, ThoseHolds DEF Lists

\* The beginning of a list is a list.
LEMMA PrefixOfList ==
  ASSUME NEW s \in Lists, NEW n \in 0..Len(s)
  PROVE  /\ SubSeq(s, 1, n) \in Lists /\ Len(SubSeq(s, 1, n)) = n
         /\ \A i \in 1..n : SubSeq(s, 1, n)[i] = s[i]
         /\ A!ToSet(SubSeq(s, 1, n)) = {s[i] : i \in 1..n}
         /\ A!ToSet(SubSeq(s, 1, n)) \subseteq A!ToSet(s)
         /\ n = Len(s) => SubSeq(s, 1, n) = s
<1>1. s \in Seq(A!Dataset) /\ Distinct(s)
  BY ListHolds
<1> QED BY <1>1, PrefixHolds DEF Lists

\* Sizes of parts.
LEMMA TwoParts ==
  ASSUME NEW S, IsFiniteSet(S), NEW P, NEW Q, S = P \cup Q, P \cap Q = {}
  PROVE  Cardinality(S) = Cardinality(P) + Cardinality(Q)
<1>1. IsFiniteSet(P) /\ IsFiniteSet(Q)
  BY FS_Subset
<1>2. Cardinality(P \cup Q) = Cardinality(P) + Cardinality(Q) - Cardinality(P \cap Q)
  BY <1>1, FS_Union
<1>3. Cardinality(P \cap Q) = 0 /\ Cardinality(P) \in Nat /\ Cardinality(Q) \in Nat
  BY <1>1, FS_EmptySet, FS_CardinalityType
<1> QED BY <1>2, <1>3

\* Two lists that hold the parts of a third are together as long.
LEMMA ListParts ==
  ASSUME NEW s \in Lists, NEW p \in Lists, NEW q \in Lists,
         A!ToSet(s) = A!ToSet(p) \cup A!ToSet(q), A!ToSet(p) \cap A!ToSet(q) = {}
  PROVE  Len(s) = Len(p) + Len(q)
<1>0. IsFiniteSet(A!ToSet(s))
  BY ListHolds
<1>1. Cardinality(A!ToSet(s)) = Cardinality(A!ToSet(p)) + Cardinality(A!ToSet(q))
  <2> HIDE DEF Lists
  <2> QED BY <1>0, TwoParts
<1> QED BY <1>1, ListHolds

\* Two lists that share nothing are a list one after the other.
LEMMA ConcatLists ==
  ASSUME NEW s \in Lists, NEW t \in Lists, A!ToSet(s) \cap A!ToSet(t) = {}
  PROVE  /\ s \o t \in Lists /\ Len(s \o t) = Len(s) + Len(t)
         /\ A!ToSet(s \o t) = A!ToSet(s) \cup A!ToSet(t)
<1>1. s \in Seq(A!Dataset) /\ Distinct(s) /\ t \in Seq(A!Dataset) /\ Distinct(t)
  BY ListHolds
<1> QED BY <1>1, ConcatHolds DEF Lists

\* The empty list.
LEMMA EmptyList == <<>> \in Lists /\ A!ToSet(<<>>) = {} /\ Len(<<>>) = 0
  BY DEF Lists, Distinct, A!ToSet

\* The datasets by their downloads are all of them.
LEMMA ByDownloadsHolds ==
  ASSUME A!AssessConstants
  PROVE  A!ByDownloads \in Lists /\ A!ToSet(A!ByDownloads) = A!Dataset
<1>1. Datasets \in Nat
  BY DEF A!AssessConstants
<1>2. A!ByDownloads \in [1..Datasets -> A!Dataset] /\ \A d \in 1..Datasets : A!ByDownloads[d] = d
  BY DEF A!ByDownloads, A!Dataset
<1>3. A!ByDownloads \in Seq(A!Dataset)
  BY <1>1, <1>2, SeqDef
<1>4. DOMAIN A!ByDownloads = A!Dataset
  BY DEF A!ByDownloads
<1>5. Distinct(A!ByDownloads) /\ A!ToSet(A!ByDownloads) = A!Dataset
  BY <1>2, <1>4 DEF Distinct, A!ToSet, A!Dataset
<1> QED BY <1>3, <1>5 DEF Lists

\* CheapestFirst loses and repeats nothing.
LEMMA CheapestFirstHolds ==
  ASSUME A!AssessConstants, NEW s \in Lists
  PROVE  /\ A!CheapestFirst(s) \in Lists
         /\ A!ToSet(A!CheapestFirst(s)) = A!ToSet(s)
         /\ Len(A!CheapestFirst(s)) = Len(s)
<1> DEFINE p == A!Those(A!ByDownloads, A!ToSet(s) \cap Hf)
           q == A!Those(A!ByDownloads, A!ToSet(s) \ Hf)
<1>1. /\ p \in Lists /\ A!ToSet(p) = A!Dataset \cap (A!ToSet(s) \cap Hf)
      /\ q \in Lists /\ A!ToSet(q) = A!Dataset \cap (A!ToSet(s) \ Hf)
  BY ByDownloadsHolds, ThoseOfList
<1>2. A!ToSet(s) \subseteq A!Dataset
  BY ListHolds
<1>3. A!ToSet(p) \cap A!ToSet(q) = {} /\ A!ToSet(s) = A!ToSet(p) \cup A!ToSet(q)
  BY <1>1, <1>2
<1>4. A!CheapestFirst(s) = p \o q
  BY DEF A!CheapestFirst
<1> HIDE DEF p, q
<1>5. p \o q \in Lists /\ Len(p \o q) = Len(p) + Len(q) /\ A!ToSet(p \o q) = A!ToSet(s)
  BY <1>1, <1>3, ConcatLists
<1>6. Len(s) = Len(p) + Len(q)
  <2>1. p \in Lists /\ q \in Lists
    BY <1>1
  <2>2. A!ToSet(s) = A!ToSet(p) \cup A!ToSet(q) /\ A!ToSet(p) \cap A!ToSet(q) = {}
    BY <1>3
  <2> QED BY ONLY <2>1, <2>2, s \in Lists, ListParts
<1> QED BY <1>4, <1>5, <1>6

\* The first n of a list.
LEMMA UpToHolds ==
  ASSUME NEW n \in Nat, NEW s \in Lists
  PROVE  /\ A!UpTo(n, s) \in Lists /\ A!ToSet(A!UpTo(n, s)) \subseteq A!ToSet(s)
         /\ Len(s) <= n => A!UpTo(n, s) = s
<1> DEFINE m == IF Len(s) < n THEN Len(s) ELSE n
<1>1. Len(s) \in Nat
  BY ListHolds
<1>2. m \in 0..Len(s) /\ (Len(s) <= n => m = Len(s))
  BY <1>1
<1>3. A!UpTo(n, s) = SubSeq(s, 1, m)
  BY DEF A!UpTo
<1> HIDE DEF m
<1> QED BY <1>2, <1>3, PrefixOfList

\* What the judge is shown, and what it keeps and refuses, are found.
LEMMA JudgedHolds ==
  ASSUME A!AssessConstants, NEW found \in SUBSET A!Dataset, NEW yes
  PROVE  /\ A!Relevant(found, yes) \in Lists /\ A!ToSet(A!Relevant(found, yes)) \subseteq found
         /\ A!Irrelevant(found, yes) \in Lists
<1>1. MaxJudged \in Nat
  BY DEF A!AssessConstants
<1>2. /\ A!Those(A!ByDownloads, found) \in Lists
      /\ A!ToSet(A!Those(A!ByDownloads, found)) \subseteq found
  BY ByDownloadsHolds, ThoseOfList
<1>3. A!Judged(found) \in Lists /\ A!ToSet(A!Judged(found)) \subseteq found
  BY <1>1, <1>2, UpToHolds DEF A!Judged
<1> QED BY <1>3, ThoseOfList DEF A!Relevant, A!Irrelevant

\* Enough of the licensed are inspected, and none for nothing.
LEMMA InspectedHolds ==
  ASSUME A!AssessConstants, NEW s \in Lists, NEW answer
  PROVE  /\ A!Inspected(s, answer) \in 0..Len(s)
         /\ Len(A!Passing(answer, SubSeq(s, 1, A!Inspected(s, answer)))) <= MAX_FINALISTS
<1> DEFINE passed == A!With(answer, "passed")
           Enough(n) == Len(A!Passing(answer, SubSeq(s, 1, n))) >= MAX_FINALISTS
           Last(n) == /\ Enough(n) \/ n = Len(s)
                      /\ \A k \in 0..(n - 1) : ~Enough(k)
<1>0. Len(s) \in Nat /\ MAX_FINALISTS \in Nat \ {0}
  BY ListHolds DEF A!AssessConstants
<1>1. \E n \in 0..Len(s) : Last(n)
  <2> DEFINE Stops == {n \in 0..Len(s) : Enough(n) \/ n = Len(s)}
  <2>1. Stops \in SUBSET Nat /\ Len(s) \in Stops
    BY <1>0
  <2>2. PICK n \in Stops : \A k \in Stops : n <= k
    <3> HIDE DEF Stops
    <3> QED BY <2>1, LeastNat
  <2>3. \A k \in 0..(n - 1) : ~Enough(k)
    <3>1. \A k \in 0..(n - 1) : k \in 0..Len(s) /\ ~(n <= k)
      BY <1>0, <2>2
    <3> HIDE DEF Enough
    <3> QED BY <2>2, <3>1
  <2> HIDE DEF Enough
  <2> QED BY <2>2, <2>3
<1> DEFINE n == A!Inspected(s, answer)
<1>2. n = CHOOSE m \in 0..Len(s) : Last(m)
  BY DEF A!Inspected
<1> HIDE DEF Last, n
<1>3. n \in 0..Len(s) /\ Last(n)
  BY <1>1, <1>2
<1>4. \A k \in 0..Len(s) : /\ A!Passing(answer, SubSeq(s, 1, k)) \in Lists
                           /\ A!ToSet(A!Passing(answer, SubSeq(s, 1, k))) = {s[i] : i \in 1..k} \cap passed
  BY PrefixOfList, ThoseOfList DEF A!Passing
<1> HIDE DEF passed
<1>5. CASE n = 0
  <2>1. {s[i] : i \in 1..n} = {}
    BY <1>5
  <2>2. A!Passing(answer, SubSeq(s, 1, n)) = <<>>
    BY <1>3, <1>4, <2>1, ListHolds
  <2> QED BY <1>0, <1>3, <2>2, EmptyList DEF n
<1>6. CASE n # 0
  <2> DEFINE was == A!Passing(answer, SubSeq(s, 1, n - 1))
             is == A!Passing(answer, SubSeq(s, 1, n))
  <2>1. n - 1 \in 0..Len(s) /\ n - 1 \in 0..(n - 1) /\ 1..n = 1..(n - 1) \cup {n}
    BY <1>0, <1>3, <1>6
  <2>2. was \in Lists /\ is \in Lists
    BY <1>3, <1>4, <2>1
  <2>3. Len(was) < MAX_FINALISTS
    <3>1. ~Enough(n - 1)
      BY <1>3, <2>1 DEF Last
    <3> QED BY <1>0, <2>2, <3>1, ListHolds
  <2>4. A!ToSet(is) \subseteq A!ToSet(was) \cup {s[n]}
    BY <1>3, <1>4, <2>1
  <2> HIDE DEF was, is
  <2>5. Cardinality(A!ToSet(is)) <= Cardinality(A!ToSet(was)) + 1
    <3>0. IsFiniteSet(A!ToSet(was)) /\ Cardinality(A!ToSet(was)) \in Nat
      BY <2>2, ListHolds, FS_CardinalityType
    <3>1. /\ IsFiniteSet(A!ToSet(was)) /\ Cardinality(A!ToSet(was)) \in Nat
          /\ IsFiniteSet(A!ToSet(was) \cup {s[n]})
          /\ Cardinality(A!ToSet(was) \cup {s[n]}) <= Cardinality(A!ToSet(was)) + 1
      BY <3>0, FS_AddElement
    <3>2. Cardinality(A!ToSet(is)) <= Cardinality(A!ToSet(was) \cup {s[n]}) /\ Cardinality(A!ToSet(is)) \in Nat
      BY <2>4, <3>1, FS_Subset, FS_CardinalityType
    <3>3. Cardinality(A!ToSet(was) \cup {s[n]}) \in Nat
      BY <3>1, FS_CardinalityType
    <3> QED BY <3>1, <3>2, <3>3
  <2>6. Len(is) <= Len(was) + 1 /\ Len(is) \in Nat /\ Len(was) \in Nat
    BY <2>2, <2>5, ListHolds
  <2>7. Len(is) <= MAX_FINALISTS
    BY <1>0, <2>3, <2>6
  <2> QED BY <1>3, <2>7 DEF n, is
<1> QED BY <1>5, <1>6

\* What an executor's locals can be.
Locals ==
    [pc: A!Place, model: Step \cup {None}, spec: A!Assessed \cup {None},
     candidates: Lists, fresh: Lists, seen: SUBSET A!Dataset,
     rejections: [A!Gate -> [count: Nat, examples: Seq(A!Dataset)]], notInspected: Nat,
     survivors: Lists, round: 0..MAX_REPLANS, dataset: A!Dataset \cup {A!NoDataset},
     report: A!Report \cup {A!NoReport}, api: BOOLEAN, ended: A!Ended]

\* What gate g has rejected, and what gates 1 to 3 have.
Out(r, g) == r.rejections[g].examples
Refused(r) ==
    A!ToSet(Out(r, "license")) \cup A!ToSet(Out(r, "loadable")) \cup A!ToSet(Out(r, "scale"))

\* The candidates that are neither rejected nor left uninspected.
Left(r) ==
    Len(r.candidates) - r.notInspected
    - Len(Out(r, "license")) - Len(Out(r, "loadable")) - Len(Out(r, "scale"))

\* The rejections are counted.
Tallied(r) == \A g \in A!Gate : r.rejections[g].count = Len(Out(r, g))

\* A run on its way to the probes: what is left is fresh or has survived, and
\* nothing is cited.
UnderWay(r) ==
    /\ Left(r) = Len(r.fresh) + Len(r.survivors)
    /\ A!ToSet(r.fresh) \cup A!ToSet(r.survivors) \cup Refused(r) \subseteq A!ToSet(r.candidates)
    /\ (A!ToSet(r.fresh) \cup A!ToSet(r.survivors)) \cap Refused(r) = {}
    /\ r.dataset = A!NoDataset /\ r.report = A!NoReport /\ Out(r, "probe") = <<>>

\* A run in its rounds: what is found again is known.
InRounds(r) ==
    /\ UnderWay(r)
    /\ A!ToSet(r.candidates) \subseteq r.seen /\ r.survivors = <<>>

\* A run about to assemble its verdict.
ToAssemble(r) ==
    /\ Left(r) \in 0..MAX_FINALISTS
    /\ (Left(r) = 0) <=> (r.dataset = A!NoDataset)
    /\ Len(Out(r, "probe")) <= Left(r)
    /\ r.dataset # A!NoDataset =>
          /\ r.dataset \in A!ToSet(r.candidates)
          /\ Len(Out(r, "probe")) < Left(r)
          /\ r.report.outcome = "fail" => Len(Out(r, "probe")) = Left(r) - 1
          /\ r.report = A!NoReport => ~A!BRIDGE_SPECS[r.spec].probe
    /\ r.dataset \notin Refused(r) \cup A!ToSet(Out(r, "probe"))

\* The locals of a run, place by place.
RunOK(r) ==
    /\ r \in Locals /\ Tallied(r) /\ Len(r.survivors) <= MAX_FINALISTS
    /\ r.pc # "idle" => r.model \in Step /\ r.spec \in A!Assessed
    /\ r.pc = "pool" =>
          r = [A!Idle("none") EXCEPT !.pc = "pool", !.model = r.model, !.spec = r.spec]
    /\ r.pc \in {"save", "gates", "replan"} => InRounds(r)
    /\ r.pc \in {"probe", "api"} => UnderWay(r)
    /\ r.pc \in {"replan", "probe", "api"} => r.fresh = <<>>
    /\ r.pc = "replan" => r.round < MAX_REPLANS
    /\ r.pc = "probe" => r.survivors # <<>>
    /\ r.pc = "api" => r.survivors = <<>>
    /\ r.pc = "assemble" => ToAssemble(r)

\* A pool's row.
PoolOK(p) ==
    /\ p \in [candidates: Lists, rejected_relevance: Seq(A!Dataset)]

\* An artefact that stands on its evidence.
ArtefactOK(a) ==
    /\ a \in A!Artefacts
    /\ A!Finalists(a) \in 0..MAX_FINALISTS
    /\ (A!Finalists(a) = 0) <=> (a.dataset = A!NoDataset)
    /\ a.evidence.rejections["probe"].count <= A!Finalists(a)
    /\ a.dataset # A!NoDataset => a.evidence.rejections["probe"].count < A!Finalists(a)
    /\ a.verdict = "not_at_this_step" =>
          a.evidence.rejections["probe"].count = A!Finalists(a) - 1
    /\ \A g \in A!Gate \ {"relevance"} : a.dataset \notin A!ToSet(a.evidence.rejections[g].examples)

\* The invariant of the assessments.
AssessInv ==
    /\ modality \in A!Modality
    /\ pool # None => PoolOK(pool)
    /\ verdict = [s \in Step |-> verdict[s]] /\ run = [e \in Assessor |-> run[e]]
    /\ \A s \in Step : verdict[s] # None => ArtefactOK(verdict[s])
    /\ \A e \in Assessor : RunOK(run[e]) /\ (run[e].pc = "inherit" => ArtefactOK(verdict[run[e].spec]))
    /\ started \in 0..MaxAssessments

----------------------------------------------------------------------------
Rejecteds == [A!Gate -> [count: Nat, examples: Seq(A!Dataset)]]

\* A gate's list grows, and its count with it.
LEMMA RejectHolds ==
  ASSUME NEW l \in Rejecteds, NEW g \in A!Gate, NEW ds \in Seq(A!Dataset)
  PROVE  /\ A!Reject(l, g, ds) \in Rejecteds
         /\ A!Reject(l, g, ds)[g].examples = l[g].examples \o ds
         /\ A!Reject(l, g, ds)[g].count = Len(A!Reject(l, g, ds)[g].examples)
         /\ \A h \in A!Gate : h # g => A!Reject(l, g, ds)[h] = l[h]
<1> DEFINE new == l[g].examples \o ds
<1>1. l[g].examples \in Seq(A!Dataset)
  BY DEF Rejecteds
<1>2. new \in Seq(A!Dataset) /\ Len(new) \in Nat
  BY <1>1, ConcatHolds
<1>3. A!Reject(l, g, ds) = [l EXCEPT ![g] = [count |-> Len(new), examples |-> new]]
  BY DEF A!Reject, A!Rejected
<1> HIDE DEF new
<1>4. /\ A!Reject(l, g, ds)[g] = [count |-> Len(new), examples |-> new]
      /\ \A h \in A!Gate : h # g => A!Reject(l, g, ds)[h] = l[h]
  BY <1>3 DEF Rejecteds
<1>5. A!Reject(l, g, ds) \in Rejecteds
  BY <1>2, <1>3 DEF Rejecteds
<1> QED BY <1>4, <1>5 DEF new

\* A list in three parts.
LEMMA ThreeParts ==
  ASSUME NEW s \in Lists, NEW p \in Lists, NEW q \in Lists, NEW t \in Lists,
         A!ToSet(s) = A!ToSet(p) \cup A!ToSet(q) \cup A!ToSet(t),
         A!ToSet(p) \cap A!ToSet(q) = {}, A!ToSet(p) \cap A!ToSet(t) = {},
         A!ToSet(q) \cap A!ToSet(t) = {}
  PROVE  Len(s) = Len(p) + Len(q) + Len(t)
<1>1. q \o t \in Lists /\ Len(q \o t) = Len(q) + Len(t) /\ A!ToSet(q \o t) = A!ToSet(q) \cup A!ToSet(t)
  BY ConcatLists
<1>2. A!ToSet(s) = A!ToSet(p) \cup A!ToSet(q \o t) /\ A!ToSet(p) \cap A!ToSet(q \o t) = {}
  BY <1>1
<1>3. Len(s) = Len(p) + Len(q \o t)
  BY ONLY <1>1, <1>2, s \in Lists, p \in Lists, ListParts
<1>4. Len(p) \in Nat /\ Len(q) \in Nat /\ Len(t) \in Nat
  BY ListHolds
<1> QED BY <1>1, <1>3, <1>4

\* The gates lose no candidate: each is rejected, left uninspected, or survives.
LEMMA RunGatesHolds ==
  ASSUME A!AssessConstants, NEW r \in Locals, Tallied(r), InRounds(r),
         NEW answer \in [A!ToSet(r.fresh) \cap Licensed -> A!Answer],
         NEW q, q = A!RunGates(r, answer)
  PROVE  /\ q = [r EXCEPT !.rejections = q.rejections, !.notInspected = q.notInspected,
                          !.survivors = q.survivors, !.fresh = <<>>]
         /\ q \in Locals /\ Tallied(q) /\ UnderWay(q)
         /\ Len(q.survivors) <= MAX_FINALISTS
<1> DEFINE kept   == A!Those(r.fresh, Licensed)
           all    == A!CheapestFirst(kept)
           n      == A!Inspected(all, answer)
           looked == SubSeq(all, 1, n)
           lo     == A!Those(looked, A!With(answer, "loadable"))
           sc     == A!Those(looked, A!With(answer, "scale"))
           un     == A!Those(r.fresh, A!Dataset \ Licensed)
           pa     == A!Passing(answer, looked)
           rej1   == A!Reject(r.rejections, "license", un)
           rej2   == A!Reject(rej1, "loadable", lo)
           rej3   == A!Reject(rej2, "scale", sc)
<1>0. /\ r.fresh \in Lists /\ r.candidates \in Lists /\ r.survivors = <<>>
      /\ r.notInspected \in Nat /\ r.rejections \in Rejecteds
  BY DEF Locals, InRounds, Rejecteds
<1>1. q = [r EXCEPT !.rejections = rej3, !.notInspected = r.notInspected + (Len(all) - n),
                    !.survivors = r.survivors \o pa, !.fresh = <<>>]
  BY DEF A!RunGates, A!Uninspected
<1>2. /\ kept \in Lists /\ A!ToSet(kept) = A!ToSet(r.fresh) \cap Licensed
      /\ un \in Lists /\ A!ToSet(un) = A!ToSet(r.fresh) \cap (A!Dataset \ Licensed)
  BY <1>0, ThoseOfList
<1>3. all \in Lists /\ A!ToSet(all) = A!ToSet(kept) /\ Len(all) = Len(kept)
  <2> HIDE DEF kept
  <2> QED BY <1>2, CheapestFirstHolds
<1>4. n \in 0..Len(all) /\ Len(pa) <= MAX_FINALISTS
  <2> HIDE DEF all
  <2> QED BY <1>3, InspectedHolds
<1>5. looked \in Lists /\ Len(looked) = n /\ A!ToSet(looked) \subseteq A!ToSet(all)
  <2> HIDE DEF all, n
  <2> QED BY <1>3, <1>4, PrefixOfList
<1>6. /\ lo \in Lists /\ A!ToSet(lo) = A!ToSet(looked) \cap A!With(answer, "loadable")
      /\ sc \in Lists /\ A!ToSet(sc) = A!ToSet(looked) \cap A!With(answer, "scale")
      /\ pa \in Lists /\ A!ToSet(pa) = A!ToSet(looked) \cap A!With(answer, "passed")
  <2> HIDE DEF looked
  <2> QED BY <1>5, ThoseOfList DEF A!Passing
<1>7. /\ r.rejections["license"].examples \in Seq(A!Dataset)
      /\ un \in Seq(A!Dataset) /\ lo \in Seq(A!Dataset) /\ sc \in Seq(A!Dataset)
  <2>1. "license" \in A!Gate
    BY DEF A!Gate
  <2> HIDE DEF un, lo, sc
  <2> QED BY <1>0, <1>2, <1>6, <2>1, ListHolds DEF Rejecteds
<1> HIDE DEF kept, all, n, looked, lo, sc, un, pa
<1>8. /\ rej1 \in Rejecteds /\ rej2 \in Rejecteds /\ rej3 \in Rejecteds
      /\ rej3["license"].examples = r.rejections["license"].examples \o un
      /\ rej3["loadable"].examples = r.rejections["loadable"].examples \o lo
      /\ rej3["scale"].examples = r.rejections["scale"].examples \o sc
      /\ \A g \in {"license", "loadable", "scale"} : rej3[g].count = Len(rej3[g].examples)
      /\ rej3["relevance"] = r.rejections["relevance"] /\ rej3["probe"] = r.rejections["probe"]
  <2>1. /\ "license" \in A!Gate /\ "loadable" \in A!Gate /\ "scale" \in A!Gate
        /\ "relevance" \in A!Gate /\ "probe" \in A!Gate
    BY DEF A!Gate
  <2>2. /\ rej1 \in Rejecteds
        /\ rej1["license"].examples = r.rejections["license"].examples \o un
        /\ rej1["license"].count = Len(rej1["license"].examples)
        /\ \A h \in A!Gate : h # "license" => rej1[h] = r.rejections[h]
    BY ONLY <1>0, <1>7, <2>1, RejectHolds DEF rej1
  <2> HIDE DEF rej1
  <2>3. /\ rej2 \in Rejecteds
        /\ rej2["loadable"].examples = rej1["loadable"].examples \o lo
        /\ rej2["loadable"].count = Len(rej2["loadable"].examples)
        /\ \A h \in A!Gate : h # "loadable" => rej2[h] = rej1[h]
    BY ONLY <1>7, <2>1, <2>2, RejectHolds DEF rej2
  <2> HIDE DEF rej2
  <2>4. /\ rej3 \in Rejecteds
        /\ rej3["scale"].examples = rej2["scale"].examples \o sc
        /\ rej3["scale"].count = Len(rej3["scale"].examples)
        /\ \A h \in A!Gate : h # "scale" => rej3[h] = rej2[h]
    BY ONLY <1>7, <2>1, <2>3, RejectHolds DEF rej3
  <2> HIDE DEF rej3
  <2>5. /\ rej3["license"] = rej1["license"] /\ rej3["loadable"] = rej2["loadable"]
        /\ rej2["scale"] = r.rejections["scale"] /\ rej1["loadable"] = r.rejections["loadable"]
        /\ rej3["relevance"] = r.rejections["relevance"] /\ rej3["probe"] = r.rejections["probe"]
    BY <2>1, <2>2, <2>3, <2>4
  <2> QED BY <2>2, <2>3, <2>4, <2>5
<1> HIDE DEF rej1, rej2, rej3
<1>9. r.survivors \o pa = pa /\ r.notInspected + (Len(all) - n) \in Nat
  <2>1. pa \in Seq(A!Dataset) /\ Len(all) \in Nat
    BY <1>3, <1>6, ListHolds
  <2>2. <<>> \o pa = pa
    BY <2>1
  <2> QED BY <1>0, <1>4, <2>1, <2>2
<1>10. /\ q.rejections = rej3 /\ q.notInspected = r.notInspected + (Len(all) - n)
       /\ q.survivors = pa /\ q.fresh = <<>>
       /\ q.candidates = r.candidates /\ q.dataset = r.dataset /\ q.report = r.report
       /\ q = [r EXCEPT !.rejections = q.rejections, !.notInspected = q.notInspected,
                        !.survivors = q.survivors, !.fresh = <<>>]
  BY <1>1, <1>9 DEF Locals
<1>11. q \in Locals
  <2>1. q.rejections \in [A!Gate -> [count: Nat, examples: Seq(A!Dataset)]]
    BY <1>8, <1>10 DEF Rejecteds
  <2>2. q.notInspected \in Nat /\ q.survivors \in Lists /\ <<>> \in Lists
    BY <1>6, <1>9, <1>10, EmptyList
  <2> QED BY <1>10, <2>1, <2>2 DEF Locals
<1>12. Tallied(q)
  BY <1>8, <1>10 DEF Tallied, Out, A!Gate
<1>13. /\ Out(q, "license") = Out(r, "license") \o un
       /\ Out(q, "loadable") = Out(r, "loadable") \o lo
       /\ Out(q, "scale") = Out(r, "scale") \o sc
       /\ Out(q, "probe") = Out(r, "probe")
       /\ Out(r, "license") \in Seq(A!Dataset) /\ Out(r, "loadable") \in Seq(A!Dataset)
       /\ Out(r, "scale") \in Seq(A!Dataset)
  BY <1>0, <1>8, <1>10 DEF Out, Rejecteds, A!Gate
<1>14. /\ Len(Out(q, "license")) = Len(Out(r, "license")) + Len(un)
       /\ Len(Out(q, "loadable")) = Len(Out(r, "loadable")) + Len(lo)
       /\ Len(Out(q, "scale")) = Len(Out(r, "scale")) + Len(sc)
       /\ Refused(q) = Refused(r) \cup A!ToSet(un) \cup A!ToSet(lo) \cup A!ToSet(sc)
  <2>1. /\ Len(Out(q, "license")) = Len(Out(r, "license")) + Len(un)
        /\ A!ToSet(Out(q, "license")) = A!ToSet(Out(r, "license")) \cup A!ToSet(un)
    <3>1. Out(r, "license") \in Seq(A!Dataset) /\ un \in Seq(A!Dataset)
      BY <1>7, <1>13
    <3>2. /\ Len(Out(r, "license") \o un) = Len(Out(r, "license")) + Len(un)
          /\ A!ToSet(Out(r, "license") \o un) = A!ToSet(Out(r, "license")) \cup A!ToSet(un)
      BY ONLY <3>1, ConcatHolds, ZenonT(60)
    <3> QED BY <1>13, <3>2, Zenon
  <2>2. /\ Len(Out(q, "loadable")) = Len(Out(r, "loadable")) + Len(lo)
        /\ A!ToSet(Out(q, "loadable")) = A!ToSet(Out(r, "loadable")) \cup A!ToSet(lo)
    <3>1. Out(r, "loadable") \in Seq(A!Dataset) /\ lo \in Seq(A!Dataset)
      BY <1>7, <1>13
    <3>2. /\ Len(Out(r, "loadable") \o lo) = Len(Out(r, "loadable")) + Len(lo)
          /\ A!ToSet(Out(r, "loadable") \o lo) = A!ToSet(Out(r, "loadable")) \cup A!ToSet(lo)
      BY ONLY <3>1, ConcatHolds, ZenonT(60)
    <3> QED BY <1>13, <3>2, Zenon
  <2>3. /\ Len(Out(q, "scale")) = Len(Out(r, "scale")) + Len(sc)
        /\ A!ToSet(Out(q, "scale")) = A!ToSet(Out(r, "scale")) \cup A!ToSet(sc)
    <3>1. Out(r, "scale") \in Seq(A!Dataset) /\ sc \in Seq(A!Dataset)
      BY <1>7, <1>13
    <3>2. /\ Len(Out(r, "scale") \o sc) = Len(Out(r, "scale")) + Len(sc)
          /\ A!ToSet(Out(r, "scale") \o sc) = A!ToSet(Out(r, "scale")) \cup A!ToSet(sc)
      BY ONLY <3>1, ConcatHolds, ZenonT(60)
    <3> QED BY <1>13, <3>2, Zenon
  <2>4. Refused(q) = Refused(r) \cup A!ToSet(un) \cup A!ToSet(lo) \cup A!ToSet(sc)
    BY <2>1, <2>2, <2>3 DEF Refused
  <2> QED BY <2>1, <2>2, <2>3, <2>4
<1>15. Len(r.fresh) = Len(all) + Len(un)
  <2>1. A!ToSet(r.fresh) = A!ToSet(all) \cup A!ToSet(un) /\ A!ToSet(all) \cap A!ToSet(un) = {}
    BY <1>0, <1>2, <1>3, ListHolds
  <2> QED BY ONLY <1>0, <1>2, <1>3, <2>1, ListParts
<1>16. n = Len(pa) + Len(lo) + Len(sc)
  <2>1. \A d \in A!ToSet(looked) : d \in DOMAIN answer /\ answer[d] \in {"passed", "loadable", "scale"}
    BY <1>2, <1>3, <1>5 DEF A!Answer
  <2>2. A!ToSet(looked) = A!ToSet(pa) \cup A!ToSet(lo) \cup A!ToSet(sc)
    BY <1>6, <2>1 DEF A!With
  <2>3. /\ A!ToSet(pa) \cap A!ToSet(lo) = {} /\ A!ToSet(pa) \cap A!ToSet(sc) = {}
        /\ A!ToSet(lo) \cap A!ToSet(sc) = {}
    BY <1>6 DEF A!With
  <2>4. Len(looked) = Len(pa) + Len(lo) + Len(sc)
    <3>1. looked \in Lists /\ pa \in Lists /\ lo \in Lists /\ sc \in Lists
      BY <1>5, <1>6
    <3> QED BY ONLY <3>1, <2>2, <2>3, ThreeParts
  <2> QED BY <1>5, <2>4
<1>17. UnderWay(q)
  <2>1. Left(r) = Len(r.fresh)
    BY <1>0, ListHolds, EmptyList DEF InRounds, UnderWay
  <2>2. Left(q) = Len(q.fresh) + Len(q.survivors)
    <3>1. /\ Len(r.candidates) \in Nat /\ Len(pa) \in Nat /\ Len(lo) \in Nat /\ Len(sc) \in Nat
          /\ Len(un) \in Nat /\ Len(all) \in Nat
          /\ Len(Out(r, "license")) \in Nat /\ Len(Out(r, "loadable")) \in Nat
          /\ Len(Out(r, "scale")) \in Nat
      <4>1. /\ r.candidates \in Lists /\ pa \in Lists /\ lo \in Lists /\ sc \in Lists
            /\ un \in Lists /\ all \in Lists
        BY <1>0, <1>2, <1>3, <1>6
      <4>2. /\ Len(r.candidates) \in Nat /\ Len(pa) \in Nat /\ Len(lo) \in Nat
            /\ Len(sc) \in Nat /\ Len(un) \in Nat /\ Len(all) \in Nat
        BY ONLY <4>1, ListHolds
      <4>3. \A t \in Seq(A!Dataset) : Len(t) \in Nat
        OBVIOUS
      <4> QED BY ONLY <1>13, <4>2, <4>3
    <3>2. n \in Nat /\ r.notInspected \in Nat
      BY <1>0, <1>4, <3>1
    <3>3. Left(r) = Len(r.candidates) - r.notInspected - Len(Out(r, "license"))
                    - Len(Out(r, "loadable")) - Len(Out(r, "scale"))
      BY DEF Left
    <3>4. Left(q) = Len(r.candidates) - (r.notInspected + (Len(all) - n))
                    - (Len(Out(r, "license")) + Len(un)) - (Len(Out(r, "loadable")) + Len(lo))
                    - (Len(Out(r, "scale")) + Len(sc))
      BY <1>10, <1>14 DEF Left
    <3> DEFINE c == Len(r.candidates)
               x == r.notInspected
               l1 == Len(Out(r, "license"))
               l2 == Len(Out(r, "loadable"))
               l3 == Len(Out(r, "scale"))
               f == Len(r.fresh)
               m == Len(all)
               u == Len(un)
               p == Len(pa)
               o == Len(lo)
               k == Len(sc)
    <3>5. Left(q) = Len(pa)
      <4>1. /\ c \in Nat /\ x \in Nat /\ l1 \in Nat /\ l2 \in Nat /\ l3 \in Nat /\ m \in Nat
            /\ u \in Nat /\ p \in Nat /\ o \in Nat /\ k \in Nat /\ n \in Nat
            /\ f = m + u /\ n = p + o + k /\ f = c - x - l1 - l2 - l3
        BY <1>15, <1>16, <2>1, <3>1, <3>2, <3>3
      <4>2. Left(q) = c - (x + (m - n)) - (l1 + u) - (l2 + o) - (l3 + k)
        BY <3>4
      <4> HIDE DEF c, x, l1, l2, l3, f, m, u, p, o, k
      <4>3. Left(q) = p
        BY <4>1, <4>2
      <4> QED BY <4>3 DEF p
    <3> QED BY <1>10, <3>1, <3>5, EmptyList
  <2>3. A!ToSet(pa) \cup A!ToSet(un) \cup A!ToSet(lo) \cup A!ToSet(sc) \subseteq A!ToSet(r.fresh)
    BY <1>2, <1>3, <1>5, <1>6
  <2>4. A!ToSet(pa) \cap (A!ToSet(un) \cup A!ToSet(lo) \cup A!ToSet(sc)) = {}
    BY <1>2, <1>3, <1>5, <1>6 DEF A!With
  <2>5. /\ A!ToSet(r.fresh) \cup Refused(r) \subseteq A!ToSet(r.candidates)
        /\ A!ToSet(r.fresh) \cap Refused(r) = {}
        /\ r.dataset = A!NoDataset /\ r.report = A!NoReport /\ Out(r, "probe") = <<>>
    BY DEF InRounds, UnderWay
  <2>6. A!ToSet(q.fresh) = {} /\ A!ToSet(q.survivors) = A!ToSet(pa)
    BY <1>10, EmptyList
  <2>7. /\ A!ToSet(q.fresh) \cup A!ToSet(q.survivors) \cup Refused(q) \subseteq A!ToSet(q.candidates)
        /\ (A!ToSet(q.fresh) \cup A!ToSet(q.survivors)) \cap Refused(q) = {}
    BY <1>10, <1>14, <2>3, <2>4, <2>5, <2>6
  <2> QED BY <1>10, <1>13, <2>2, <2>5, <2>7 DEF UnderWay
<1> QED BY <1>4, <1>10, <1>11, <1>12, <1>17

\* The finalists are what survived: there is room for all of it.
LEMMA FinalistsHold ==
  ASSUME A!AssessConstants, NEW s \in Lists, Len(s) <= MAX_FINALISTS,
         NEW f, f = A!UpTo(MAX_FINALISTS, A!CheapestFirst(s))
  PROVE  f \in Lists /\ A!ToSet(f) = A!ToSet(s) /\ Len(f) = Len(s)
<1> DEFINE c == A!CheapestFirst(s)
<1>1. c \in Lists /\ A!ToSet(c) = A!ToSet(s) /\ Len(c) = Len(s)
  BY CheapestFirstHolds
<1>2. MAX_FINALISTS \in Nat
  BY DEF A!AssessConstants
<1> HIDE DEF c
<1>3. A!UpTo(MAX_FINALISTS, c) = c
  BY <1>1, <1>2, UpToHolds
<1> QED BY <1>1, <1>3 DEF c

\* The finalists are probed up to the first that passes.
LEMMA ProbedHolds ==
  ASSUME NEW f \in Lists, f # <<>>, NEW report
  PROVE  /\ A!Probed(f, report) \in 1..Len(f)
         /\ \/ report[f[A!Probed(f, report)]].outcome = "pass"
            \/ A!Probed(f, report) = Len(f)
<1> DEFINE Pass(n) == report[f[n]].outcome = "pass"
           First(n) == /\ Pass(n) \/ n = Len(f)
                       /\ \A k \in 1..(n - 1) : ~Pass(k)
           Stops == {n \in 1..Len(f) : Pass(n) \/ n = Len(f)}
<1>1. Len(f) \in Nat /\ Len(f) # 0
  BY ListHolds, EmptyList
<1>2. Stops \in SUBSET Nat /\ Len(f) \in Stops
  BY <1>1
<1>3. PICK n \in Stops : \A k \in Stops : n <= k
  <2> HIDE DEF Stops
  <2> QED BY <1>2, LeastNat
<1>4. \A k \in 1..(n - 1) : k \in 1..Len(f) /\ ~(n <= k)
  BY <1>1, <1>3
<1>5. n \in 1..Len(f) /\ First(n)
  <2> HIDE DEF Pass
  <2> QED BY <1>3, <1>4
<1> DEFINE m == A!Probed(f, report)
<1>6. m = CHOOSE k \in 1..Len(f) : First(k)
  BY DEF A!Probed
<1> HIDE DEF First, m
<1>7. m \in 1..Len(f) /\ First(m)
  BY <1>5, <1>6
<1> QED BY <1>7 DEF m, First

\* What is cited was probed, and is a failure only where all are.
LEMMA ChosenHolds ==
  ASSUME NEW p \in Lists, p # <<>>, NEW F, A!ToSet(p) \subseteq F,
         NEW report \in [F -> A!Report], NEW c, c = A!Chosen(p, report)
  PROVE  /\ c \in A!ToSet(p)
         /\ report[c].outcome = "fail" => \A d \in A!ToSet(p) : report[d].outcome = "fail"
<1> DEFINE Has(o) == A!With(A!Outcomes(report), o)
           b1 == A!Those(p, Has("pass"))
           b2 == A!Those(p, Has("unconfirmed"))
           b3 == A!Those(p, Has("fail"))
           b == (b1 \o b2) \o b3
<1>1. \A d \in A!ToSet(p) : report[d].outcome \in {"pass", "unconfirmed", "fail"}
  BY DEF A!Report
<1>2. \A o : Has(o) = {d \in F : report[d].outcome = o}
  BY DEF A!With, A!Outcomes
<1>3. A!ToSet(p) # {}
  BY ListHolds
<1>4. c = Head(b)
  BY DEF A!Chosen, A!Preference
<1> HIDE DEF Has
<1>5. /\ b1 \in Lists /\ A!ToSet(b1) = A!ToSet(p) \cap Has("pass")
      /\ b2 \in Lists /\ A!ToSet(b2) = A!ToSet(p) \cap Has("unconfirmed")
      /\ b3 \in Lists /\ A!ToSet(b3) = A!ToSet(p) \cap Has("fail")
  BY ThoseOfList
<1>6. /\ b1 \in Seq(A!Dataset) /\ b2 \in Seq(A!Dataset) /\ b3 \in Seq(A!Dataset)
  <2> HIDE DEF b1, b2, b3
  <2> QED BY <1>5, ListHolds
<1> HIDE DEF b1, b2, b3
<1>7. b1 \o b2 \in Seq(A!Dataset) /\ A!ToSet(b1 \o b2) = A!ToSet(b1) \cup A!ToSet(b2)
  BY <1>6, ConcatHolds, Zenon
<1>8. b \in Seq(A!Dataset) /\ A!ToSet(b) = A!ToSet(b1 \o b2) \cup A!ToSet(b3)
  <2> DEFINE h == b1 \o b2
  <2>1. h \in Seq(A!Dataset)
    BY <1>7
  <2>2. b = h \o b3
    OBVIOUS
  <2> HIDE DEF h, b
  <2>3. h \o b3 \in Seq(A!Dataset) /\ A!ToSet(h \o b3) = A!ToSet(h) \cup A!ToSet(b3)
    BY <1>6, <2>1, ConcatHolds, Zenon
  <2>4. b \in Seq(A!Dataset) /\ A!ToSet(b) = A!ToSet(h) \cup A!ToSet(b3)
    BY <2>2, <2>3, Zenon
  <2> QED BY <2>4, Zenon DEF h
<1>9. A!ToSet(b) = A!ToSet(p)
  BY <1>1, <1>2, <1>5, <1>7, <1>8
<1>10. b # <<>>
  <2>1. A!ToSet(<<>>) = {}
    BY EmptyList
  <2> QED BY <1>3, <1>9, <2>1, Zenon
<1>11. c \in A!ToSet(p)
  <2>1. Head(b) \in A!ToSet(b)
    BY <1>8, <1>10, HeadHolds, Zenon
  <2> QED BY <1>4, <1>9, <2>1, Zenon
<1>12. ASSUME b1 \o b2 # <<>> PROVE c \in A!ToSet(b1) \cup A!ToSet(b2)
  <2> DEFINE h == b1 \o b2
  <2>1. h \in Seq(A!Dataset) /\ h # <<>> /\ A!ToSet(h) = A!ToSet(b1) \cup A!ToSet(b2)
    BY <1>7, <1>12
  <2>2. c = Head(h \o b3)
    BY <1>4
  <2> HIDE DEF h
  <2>3. Head(h \o b3) = Head(h)
    BY <1>6, <2>1
  <2>4. Head(h) \in A!ToSet(h)
    BY <2>1, HeadHolds, Zenon
  <2> QED BY <2>1, <2>2, <2>3, <2>4
<1>13. ASSUME b1 \o b2 = <<>> PROVE A!ToSet(b1) \cup A!ToSet(b2) = {}
  <2>1. A!ToSet(<<>>) = {}
    BY EmptyList
  <2> QED BY <1>7, <1>13, <2>1, Zenon
<1>14. ASSUME report[c].outcome = "fail", NEW d \in A!ToSet(p) PROVE report[d].outcome = "fail"
  <2>1. c \notin A!ToSet(b1) \cup A!ToSet(b2)
    BY <1>2, <1>5, <1>14
  <2>2. A!ToSet(b1) \cup A!ToSet(b2) = {}
    BY <1>12, <1>13, <2>1
  <2>3. d \notin Has("pass") /\ d \notin Has("unconfirmed")
    BY <1>5, <1>14, <2>2
  <2> QED BY <1>1, <1>2, <1>14, <2>3
<1> QED BY <1>11, <1>14

\* The failures that are not cited are rejected.
LEMMA LosersHold ==
  ASSUME NEW p \in Lists, NEW F, A!ToSet(p) \subseteq F, NEW report \in [F -> A!Report], NEW c,
         NEW l, l = A!Losers(p, report, c)
  PROVE  l \in Lists /\ A!ToSet(l) = {d \in A!ToSet(p) : report[d].outcome = "fail"} \ {c}
<1>1. A!With(A!Outcomes(report), "fail") = {d \in F : report[d].outcome = "fail"}
  BY DEF A!With, A!Outcomes
<1>2. l \in Lists /\ A!ToSet(l) = A!ToSet(p) \cap ({d \in F : report[d].outcome = "fail"} \ {c})
  BY <1>1, ThoseOfList DEF A!Losers
<1> QED BY <1>2

\* A list without one of its elements is shorter by one.
LEMMA OneLess ==
  ASSUME NEW s \in Lists, NEW c \in A!ToSet(s), NEW l \in Lists
  PROVE  /\ A!ToSet(l) \subseteq A!ToSet(s) \ {c} => Len(l) < Len(s)
         /\ A!ToSet(l) = A!ToSet(s) \ {c} => Len(l) = Len(s) - 1
<1>1. /\ IsFiniteSet(A!ToSet(s)) /\ Cardinality(A!ToSet(s)) = Len(s) /\ Len(s) \in Nat
      /\ Cardinality(A!ToSet(l)) = Len(l) /\ Len(l) \in Nat
  BY ListHolds
<1>2. IsFiniteSet(A!ToSet(s) \ {c}) /\ Cardinality(A!ToSet(s) \ {c}) = Len(s) - 1
  <2>1. Cardinality(A!ToSet(s) \ {c}) = IF c \in A!ToSet(s) THEN Cardinality(A!ToSet(s)) - 1
                                         ELSE Cardinality(A!ToSet(s))
    BY <1>1, FS_RemoveElement
  <2> QED BY <1>1, <2>1, FS_RemoveElement
<1>3. ASSUME A!ToSet(l) \subseteq A!ToSet(s) \ {c} PROVE Len(l) < Len(s)
  <2>1. Cardinality(A!ToSet(l)) <= Cardinality(A!ToSet(s) \ {c})
    BY <1>2, <1>3, FS_Subset
  <2> QED BY <1>1, <1>2, <2>1
<1>4. ASSUME A!ToSet(l) = A!ToSet(s) \ {c} PROVE Len(l) = Len(s) - 1
  BY <1>1, <1>2, <1>4
<1> QED BY <1>3, <1>4

\* A dataset cited from among the survivors, whether it was probed or not.
LEMMA ProbeAllHolds ==
  ASSUME A!AssessConstants, NEW r \in Locals, RunOK(r), r.pc = "probe",
         NEW f, f = A!UpTo(MAX_FINALISTS, A!CheapestFirst(r.survivors)),
         NEW report \in [A!ToSet(f) -> A!Report],
         NEW q, q = A!ProbeAll(r, f, report)
  PROVE  /\ q = [r EXCEPT !.dataset = q.dataset, !.report = q.report, !.survivors = <<>>,
                          !.rejections = q.rejections]
         /\ q \in Locals /\ Tallied(q) /\ ToAssemble(q)
<1> DEFINE n == A!Probed(f, report)
           p == SubSeq(f, 1, n)
           c == A!Chosen(p, report)
           l == A!Losers(p, report, c)
           rej == A!Reject(r.rejections, "probe", l)
<1>0. /\ r.survivors \in Lists /\ r.survivors # <<>> /\ Len(r.survivors) <= MAX_FINALISTS
      /\ r.rejections \in Rejecteds /\ Tallied(r) /\ UnderWay(r) /\ r.fresh = <<>>
  BY DEF RunOK, Locals, Rejecteds
<1>1. f \in Lists /\ A!ToSet(f) = A!ToSet(r.survivors) /\ Len(f) = Len(r.survivors) /\ f # <<>>
  <2>1. f \in Lists /\ A!ToSet(f) = A!ToSet(r.survivors) /\ Len(f) = Len(r.survivors)
    BY <1>0, FinalistsHold
  <2>2. A!ToSet(f) # {}
    BY <1>0, <2>1, ListHolds
  <2> QED BY <2>1, <2>2, ListHolds
<1>2. n \in 1..Len(f) /\ (report[f[n]].outcome = "pass" \/ n = Len(f))
  BY <1>1, ProbedHolds
<1>3. /\ p \in Lists /\ Len(p) = n /\ A!ToSet(p) = {f[i] : i \in 1..n}
      /\ A!ToSet(p) \subseteq A!ToSet(f) /\ (n = Len(f) => p = f)
  <2>1. n \in 0..Len(f)
    BY <1>2
  <2> HIDE DEF n
  <2> QED BY <1>1, <2>1, PrefixOfList
<1>4. p # <<>> /\ f[n] \in A!ToSet(p)
  BY <1>2, <1>3, EmptyList
<1> HIDE DEF n, p
<1>5. /\ c \in A!ToSet(p)
      /\ report[c].outcome = "fail" => \A d \in A!ToSet(p) : report[d].outcome = "fail"
  <2>1. p \in Lists /\ p # <<>> /\ A!ToSet(p) \subseteq A!ToSet(f)
    BY <1>3, <1>4
  <2>2. report \in [A!ToSet(f) -> A!Report]
    OBVIOUS
  <2> QED BY ONLY <2>1, <2>2, ChosenHolds DEF c
<1> HIDE DEF c
<1>6. l \in Lists /\ A!ToSet(l) = {d \in A!ToSet(p) : report[d].outcome = "fail"} \ {c}
  BY <1>3, LosersHold
<1> HIDE DEF l
<1>7. c \in A!ToSet(f) /\ A!ToSet(l) \subseteq A!ToSet(f) \ {c} /\ Len(l) < Len(f)
  <2>1. c \in A!ToSet(f) /\ A!ToSet(l) \subseteq A!ToSet(f) \ {c}
    BY <1>3, <1>5, <1>6
  <2> QED BY <1>1, <1>6, <2>1, OneLess
<1>8. report[c].outcome = "fail" => Len(l) = Len(f) - 1
  <2> SUFFICES ASSUME report[c].outcome = "fail" PROVE Len(l) = Len(f) - 1
    OBVIOUS
  <2>1. \A d \in A!ToSet(p) : report[d].outcome = "fail"
    BY <1>5
  <2>2. p = f
    BY <1>2, <1>3, <1>4, <2>1
  <2>3. A!ToSet(l) = A!ToSet(f) \ {c}
    BY <1>6, <2>1, <2>2
  <2> QED BY <1>1, <1>6, <1>7, <2>3, OneLess
<1>9. /\ rej \in Rejecteds /\ rej["probe"].examples = r.rejections["probe"].examples \o l
      /\ rej["probe"].count = Len(rej["probe"].examples)
      /\ \A h \in A!Gate : h # "probe" => rej[h] = r.rejections[h]
  <2>1. "probe" \in A!Gate /\ l \in Seq(A!Dataset)
    BY <1>6, ListHolds DEF A!Gate
  <2> QED BY ONLY <1>0, <2>1, RejectHolds DEF rej
<1> HIDE DEF rej
<1>10. q = [r EXCEPT !.dataset = c, !.report = report[c], !.survivors = <<>>, !.rejections = rej]
  BY DEF A!ProbeAll, n, p, c, l, rej
<1>11. /\ q.dataset = c /\ q.report = report[c] /\ q.survivors = <<>> /\ q.rejections = rej
       /\ q.candidates = r.candidates /\ q.notInspected = r.notInspected /\ q.spec = r.spec
       /\ q = [r EXCEPT !.dataset = q.dataset, !.report = q.report, !.survivors = <<>>,
                        !.rejections = q.rejections]
  BY <1>10 DEF Locals
<1>12. c \in A!Dataset /\ report[c] \in A!Report /\ c \in A!ToSet(r.candidates) /\ c \notin Refused(r)
  <2>1. c \in A!ToSet(r.survivors) /\ report[c] \in A!Report
    BY <1>1, <1>7
  <2> QED BY <1>0, <2>1, ListHolds DEF UnderWay
<1>13. q \in Locals
  BY <1>9, <1>11, <1>12, EmptyList DEF Locals, Rejecteds
<1>14. Tallied(q)
  <2> SUFFICES ASSUME NEW g \in A!Gate PROVE q.rejections[g].count = Len(q.rejections[g].examples)
    BY DEF Tallied, Out
  <2>1. CASE g = "probe"
    BY <1>9, <1>11, <2>1
  <2>2. CASE g # "probe"
    <3>1. q.rejections[g] = r.rejections[g]
      BY <1>9, <1>11, <2>2
    <3> QED BY <1>0, <3>1 DEF Tallied, Out
  <2> QED BY <2>1, <2>2
<1>15. Out(q, "probe") = l /\ \A h \in A!Gate : h # "probe" => Out(q, h) = Out(r, h)
  <2>1. r.rejections["probe"].examples = <<>>
    BY <1>0 DEF UnderWay, Out
  <2>2. <<>> \o l = l
    <3>1. l \in Seq(A!Dataset)
      BY <1>6, ListHolds
    <3> QED BY <3>1
  <2> QED BY <1>9, <1>11, <2>1, <2>2 DEF Out
<1>16. Left(q) = Len(f) /\ Refused(q) = Refused(r)
  <2>1. /\ Out(q, "license") = Out(r, "license") /\ Out(q, "loadable") = Out(r, "loadable")
        /\ Out(q, "scale") = Out(r, "scale")
    BY <1>15 DEF A!Gate
  <2>2. Left(q) = Left(r) /\ Refused(q) = Refused(r)
    BY <1>11, <2>1 DEF Left, Refused
  <2>3. Left(r) = Len(f)
    BY <1>0, <1>1, EmptyList, ListHolds DEF UnderWay
  <2> QED BY <2>2, <2>3
<1>17. ToAssemble(q)
  <2>1. Len(f) \in Nat /\ Len(l) \in Nat /\ Len(f) # 0 /\ Len(f) <= MAX_FINALISTS
        /\ MAX_FINALISTS \in Nat
    BY <1>0, <1>1, <1>6, <1>7, ListHolds DEF A!AssessConstants
  <2>2. c # A!NoDataset
    <3>1. \A d \in A!Dataset : d # 0
      BY DEF A!Dataset, A!AssessConstants
    <3> QED BY <1>12, <3>1 DEF A!NoDataset
  <2>3. report[c] # A!NoReport
    BY <1>12 DEF A!Report, A!NoReport
  <2>4. c \notin A!ToSet(l)
    BY <1>7
  <2> QED BY <1>7, <1>8, <1>11, <1>12, <1>15, <1>16, <2>1, <2>2, <2>3, <2>4 DEF ToAssemble
<1> QED BY <1>11, <1>13, <1>14, <1>17

\* What the registry says of the steps.
LEMMA RegistryHolds ==
  ASSUME A!AssessConstants, NEW s \in Step
  PROVE  /\ A!BRIDGE_SPECS[s].probe \in BOOLEAN /\ A!BRIDGE_SPECS[s].no_probe_reason \in BOOLEAN
         /\ s \in A!Assessed => A!BRIDGE_SPECS[s].probe # A!BRIDGE_SPECS[s].no_probe_reason
         /\ A!BRIDGE_SPECS[s].inherits_from = None => s \in A!Assessed
         /\ A!BRIDGE_SPECS[s].inherits_from # None => A!BRIDGE_SPECS[s].inherits_from \in A!Assessed
         /\ A!Assessed \subseteq Step
<1> DEFINE names == {"step0", "step1", "step2", "step3", "step4", "step5", "step6", "step7", "step8", "step9"}
<1>1. DOMAIN A!BRIDGE_SPECS = names
  BY DEF A!BRIDGE_SPECS
<1>2. s \in names
  BY <1>1 DEF A!AssessConstants
<1>3. A!BRIDGE_SPECS[s].probe \in BOOLEAN /\ A!BRIDGE_SPECS[s].no_probe_reason \in BOOLEAN
  <2> USE DEF A!BRIDGE_SPECS, A!Own, A!Heir
  <2>1. CASE s = "step0"
    BY <2>1
  <2>2. CASE s = "step1"
    BY <2>2
  <2>3. CASE s = "step2"
    BY <2>3
  <2>4. CASE s = "step3"
    BY <2>4
  <2>5. CASE s = "step4"
    BY <2>5
  <2>6. CASE s = "step5"
    BY <2>6
  <2>7. CASE s = "step6"
    BY <2>7
  <2>8. CASE s = "step7"
    BY <2>8
  <2>9. CASE s = "step8"
    BY <2>9
  <2>10. CASE s = "step9"
    BY <2>10
  <2> QED BY ONLY <1>2, <2>1, <2>2, <2>3, <2>4, <2>5, <2>6, <2>7, <2>8, <2>9, <2>10
<1>4. IF A!BRIDGE_SPECS[s].inherits_from = None
      THEN A!BRIDGE_SPECS[s].probe # A!BRIDGE_SPECS[s].no_probe_reason
      ELSE A!BRIDGE_SPECS[A!BRIDGE_SPECS[s].inherits_from].inherits_from = None
  BY <1>1, <1>2 DEF A!AssessConstants, A!check_bridge_registry
<1>5. A!BRIDGE_SPECS[s].inherits_from \in Step \cup {None}
  BY DEF A!AssessConstants
<1> QED BY <1>3, <1>4, <1>5 DEF A!Assessed

\* No dataset has the number that says there is none.
LEMMA NoDatasetIsNone == ASSUME A!AssessConstants PROVE A!NoDataset \notin A!Dataset
  BY DEF A!NoDataset, A!Dataset, A!AssessConstants

\* What a run assembles stands on its records, and the critic refuses it in one
\* case only.
LEMMA ArtefactHolds ==
  ASSUME A!AssessConstants, NEW r \in Locals, RunOK(r), r.pc = "assemble",
         NEW a, a = A!Artefact(r)
  PROVE  /\ ArtefactOK(a)
         /\ ~A!Accepts(a, r) => A!BRIDGE_SPECS[r.spec].probe /\ r.dataset = A!NoDataset
<1>1. /\ ToAssemble(r) /\ Tallied(r) /\ r.spec \in A!Assessed /\ r.spec \in Step
      /\ r.rejections \in Rejecteds /\ r.candidates \in Lists /\ Len(r.candidates) \in Nat
      /\ r.dataset \in A!Dataset \cup {A!NoDataset}
      /\ r.report \in A!Report \cup {A!NoReport} /\ r.notInspected \in Nat
      /\ r.round \in 0..MAX_REPLANS /\ r.api \in BOOLEAN
  BY ListHolds DEF RunOK, Locals, Rejecteds, A!Assessed
<1>2. /\ a.verdict = A!decide_verdict_value(r) /\ a.dataset = r.dataset /\ a.fit = A!FitSection(r)
      /\ a.evidence = A!Evidence(r) /\ a.inherited_from = None
      /\ a = [verdict |-> A!decide_verdict_value(r), dataset |-> r.dataset, fit |-> A!FitSection(r),
              evidence |-> A!Evidence(r), inherited_from |-> None]
  BY DEF A!Artefact
<1>3. /\ a.evidence.candidates_considered = Len(r.candidates) + r.rejections["relevance"].count
      /\ a.evidence.rejections = r.rejections
      /\ a.evidence.replan_rounds = r.round /\ a.evidence.not_inspected = r.notInspected
      /\ A!Evidence(r) = [candidates_considered |-> Len(r.candidates) + r.rejections["relevance"].count,
                          rejections |-> r.rejections, replan_rounds |-> r.round,
                          not_inspected |-> r.notInspected]
  BY <1>2 DEF A!Evidence
<1>4. /\ \A g \in A!Gate : /\ r.rejections[g].count = Len(Out(r, g)) /\ r.rejections[g].count \in Nat
                           /\ r.rejections[g].examples = Out(r, g)
      /\ A!Gate = {"relevance", "license", "loadable", "scale", "probe"}
  BY <1>1 DEF Tallied, Out, Rejecteds, A!Gate
<1>5. A!Finalists(a) = Left(r)
  <2> DEFINE count(g) == a.evidence.rejections[g].count
             c == Len(r.candidates)
             v == count("relevance")
             x == a.evidence.not_inspected
             k1 == count("license")
             k2 == count("loadable")
             k3 == count("scale")
  <2>1. A!Finalists(a) = a.evidence.candidates_considered - x - v - k1 - k2 - k3
    BY DEF A!Finalists
  <2>2. a.evidence.candidates_considered = c + v
    BY <1>3
  <2>3. Left(r) = c - x - k1 - k2 - k3
    BY <1>3, <1>4 DEF Left
  <2>4. c \in Nat /\ v \in Nat /\ x \in Nat /\ k1 \in Nat /\ k2 \in Nat /\ k3 \in Nat
    BY <1>1, <1>3, <1>4
  <2> HIDE DEF c, v, x, k1, k2, k3
  <2> QED BY <2>1, <2>2, <2>3, <2>4
<1>6. /\ A!decide_verdict_value(r) \in {"buildable_now", "buildable_after_collection",
                                        "not_at_this_step", "not_at_hobby_scale"}
      /\ A!decide_verdict_value(r) = "not_at_this_step" =>
            r.dataset # A!NoDataset /\ r.report.outcome = "fail"
  BY DEF A!decide_verdict_value
<1>7. A!FitSection(r) \in [probed: BOOLEAN, outcome: {"none", "pass", "unconfirmed", "fail"},
                           unconfirmed_reason: BOOLEAN]
  <2>1. r.report.outcome \in {"none", "pass", "unconfirmed", "fail"}
    BY <1>1 DEF A!Report, A!NoReport
  <2>2. (r.report # A!NoReport \/ A!BRIDGE_SPECS[r.spec].no_probe_reason) \in BOOLEAN
    BY Zenon
  <2> QED BY <2>1, <2>2 DEF A!FitSection
<1>8. a \in A!Artefacts
  <2>1. A!Evidence(r) \in [candidates_considered: Nat,
                           rejections: [A!Gate -> [count: Nat, examples: Seq(A!Dataset)]],
                           replan_rounds: 0..MAX_REPLANS, not_inspected: Nat]
    BY <1>1, <1>3, <1>4 DEF Rejecteds
  <2> QED BY <1>1, <1>2, <1>6, <1>7, <2>1 DEF A!Artefacts
<1>9. /\ A!Finalists(a) \in 0..MAX_FINALISTS
      /\ (A!Finalists(a) = 0) <=> (a.dataset = A!NoDataset)
      /\ a.evidence.rejections["probe"].count <= A!Finalists(a)
      /\ a.dataset # A!NoDataset => a.evidence.rejections["probe"].count < A!Finalists(a)
      /\ a.verdict = "not_at_this_step" =>
            a.evidence.rejections["probe"].count = A!Finalists(a) - 1
  <2>1. a.evidence.rejections["probe"].count = Len(Out(r, "probe"))
    BY <1>3, <1>4
  <2> QED BY <1>1, <1>2, <1>5, <1>6, <2>1 DEF ToAssemble
<1>10. \A g \in A!Gate \ {"relevance"} : a.dataset \notin A!ToSet(a.evidence.rejections[g].examples)
  BY <1>1, <1>2, <1>3, <1>4 DEF ToAssemble, Refused
<1>11. ArtefactOK(a)
  BY <1>8, <1>9, <1>10 DEF ArtefactOK
<1>12. ASSUME ~A!Accepts(a, r) PROVE A!BRIDGE_SPECS[r.spec].probe /\ r.dataset = A!NoDataset
  <2>1. a.dataset # A!NoDataset => a.dataset \in A!ToSet(r.candidates)
    BY <1>1, <1>2 DEF ToAssemble
  <2>2. \A g \in A!Gate : a.evidence.rejections[g].count = Len(a.evidence.rejections[g].examples)
    BY <1>3, <1>4
  <2>3. ~(IF a.fit.probed THEN a.fit.outcome = r.report.outcome ELSE a.fit.unconfirmed_reason)
    BY <1>2, <1>12, <2>1, <2>2 DEF A!Accepts
  <2>4. ~r.report.measured
    BY <1>2, <2>3 DEF A!FitSection
  <2>5. a.fit = [probed |-> FALSE, outcome |-> "none",
                 unconfirmed_reason |-> \/ r.report # A!NoReport
                                        \/ A!BRIDGE_SPECS[r.spec].no_probe_reason]
    BY <1>2, <2>4 DEF A!FitSection
  <2>6. r.report = A!NoReport /\ ~A!BRIDGE_SPECS[r.spec].no_probe_reason
    BY <2>3, <2>5
  <2>7. A!BRIDGE_SPECS[r.spec].probe
    BY <1>1, <2>6, RegistryHolds
  <2> QED BY <1>1, <2>6, <2>7 DEF ToAssemble
<1> QED BY <1>11, <1>12

----------------------------------------------------------------------------
\* An executor that holds no run.
LEMMA IdleHolds ==
  ASSUME A!AssessConstants, NEW how \in A!Ended
  PROVE  RunOK(A!Idle(how))
<1>1. A!Rejections(<<>>) \in Rejecteds /\ Tallied(A!Idle(how))
  BY DEF A!Rejections, A!Rejected, Rejecteds, Tallied, Out, A!Idle
<1>2. MAX_REPLANS \in Nat /\ MAX_FINALISTS \in Nat
  BY DEF A!AssessConstants
<1>3. A!Idle(how) \in Locals
  BY <1>1, <1>2, EmptyList DEF A!Idle, Locals, Rejecteds, A!Place
<1> QED BY <1>1, <1>2, <1>3, EmptyList DEF RunOK, A!Idle

\* A step of one executor.
LEMMA OneMoves ==
  ASSUME AssessInv, NEW e \in Assessor, NEW q, RunOK(q), run' = [run EXCEPT ![e] = q],
         q.pc = "inherit" => ArtefactOK(verdict'[q.spec]),
         UNCHANGED modality, pool' # None => pool' = pool \/ PoolOK(pool'),
         verdict' = [s \in Step |-> verdict'[s]],
         \A s \in Step : verdict'[s] = verdict[s] \/ ArtefactOK(verdict'[s]),
         started' \in 0..MaxAssessments
  PROVE  AssessInv'
<1>1. run' = [f \in Assessor |-> run'[f]] /\ run'[e] = q /\ \A f \in Assessor : f # e => run'[f] = run[f]
  BY DEF AssessInv
<1>2. ASSUME NEW f \in Assessor
      PROVE  RunOK(run'[f]) /\ (run'[f].pc = "inherit" => ArtefactOK(verdict'[run'[f].spec]))
  <2>1. CASE f = e
    BY <1>1, <2>1
  <2>2. CASE f # e
    <3>1. RunOK(run[f]) /\ (run[f].pc = "inherit" => ArtefactOK(verdict[run[f].spec])) /\ run'[f] = run[f]
      BY <1>1, <2>2 DEF AssessInv
    <3>2. run[f].pc = "inherit" => run[f].spec \in Step
      BY <3>1 DEF RunOK, A!Assessed
    <3> QED BY <3>1, <3>2
  <2> QED BY <2>1, <2>2
<1>3. \A s \in Step : verdict'[s] # None => ArtefactOK(verdict'[s])
  BY DEF AssessInv
<1>4. pool' # None => PoolOK(pool')
  BY DEF AssessInv
<1> QED BY <1>1, <1>2, <1>3, <1>4 DEF AssessInv

\* What the accounts are made of.
LEMMA SameAccounts ==
  ASSUME NEW r, NEW q,
         q.candidates = r.candidates, q.fresh = r.fresh, q.survivors = r.survivors,
         q.rejections = r.rejections, q.notInspected = r.notInspected,
         q.dataset = r.dataset, q.report = r.report
  PROVE  /\ Tallied(r) => Tallied(q)
         /\ UnderWay(r) => UnderWay(q)
         /\ Left(q) = Left(r) /\ Refused(q) = Refused(r)
         /\ \A g : Out(q, g) = Out(r, g)
<1>1. \A g : Out(q, g) = Out(r, g)
  BY DEF Out
<1>2. Left(q) = Left(r)
  BY <1>1 DEF Left
<1>3. Refused(q) = Refused(r)
  BY <1>1 DEF Refused
<1>4. Tallied(r) => Tallied(q)
  BY <1>1 DEF Tallied
<1>5. UnderWay(r) => UnderWay(q)
  BY <1>1, <1>2, <1>3 DEF UnderWay
<1> QED BY <1>1, <1>2, <1>3, <1>4, <1>5

\* A run that meets its pool has nothing but fresh candidates.
LEMMA PooledHolds ==
  ASSUME A!AssessConstants, NEW r, RunOK(r), r.pc = "pool", NEW c \in Lists,
         NEW j \in Seq(A!Dataset), NEW p \in {"save", "gates"},
         NEW q, q = [A!Pooled(r, c, j) EXCEPT !.pc = p]
  PROVE  RunOK(q) /\ q.pc = p
<1>1. /\ r \in Locals /\ r.model \in Step /\ r.spec \in A!Assessed
      /\ r = [A!Idle("none") EXCEPT !.pc = "pool", !.model = r.model, !.spec = r.spec]
  BY DEF RunOK
<1>2. /\ r.notInspected = 0 /\ r.survivors = <<>> /\ r.dataset = A!NoDataset /\ r.report = A!NoReport
  BY <1>1 DEF A!Idle
<1>3. /\ q.pc = p /\ q.candidates = c /\ q.fresh = c /\ q.seen = A!ToSet(c)
      /\ q.rejections = A!Rejections(j)
      /\ q.notInspected = 0 /\ q.survivors = <<>> /\ q.dataset = A!NoDataset
      /\ q.report = A!NoReport /\ q.model \in Step /\ q.spec \in A!Assessed
      /\ q = [r EXCEPT !.candidates = c, !.fresh = c, !.seen = A!ToSet(c),
                       !.rejections = A!Rejections(j), !.pc = p]
  BY <1>1, <1>2 DEF A!Pooled, Locals
<1>4. /\ A!Rejections(j) \in Rejecteds
      /\ \A g \in A!Gate : A!Rejections(j)[g].count = Len(A!Rejections(j)[g].examples)
      /\ \A g \in A!Gate : g # "relevance" => A!Rejections(j)[g].examples = <<>>
  <2>1. Len(j) \in Nat /\ <<>> \in Seq(A!Dataset) /\ Len(<<>>) = 0
    OBVIOUS
  <2> QED BY <2>1 DEF A!Rejections, A!Rejected, Rejecteds
<1>5. c \in Lists /\ A!ToSet(c) \subseteq A!Dataset /\ Len(c) \in Nat
  BY ListHolds
<1>6. q \in Locals
  <2>1. A!Rejections(j) \in [A!Gate -> [count: Nat, examples: Seq(A!Dataset)]]
    BY <1>4 DEF Rejecteds
  <2>2. p \in A!Place /\ A!ToSet(c) \in SUBSET A!Dataset
    BY <1>5 DEF A!Place
  <2> QED BY ONLY <1>1, <1>3, <1>5, <2>1, <2>2 DEF Locals
<1>7. Tallied(q)
  BY <1>3, <1>4 DEF Tallied, Out
<1>8. /\ Out(q, "license") = <<>> /\ Out(q, "loadable") = <<>> /\ Out(q, "scale") = <<>>
      /\ Out(q, "probe") = <<>>
  BY <1>3, <1>4 DEF Out, A!Gate
<1>9. Left(q) = Len(c) /\ Refused(q) = {}
  BY <1>3, <1>5, <1>8, EmptyList DEF Left, Refused
<1>10. UnderWay(q)
  <2>1. /\ Len(q.fresh) = Len(c) /\ Len(q.survivors) = 0
        /\ A!ToSet(q.fresh) = A!ToSet(c) /\ A!ToSet(q.survivors) = {}
        /\ A!ToSet(q.candidates) = A!ToSet(c)
    BY <1>3, EmptyList
  <2>2. Left(q) = Len(q.fresh) + Len(q.survivors)
    BY ONLY <1>5, <1>9, <2>1
  <2> QED BY <1>3, <1>8, <1>9, <2>1, <2>2 DEF UnderWay
<1>11. InRounds(q)
  BY <1>3, <1>10 DEF InRounds
<1>12. Len(q.survivors) <= MAX_FINALISTS
  BY <1>3, EmptyList DEF A!AssessConstants
<1> QED BY <1>3, <1>6, <1>7, <1>11, <1>12 DEF RunOK

\* What the gates leave.
LEMMA GatedHolds ==
  ASSUME A!AssessConstants, NEW r, RunOK(r), r.pc = "gates",
         NEW answer \in [A!ToSet(r.fresh) \cap Licensed -> A!Answer],
         NEW g, g = A!RunGates(r, answer)
  PROVE  /\ g.survivors = <<>> /\ g.round < MAX_REPLANS => RunOK([g EXCEPT !.pc = "replan"])
         /\ g.survivors = <<>> => RunOK([[g EXCEPT !.seen = {}] EXCEPT !.pc = "api"])
         /\ g.survivors # <<>> => RunOK([[g EXCEPT !.seen = {}] EXCEPT !.pc = "probe"])
<1>1. r \in Locals /\ Tallied(r) /\ InRounds(r) /\ r.model \in Step /\ r.spec \in A!Assessed
  BY DEF RunOK
<1>2. /\ g = [r EXCEPT !.rejections = g.rejections, !.notInspected = g.notInspected,
                       !.survivors = g.survivors, !.fresh = <<>>]
      /\ g \in Locals /\ Tallied(g) /\ UnderWay(g) /\ Len(g.survivors) <= MAX_FINALISTS
  <2>1. r \in Locals /\ Tallied(r) /\ InRounds(r)
    BY <1>1
  <2>2. answer \in [A!ToSet(r.fresh) \cap Licensed -> A!Answer] /\ A!AssessConstants
    OBVIOUS
  <2>3. g = A!RunGates(r, answer)
    OBVIOUS
  <2> QED BY ONLY <2>1, <2>2, <2>3, RunGatesHolds
<1>3. /\ g.candidates = r.candidates /\ g.seen = r.seen /\ g.fresh = <<>>
      /\ g.model \in Step /\ g.spec \in A!Assessed
  BY <1>1, <1>2 DEF Locals
<1>4. ASSUME g.survivors = <<>>, g.round < MAX_REPLANS PROVE RunOK([g EXCEPT !.pc = "replan"])
  <2> DEFINE q == [g EXCEPT !.pc = "replan"]
  <2>1. /\ q \in Locals /\ q.pc = "replan" /\ q.round = g.round /\ q.seen = g.seen
        /\ q.candidates = g.candidates /\ q.fresh = g.fresh /\ q.survivors = g.survivors
        /\ q.rejections = g.rejections /\ q.notInspected = g.notInspected
        /\ q.dataset = g.dataset /\ q.report = g.report /\ q.model = g.model /\ q.spec = g.spec
    BY <1>2 DEF Locals, A!Place
  <2> HIDE DEF q
  <2>2. Tallied(q) /\ UnderWay(q)
    BY <1>2, <2>1, SameAccounts
  <2>3. InRounds(q)
    BY <1>1, <1>3, <1>4, <2>1, <2>2 DEF InRounds
  <2>4. RunOK(q)
    BY <1>2, <1>3, <1>4, <2>1, <2>2, <2>3 DEF RunOK
  <2> QED BY <2>4 DEF q
<1>5. ASSUME NEW p \in {"api", "probe"}, p = "api" <=> g.survivors = <<>>
      PROVE  RunOK([[g EXCEPT !.seen = {}] EXCEPT !.pc = p])
  <2> DEFINE q == [[g EXCEPT !.seen = {}] EXCEPT !.pc = p]
  <2>1. /\ q \in Locals /\ q.pc = p /\ q.round = g.round
        /\ q.candidates = g.candidates /\ q.fresh = g.fresh /\ q.survivors = g.survivors
        /\ q.rejections = g.rejections /\ q.notInspected = g.notInspected
        /\ q.dataset = g.dataset /\ q.report = g.report /\ q.model = g.model /\ q.spec = g.spec
    BY <1>2 DEF Locals, A!Place
  <2> HIDE DEF q
  <2>2. Tallied(q) /\ UnderWay(q)
    BY <1>2, <2>1, SameAccounts
  <2>3. RunOK(q)
    BY <1>2, <1>3, <1>5, <2>1, <2>2 DEF RunOK
  <2> QED BY <2>3 DEF q
<1> QED BY <1>4, <1>5

\* A round grows the pool by what is new.
LEMMA ExtendedHolds ==
  ASSUME A!AssessConstants, NEW r, RunOK(r), r.pc = "replan",
         NEW found \in SUBSET (A!Dataset \ r.seen), NEW yes,
         NEW g, g = A!Extended(r, found, yes), NEW q, q = [g EXCEPT !.pc = "gates"]
  PROVE  RunOK(q) /\ g.candidates \in Lists /\ g.rejections \in Rejecteds /\ q.round = r.round + 1
<1> DEFINE new == A!Relevant(found, yes)
           out == A!Irrelevant(found, yes)
           rej == A!Reject(r.rejections, "relevance", out)
<1>1. /\ r \in Locals /\ Tallied(r) /\ InRounds(r) /\ UnderWay(r) /\ r.model \in Step /\ r.spec \in A!Assessed
      /\ r.fresh = <<>> /\ r.survivors = <<>> /\ r.round < MAX_REPLANS
      /\ r.candidates \in Lists /\ r.rejections \in Rejecteds /\ r.seen \subseteq A!Dataset
      /\ A!ToSet(r.candidates) \subseteq r.seen /\ r.round \in 0..MAX_REPLANS
  BY DEF RunOK, InRounds, Locals, Rejecteds
<1>2. new \in Lists /\ A!ToSet(new) \subseteq found /\ out \in Lists
  BY JudgedHolds
<1> HIDE DEF new, out
<1>3. /\ r.candidates \o new \in Lists /\ Len(r.candidates \o new) = Len(r.candidates) + Len(new)
      /\ A!ToSet(r.candidates \o new) = A!ToSet(r.candidates) \cup A!ToSet(new)
  <2>1. A!ToSet(r.candidates) \cap A!ToSet(new) = {}
    BY <1>1, <1>2
  <2> QED BY ONLY <1>1, <1>2, <2>1, ConcatLists
<1>4. /\ rej \in Rejecteds /\ rej["relevance"].count = Len(rej["relevance"].examples)
      /\ \A h \in A!Gate : h # "relevance" => rej[h] = r.rejections[h]
  <2>1. "relevance" \in A!Gate /\ out \in Seq(A!Dataset)
    BY <1>2, ListHolds DEF A!Gate
  <2> QED BY ONLY <1>1, <2>1, RejectHolds DEF rej
<1> HIDE DEF rej
<1>5. g = [r EXCEPT !.round = r.round + 1, !.seen = r.seen \cup found, !.candidates = r.candidates \o new,
                    !.fresh = new, !.rejections = rej]
  BY DEF A!Extended, A!NextRound, A!Grown, new, out, rej
<1>6. /\ g.candidates = r.candidates \o new /\ g.rejections = rej
      /\ q.pc = "gates" /\ q.round = r.round + 1 /\ q.seen = r.seen \cup found
      /\ q.candidates = r.candidates \o new /\ q.fresh = new /\ q.rejections = rej
      /\ q.survivors = <<>> /\ q.notInspected = r.notInspected /\ q.dataset = r.dataset
      /\ q.report = r.report /\ q.model = r.model /\ q.spec = r.spec
      /\ q = [r EXCEPT !.round = r.round + 1, !.seen = r.seen \cup found,
                       !.candidates = r.candidates \o new, !.fresh = new, !.rejections = rej,
                       !.pc = "gates"]
  BY <1>1, <1>5 DEF Locals
<1>7. q \in Locals
  <2>1. r.round + 1 \in 0..MAX_REPLANS
    BY <1>1 DEF A!AssessConstants
  <2>2. r.seen \cup found \in SUBSET A!Dataset
    BY <1>1
  <2>3. rej \in [A!Gate -> [count: Nat, examples: Seq(A!Dataset)]]
    BY <1>4 DEF Rejecteds
  <2>4. "gates" \in A!Place /\ r \in Locals
    BY <1>1 DEF A!Place
  <2> DEFINE cs == r.candidates \o new
             n == r.round + 1
             sn == r.seen \cup found
  <2>5. /\ cs \in Lists /\ n \in 0..MAX_REPLANS /\ sn \in SUBSET A!Dataset /\ new \in Lists
        /\ q = [r EXCEPT !.round = n, !.seen = sn, !.candidates = cs, !.fresh = new,
                         !.rejections = rej, !.pc = "gates"]
    BY <1>2, <1>3, <1>6, <2>1, <2>2
  <2> HIDE DEF cs, n, sn
  <2> QED BY ONLY <2>3, <2>4, <2>5 DEF Locals
<1>8. Tallied(q)
  <2> SUFFICES ASSUME NEW h \in A!Gate PROVE q.rejections[h].count = Len(q.rejections[h].examples)
    BY DEF Tallied, Out
  <2>1. h # "relevance" => rej[h] = r.rejections[h]
    BY <1>4
  <2> QED BY <1>1, <1>4, <1>6, <2>1 DEF Tallied, Out
<1>9. /\ Out(q, "license") = Out(r, "license") /\ Out(q, "loadable") = Out(r, "loadable")
      /\ Out(q, "scale") = Out(r, "scale") /\ Out(q, "probe") = Out(r, "probe")
  BY <1>4, <1>6 DEF Out, A!Gate
<1>10. Refused(q) = Refused(r)
  BY <1>9 DEF Refused
<1>11. Left(q) = Len(new)
  <2> DEFINE c == Len(r.candidates)
             x == r.notInspected
             l1 == Len(Out(r, "license"))
             l2 == Len(Out(r, "loadable"))
             l3 == Len(Out(r, "scale"))
             f == Len(new)
  <2>1. c \in Nat /\ x \in Nat /\ f \in Nat
    BY <1>1, <1>2, ListHolds DEF Locals
  <2>2. l1 \in Nat /\ l2 \in Nat /\ l3 \in Nat
    BY <1>1 DEF Out, Rejecteds, A!Gate
  <2>3. 0 = c - x - l1 - l2 - l3
    BY <1>1, EmptyList DEF UnderWay, Left
  <2>4. Left(q) = (c + f) - x - l1 - l2 - l3
    <3>1. Len(q.candidates) = c + f /\ q.notInspected = x
      BY <1>3, <1>6
    <3>2. Left(q) = Len(q.candidates) - q.notInspected - l1 - l2 - l3
      BY <1>9 DEF Left
    <3> HIDE DEF c, x, l1, l2, l3, f
    <3> QED BY ONLY <2>1, <2>2, <3>1, <3>2
  <2> HIDE DEF c, x, l1, l2, l3, f
  <2>5. Left(q) = f
    BY <2>1, <2>2, <2>3, <2>4
  <2> QED BY <2>5 DEF f
<1>12. UnderWay(q)
  <2>1. Left(q) = Len(q.fresh) + Len(q.survivors)
    <3>1. Len(q.fresh) = Len(new) /\ Len(q.survivors) = 0 /\ Len(new) \in Nat
      BY <1>2, <1>6, EmptyList, ListHolds
    <3> QED BY ONLY <1>11, <3>1
  <2>2. A!ToSet(q.survivors) = {} /\ A!ToSet(q.fresh) = A!ToSet(new)
    BY <1>6, EmptyList
  <2>3. Refused(r) \subseteq A!ToSet(r.candidates)
    BY <1>1 DEF UnderWay
  <2>4. A!ToSet(new) \cap Refused(r) = {}
    BY <1>1, <1>2, <2>3
  <2>5. r.dataset = A!NoDataset /\ r.report = A!NoReport /\ Out(r, "probe") = <<>>
    BY <1>1 DEF UnderWay
  <2> QED BY <1>3, <1>6, <1>9, <1>10, <2>1, <2>2, <2>3, <2>4, <2>5 DEF UnderWay
<1>13. InRounds(q)
  BY <1>1, <1>2, <1>3, <1>6, <1>12 DEF InRounds
<1>14. Len(q.survivors) <= MAX_FINALISTS
  BY <1>6, EmptyList DEF A!AssessConstants
<1>15. RunOK(q)
  BY <1>1, <1>6, <1>7, <1>8, <1>13, <1>14 DEF RunOK
<1> QED BY <1>3, <1>4, <1>6, <1>15

\* A run ends or comes nearer its end.
Nearer(r, q) == q.pc = "idle" \/ A!Distance(q) \in 0..(A!Distance(r) - 1)

\* Each stage brings a run nearer its end, and so does each round.
LEMMA StageNearer ==
  ASSUME A!AssessConstants, NEW r \in Locals, NEW q, q.round = r.round,
         \/ r.pc = "pool" /\ q.pc \in {"save", "gates"}
         \/ r.pc = "save" /\ q.pc = "gates"
         \/ r.pc = "gates" /\ q.pc \in {"replan", "probe", "api"}
         \/ r.pc \in {"probe", "api"} /\ q.pc = "assemble"
         \/ r.pc = "assemble" /\ q.pc = "inherit"
  PROVE  Nearer(r, q)
<1>1. A!Weight[r.pc] \in 0..6 /\ A!Weight[q.pc] \in 0..6 /\ A!Weight[q.pc] < A!Weight[r.pc]
  BY DEF A!Weight
<1>2. r.round \in 0..MAX_REPLANS /\ MAX_REPLANS \in Nat
  BY DEF Locals, A!AssessConstants
<1> DEFINE m == MAX_REPLANS - r.round
           v == A!Weight[r.pc]
           w == A!Weight[q.pc]
<1>3. A!Distance(r) = 7 * m + v /\ A!Distance(q) = 7 * m + w
  BY DEF A!Distance
<1>4. m \in Nat /\ v \in 0..6 /\ w \in 0..6 /\ w < v
  BY <1>1, <1>2
<1> HIDE DEF m, v, w
<1>5. A!Distance(q) \in 0..(A!Distance(r) - 1)
  BY <1>3, <1>4
<1> QED BY <1>5 DEF Nearer

\* A replanning round, which goes back to the gates, brings a run nearer its end.
LEMMA RoundNearer ==
  ASSUME A!AssessConstants, NEW r \in Locals, NEW q, r.pc = "replan", q.pc = "gates",
         r.round < MAX_REPLANS, q.round = r.round + 1
  PROVE  Nearer(r, q)
<1>1. A!Weight[r.pc] = 3 /\ A!Weight[q.pc] = 4
  BY DEF A!Weight
<1>2. r.round \in 0..MAX_REPLANS /\ MAX_REPLANS \in Nat
  BY DEF Locals, A!AssessConstants
<1> DEFINE m == MAX_REPLANS - (r.round + 1)
<1>3. A!Distance(r) = 7 * (m + 1) + 3 /\ A!Distance(q) = 7 * m + 4
  <2>1. MAX_REPLANS - r.round = m + 1 /\ MAX_REPLANS - q.round = m
    BY <1>2
  <2> HIDE DEF m
  <2> QED BY <1>1, <2>1 DEF A!Distance
<1>4. m \in Nat
  BY <1>2
<1> HIDE DEF m
<1>5. A!Distance(q) \in 0..(A!Distance(r) - 1)
  BY <1>3, <1>4
<1> QED BY <1>5 DEF Nearer

\* The run of e becomes q.
Becomes(e, q) == run' = [run EXCEPT ![e] = q]
Advances(e) == \E q : Becomes(e, q) /\ Nearer(run[e], q)

\* A run that ends so leaves the invariant as what it wrote leaves it.
LEMMA Ending ==
  ASSUME A!AssessConstants, AssessInv, NEW e \in Assessor, NEW how \in A!Ended, A!End(e, how),
         UNCHANGED <<modality, pool>>, verdict' = [s \in Step |-> verdict'[s]],
         \A s \in Step : verdict'[s] = verdict[s] \/ ArtefactOK(verdict'[s]),
         started' \in 0..MaxAssessments
  PROVE  AssessInv' /\ Advances(e)
<1> DEFINE q == A!Idle(how)
<1>1. RunOK(q) /\ q.pc = "idle"
  BY IdleHolds DEF A!Idle
<1>2. run' = [run EXCEPT ![e] = q]
  BY DEF A!End
<1> HIDE DEF q
<1>3. AssessInv'
  BY <1>1, <1>2, OneMoves
<1> QED BY <1>1, <1>2, <1>3 DEF Advances, Becomes, Nearer

\* A run that goes on with its record q, and writes nothing but a pool.
LEMMA GoingOn ==
  ASSUME AssessInv, NEW e \in Assessor, NEW q, Becomes(e, q), RunOK(q), q.pc # "inherit",
         UNCHANGED <<modality, verdict, started>>, pool' = pool \/ PoolOK(pool')
  PROVE  AssessInv'
<1>1. verdict' = [s \in Step |-> verdict'[s]] /\ started' \in 0..MaxAssessments
  BY DEF AssessInv
<1> QED BY <1>1, OneMoves DEF Becomes

\* A row made of a run's lists.
LEMMA PoolRowHolds ==
  ASSUME NEW r, r.candidates \in Lists, r.rejections \in Rejecteds
  PROVE  PoolOK(A!PoolRow(r))
<1>1. r.rejections["relevance"].examples \in Seq(A!Dataset)
  BY DEF Rejecteds, A!Gate
<1> QED BY <1>1 DEF PoolOK, A!PoolRow

----------------------------------------------------------------------------
\* Every step keeps the invariant, and those of a run that goes on bring it nearer
\* its end.
LEMMA StartKeeps ==
  ASSUME A!AssessConstants, AssessInv, NEW e \in Assessor, NEW s \in Step, A!Start(e, s)
  PROVE  AssessInv'
<1> DEFINE parent == A!BRIDGE_SPECS[s].inherits_from
           At0(spec, p) == [A!Idle("none") EXCEPT !.pc = p, !.model = s, !.spec = spec]
<1>1. /\ UNCHANGED <<modality, pool, verdict>> /\ started' = started + 1 /\ started < MaxAssessments
      /\ run' = [run EXCEPT ![e] =
                    IF verdict[s] # None THEN A!Idle("succeeded")
                    ELSE IF parent = None THEN At0(s, "pool")
                    ELSE IF verdict[parent] = None THEN At0(parent, "pool")
                    ELSE At0(parent, "inherit")]
  BY DEF A!Start
<1>2. /\ started' \in 0..MaxAssessments /\ verdict' = [t \in Step |-> verdict'[t]]
  BY <1>1 DEF AssessInv, A!AssessConstants
<1>3. RunOK(A!Idle("succeeded")) /\ RunOK(A!Idle("none"))
  BY IdleHolds DEF A!Ended
<1>4. ASSUME NEW spec \in A!Assessed, NEW p \in {"pool", "inherit"}
      PROVE  RunOK(At0(spec, p)) /\ At0(spec, p).pc = p /\ At0(spec, p).spec = spec
  <2> DEFINE i == A!Idle("none")
             r == At0(spec, p)
  <2>1. i \in Locals /\ Tallied(i) /\ Len(i.survivors) <= MAX_FINALISTS
    BY <1>3 DEF RunOK
  <2>2. /\ r = [i EXCEPT !.pc = p, !.model = s, !.spec = spec]
        /\ p = "pool" => r = [A!Idle("none") EXCEPT !.pc = "pool", !.model = s, !.spec = spec]
    OBVIOUS
  <2> HIDE DEF i, At0, r
  <2>3. /\ r \in Locals /\ r.pc = p /\ r.model = s /\ r.spec = spec /\ r.rejections = i.rejections
        /\ r.survivors = i.survivors
    BY <2>1, <2>2 DEF Locals, A!Place
  <2>4. Tallied(r)
    BY <2>1, <2>3 DEF Tallied, Out
  <2>5. RunOK(r)
    BY <2>1, <2>2, <2>3, <2>4 DEF RunOK
  <2> QED BY <2>3, <2>5 DEF r
<1>5. A!BRIDGE_SPECS[s].inherits_from = None => s \in A!Assessed
  BY RegistryHolds
<1>6. A!BRIDGE_SPECS[s].inherits_from # None => parent \in A!Assessed /\ parent \in Step
  BY RegistryHolds
<1>7. ASSUME NEW q, run' = [run EXCEPT ![e] = q], RunOK(q),
             q.pc = "inherit" => ArtefactOK(verdict[q.spec])
      PROVE  AssessInv'
  BY <1>1, <1>2, <1>7, OneMoves
<1> HIDE DEF At0
<1>8. CASE verdict[s] # None
  <2>1. A!Idle("succeeded").pc # "inherit"
    BY DEF A!Idle
  <2> QED BY <1>1, <1>3, <1>7, <1>8, <2>1
<1>9. CASE verdict[s] = None /\ parent = None
  <2>1. RunOK(At0(s, "pool")) /\ At0(s, "pool").pc = "pool"
    BY <1>4, <1>5, <1>9
  <2> QED BY <1>1, <1>7, <1>9, <2>1
<1>10. CASE verdict[s] = None /\ parent # None /\ verdict[parent] = None
  <2>1. RunOK(At0(parent, "pool")) /\ At0(parent, "pool").pc = "pool"
    BY <1>4, <1>6, <1>10
  <2> QED BY <1>1, <1>7, <1>10, <2>1
<1>11. CASE verdict[s] = None /\ parent # None /\ verdict[parent] # None
  <2>1. RunOK(At0(parent, "inherit")) /\ At0(parent, "inherit").spec = parent
    BY <1>4, <1>6, <1>11
  <2>2. ArtefactOK(verdict[parent])
    BY <1>6, <1>11 DEF AssessInv
  <2> QED BY <1>1, <1>7, <1>11, <2>1, <2>2
<1> QED BY <1>8, <1>9, <1>10, <1>11

\* A run takes the pool on file (_get_or_build_pool).
LEMMA ReusePoolKeeps ==
  ASSUME A!AssessConstants, AssessInv, NEW e \in Assessor, A!ReusePool(e)
  PROVE  AssessInv' /\ Advances(e)
<1> DEFINE r == run[e]
           q == [A!Pooled(r, pool.candidates, pool.rejected_relevance) EXCEPT !.pc = "gates"]
<1>1. /\ RunOK(r) /\ r \in Locals /\ r.pc = "pool"
      /\ pool.candidates \in Lists /\ pool.rejected_relevance \in Seq(A!Dataset)
  BY DEF AssessInv, PoolOK, RunOK, A!ReusePool, A!At
<1>2. Becomes(e, q) /\ UNCHANGED <<modality, pool, verdict, started>>
  BY DEF A!ReusePool, A!Goto, Becomes
<1>3. q.round = r.round
  BY <1>1 DEF A!Pooled, Locals
<1>4. RunOK(q) /\ q.pc = "gates"
  <2> DEFINE cs == pool.candidates
             js == pool.rejected_relevance
  <2>1. cs \in Lists /\ js \in Seq(A!Dataset) /\ RunOK(r) /\ r.pc = "pool"
    BY <1>1
  <2> HIDE DEF cs, js, r, q
  <2>2. q = [A!Pooled(r, cs, js) EXCEPT !.pc = "gates"]
    BY DEF cs, js, q
  <2> QED BY <2>1, <2>2, PooledHolds
<1> HIDE DEF q
<1>5. Nearer(r, q)
  BY <1>1, <1>3, <1>4, StageNearer
<1>6. AssessInv'
  BY <1>2, <1>4, GoingOn
<1> QED BY <1>2, <1>5, <1>6 DEF Advances

\* The scouts search and the judge judges (_get_or_build_pool).
LEMMA ScoutKeeps ==
  ASSUME A!AssessConstants, AssessInv, NEW e \in Assessor, A!Scout(e)
  PROVE  AssessInv' /\ Advances(e)
<1> DEFINE r == run[e]
<1>1. RunOK(r) /\ r \in Locals /\ r.pc = "pool" /\ UNCHANGED <<modality, pool, verdict, started>>
  BY DEF AssessInv, RunOK, A!Scout, A!At
<1>2. PICK found \in SUBSET A!Dataset : \E yes \in SUBSET A!ToSet(A!Judged(found)) :
        A!Goto(e, A!Pooled(r, A!Relevant(found, yes), A!Irrelevant(found, yes)), "save")
  BY DEF A!Scout
<1>9. PICK yes \in SUBSET A!ToSet(A!Judged(found)) :
        A!Goto(e, A!Pooled(r, A!Relevant(found, yes), A!Irrelevant(found, yes)), "save")
  BY <1>2
<1> DEFINE cs == A!Relevant(found, yes)
           js == A!Irrelevant(found, yes)
           q == [A!Pooled(r, cs, js) EXCEPT !.pc = "save"]
<1>3. cs \in Lists /\ js \in Seq(A!Dataset)
  BY JudgedHolds, ListHolds
<1> HIDE DEF cs, js
<1>4. Becomes(e, q)
  BY <1>9 DEF A!Goto, Becomes, cs, js
<1>5. RunOK(q) /\ q.pc = "save"
  BY <1>1, <1>3, PooledHolds
<1>6. q.round = r.round
  BY <1>1 DEF A!Pooled, Locals
<1> HIDE DEF q
<1>7. Nearer(r, q)
  BY <1>1, <1>5, <1>6, StageNearer
<1>8. AssessInv'
  BY <1>1, <1>4, <1>5, GoingOn
<1> QED BY <1>4, <1>7, <1>8 DEF Advances

\* The pool is inserted, or the run fails for another's (_get_or_build_pool).
LEMMA SavePoolKeeps ==
  ASSUME A!AssessConstants, AssessInv, NEW e \in Assessor, A!SavePool(e)
  PROVE  AssessInv' /\ Advances(e)
<1> DEFINE r == run[e]
           q == [r EXCEPT !.pc = "gates"]
<1>1. RunOK(r) /\ r \in Locals /\ r.pc = "save" /\ UNCHANGED <<modality, verdict, started>>
  BY DEF AssessInv, RunOK, A!SavePool, A!At
<1>2. CASE pool = None
  <2>1. pool' = A!PoolRow(r) /\ Becomes(e, q)
    BY <1>2 DEF A!SavePool, A!Goto, Becomes
  <2>2. /\ q \in Locals /\ q.pc = "gates" /\ q.round = r.round /\ q.seen = r.seen
        /\ q.candidates = r.candidates /\ q.fresh = r.fresh /\ q.survivors = r.survivors
        /\ q.rejections = r.rejections /\ q.notInspected = r.notInspected
        /\ q.dataset = r.dataset /\ q.report = r.report /\ q.model = r.model /\ q.spec = r.spec
    BY <1>1 DEF Locals, A!Place
  <2> HIDE DEF q
  <2>3. Tallied(q) /\ InRounds(q)
    BY <1>1, <2>2, SameAccounts DEF RunOK, InRounds
  <2>4. RunOK(q)
    BY <1>1, <2>2, <2>3 DEF RunOK
  <2>5. PoolOK(pool')
    BY <1>1, <2>1, PoolRowHolds DEF Locals, Rejecteds
  <2>6. Nearer(r, q)
    BY <1>1, <2>2, StageNearer
  <2>7. AssessInv'
    BY <1>1, <2>1, <2>2, <2>4, <2>5, GoingOn
  <2> QED BY <2>1, <2>6, <2>7 DEF Advances
<1>3. CASE pool # None
  <2>1. A!End(e, "failed") /\ UNCHANGED pool
    BY <1>3 DEF A!SavePool
  <2>2. "failed" \in A!Ended
    BY DEF A!Ended
  <2>3. verdict' = [s \in Step |-> verdict'[s]] /\ started' \in 0..MaxAssessments
    BY <1>1 DEF AssessInv
  <2> QED BY <1>1, <2>1, <2>2, <2>3, Ending
<1> QED BY <1>2, <1>3

\* Gates 1 to 3 and where they send the run (_run_gates, _assess).
LEMMA GatesKeeps ==
  ASSUME A!AssessConstants, AssessInv, NEW e \in Assessor, A!Gates(e)
  PROVE  AssessInv' /\ Advances(e)
<1> DEFINE r == run[e]
<1>1. /\ RunOK(r) /\ r \in Locals /\ r.pc = "gates"
      /\ UNCHANGED <<modality, pool, verdict, started>>
  BY DEF AssessInv, RunOK, A!Gates, A!At
<1>2. PICK answer \in [A!ToSet(r.fresh) \cap Licensed -> A!Answer] :
        LET g == A!RunGates(r, answer)
        IN  IF g.survivors = <<>> /\ g.round < MAX_REPLANS THEN A!Goto(e, g, "replan")
            ELSE A!Goto(e, [g EXCEPT !.seen = {}], IF g.survivors = <<>> THEN "api" ELSE "probe")
  BY DEF A!Gates
<1> DEFINE g == A!RunGates(r, answer)
<1>3. g.round = r.round /\ g \in Locals
  <2>1. /\ g = [r EXCEPT !.rejections = g.rejections, !.notInspected = g.notInspected,
                         !.survivors = g.survivors, !.fresh = <<>>]
        /\ g \in Locals
    <3>1. r \in Locals /\ Tallied(r) /\ InRounds(r)
      BY <1>1 DEF RunOK
    <3>2. answer \in [A!ToSet(r.fresh) \cap Licensed -> A!Answer] /\ A!AssessConstants
      OBVIOUS
    <3> HIDE DEF r
    <3> QED BY ONLY <3>1, <3>2, RunGatesHolds
  <2> HIDE DEF g, r
  <2> QED BY <1>1, <2>1 DEF Locals
<1>4. /\ g.survivors = <<>> /\ g.round < MAX_REPLANS => RunOK([g EXCEPT !.pc = "replan"])
      /\ g.survivors = <<>> => RunOK([[g EXCEPT !.seen = {}] EXCEPT !.pc = "api"])
      /\ g.survivors # <<>> => RunOK([[g EXCEPT !.seen = {}] EXCEPT !.pc = "probe"])
  <2>1. RunOK(r) /\ r.pc = "gates" /\ A!AssessConstants
    BY <1>1
  <2>2. answer \in [A!ToSet(r.fresh) \cap Licensed -> A!Answer]
    OBVIOUS
  <2> HIDE DEF r
  <2> QED BY ONLY <2>1, <2>2, GatedHolds
<1> HIDE DEF g
<1>5. PICK q : /\ Becomes(e, q) /\ RunOK(q) /\ q.round = r.round
               /\ q.pc \in {"replan", "api", "probe"}
  <2>1. CASE g.survivors = <<>> /\ g.round < MAX_REPLANS
    <3> DEFINE q == [g EXCEPT !.pc = "replan"]
    <3>1. Becomes(e, q) /\ RunOK(q)
      BY <1>2, <1>4, <2>1 DEF A!Goto, Becomes, g
    <3>2. q.round = r.round /\ q.pc = "replan"
      BY <1>3 DEF Locals
    <3> QED BY <3>1, <3>2
  <2>2. CASE g.survivors = <<>> /\ ~(g.round < MAX_REPLANS)
    <3> DEFINE q == [[g EXCEPT !.seen = {}] EXCEPT !.pc = "api"]
    <3>1. Becomes(e, q) /\ RunOK(q)
      BY <1>2, <1>4, <2>2 DEF A!Goto, Becomes, g
    <3>2. q.round = r.round /\ q.pc = "api"
      BY <1>3 DEF Locals
    <3> QED BY <3>1, <3>2
  <2>3. CASE g.survivors # <<>>
    <3> DEFINE q == [[g EXCEPT !.seen = {}] EXCEPT !.pc = "probe"]
    <3>1. Becomes(e, q) /\ RunOK(q)
      BY <1>2, <1>4, <2>3 DEF A!Goto, Becomes, g
    <3>2. q.round = r.round /\ q.pc = "probe"
      BY <1>3 DEF Locals
    <3> QED BY <3>1, <3>2
  <2> QED BY <2>1, <2>2, <2>3
<1>6. Nearer(r, q)
  BY <1>1, <1>5, StageNearer
<1>7. AssessInv'
  BY <1>1, <1>5, GoingOn
<1> QED BY <1>5, <1>6, <1>7 DEF Advances

\* A replanning round (_assess).
LEMMA ReplanKeeps ==
  ASSUME A!AssessConstants, AssessInv, NEW e \in Assessor, A!Replan(e)
  PROVE  AssessInv' /\ Advances(e)
<1> DEFINE r == run[e]
<1>1. /\ RunOK(r) /\ r \in Locals /\ r.pc = "replan" /\ r.round < MAX_REPLANS
      /\ UNCHANGED <<modality, verdict, started>>
  BY DEF AssessInv, RunOK, A!Replan, A!At
<1>2. PICK found \in SUBSET (A!Dataset \ r.seen) : \E yes \in SUBSET A!ToSet(A!Judged(found)) :
        LET g == A!Extended(r, found, yes)
        IN  A!Goto(e, g, "gates") /\ pool' = IF pool = None THEN pool ELSE A!PoolRow(g)
  BY DEF A!Replan
<1>3. PICK yes :
        LET g == A!Extended(r, found, yes)
        IN  A!Goto(e, g, "gates") /\ pool' = IF pool = None THEN pool ELSE A!PoolRow(g)
  BY <1>2
<1> DEFINE g == A!Extended(r, found, yes)
           q == [g EXCEPT !.pc = "gates"]
<1>4. RunOK(q) /\ g.candidates \in Lists /\ g.rejections \in Rejecteds /\ q.round = r.round + 1
  <2>1. RunOK(r) /\ r.pc = "replan" /\ A!AssessConstants
    BY <1>1
  <2>2. found \in SUBSET (A!Dataset \ r.seen)
    OBVIOUS
  <2> HIDE DEF r
  <2> QED BY ONLY <2>1, <2>2, ExtendedHolds
<1>5. q.pc = "gates"
  BY <1>1 DEF Locals, A!Extended
<1>6. Becomes(e, q) /\ (pool' = pool \/ pool' = A!PoolRow(g))
  BY <1>3 DEF A!Goto, Becomes
<1> HIDE DEF g, q
<1>7. pool' = pool \/ PoolOK(pool')
  BY <1>4, <1>6, PoolRowHolds
<1>8. Nearer(r, q)
  BY <1>1, <1>4, <1>5, RoundNearer
<1>9. AssessInv'
  BY <1>1, <1>4, <1>5, <1>6, <1>7, GoingOn
<1> QED BY <1>6, <1>8, <1>9 DEF Advances

\* Without a probe the first finalist is cited, and nothing is said of a fit.
LEMMA UnprobedHolds ==
  ASSUME A!AssessConstants, NEW r, RunOK(r), r.pc = "probe", ~A!BRIDGE_SPECS[r.spec].probe,
         NEW f, f = A!UpTo(MAX_FINALISTS, A!CheapestFirst(r.survivors)),
         NEW q, q = [[r EXCEPT !.dataset = Head(f), !.survivors = <<>>] EXCEPT !.pc = "assemble"]
  PROVE  RunOK(q) /\ q.pc = "assemble" /\ q.round = r.round
<1>1. /\ r \in Locals /\ r.survivors \in Lists /\ r.survivors # <<>>
      /\ Len(r.survivors) <= MAX_FINALISTS /\ Tallied(r) /\ UnderWay(r) /\ r.fresh = <<>>
      /\ r.model \in Step /\ r.spec \in A!Assessed
  BY DEF RunOK, Locals
<1>2. f \in Lists /\ A!ToSet(f) = A!ToSet(r.survivors)
  BY <1>1, FinalistsHold
<1> DEFINE c == Head(f)
<1>3. c \in A!ToSet(r.survivors) /\ c \in A!Dataset /\ c # A!NoDataset
  <2>1. f # <<>> /\ f \in Seq(A!Dataset)
    BY <1>1, <1>2, ListHolds
  <2>2. c \in A!ToSet(f)
    BY <2>1, HeadHolds, Zenon
  <2>3. c \in A!Dataset
    BY <1>2, <2>2, ListHolds
  <2> QED BY <1>2, <2>2, <2>3, NoDatasetIsNone
<1> HIDE DEF c
<1>4. /\ q.pc = "assemble" /\ q.candidates = r.candidates /\ q.fresh = r.fresh
      /\ q.survivors = <<>> /\ q.rejections = r.rejections /\ q.notInspected = r.notInspected
      /\ q.dataset = c /\ q.report = r.report /\ q.spec = r.spec /\ q.model = r.model
      /\ q.round = r.round /\ q \in Locals
  <2>1. q = [r EXCEPT !.dataset = c, !.survivors = <<>>, !.pc = "assemble"]
    BY <1>1 DEF c, Locals
  <2>2. <<>> \in Lists /\ "assemble" \in A!Place
    BY EmptyList DEF A!Place
  <2> QED BY <1>1, <1>3, <2>1, <2>2 DEF Locals
<1>5. \A g : Out(q, g) = Out(r, g)
  BY <1>4 DEF Out
<1>6. Tallied(q) /\ Left(q) = Left(r) /\ Refused(q) = Refused(r)
  BY <1>1, <1>4, <1>5 DEF Tallied, Left, Refused
<1>7. /\ Out(q, "probe") = <<>> /\ Len(Out(q, "probe")) = 0 /\ A!ToSet(Out(q, "probe")) = {}
      /\ q.report = A!NoReport
  BY <1>1, <1>4, <1>5, EmptyList DEF UnderWay
<1>8. Left(q) = Len(r.survivors) /\ Len(r.survivors) \in Nat /\ Len(r.survivors) # 0
  <2>1. Left(r) = Len(r.fresh) + Len(r.survivors) /\ Len(r.fresh) = 0
    BY <1>1, EmptyList DEF UnderWay
  <2>2. Len(r.survivors) \in Nat /\ Len(r.survivors) # 0
    BY <1>1, ListHolds, EmptyList
  <2> QED BY <1>6, <2>1, <2>2
<1>9. c \in A!ToSet(q.candidates) /\ c \notin Refused(q)
  BY <1>1, <1>3, <1>4, <1>6 DEF UnderWay
<1>10. q.report.outcome # "fail"
  BY <1>7 DEF A!NoReport
<1>11. MAX_FINALISTS \in Nat
  BY DEF A!AssessConstants
<1>12. ToAssemble(q)
  <2>1. Left(q) \in 0..MAX_FINALISTS /\ Left(q) # 0 /\ q.dataset # A!NoDataset
    BY <1>1, <1>3, <1>4, <1>8, <1>11
  <2>2. Len(Out(q, "probe")) <= Left(q) /\ Len(Out(q, "probe")) < Left(q)
    BY <1>7, <1>11, <2>1
  <2>3. q.dataset \notin Refused(q) \cup A!ToSet(Out(q, "probe")) /\ q.dataset \in A!ToSet(q.candidates)
    BY <1>4, <1>7, <1>9
  <2>4. ~A!BRIDGE_SPECS[q.spec].probe
    BY <1>4
  <2> QED BY <1>10, <2>1, <2>2, <2>3, <2>4 DEF ToAssemble
<1>13. Len(q.survivors) <= MAX_FINALISTS
  BY <1>4, <1>11, EmptyList
<1> QED BY <1>1, <1>4, <1>6, <1>12, <1>13 DEF RunOK

\* The finalists are probed, or the first is cited (_probe_finalists).
LEMMA ProbeKeeps ==
  ASSUME A!AssessConstants, AssessInv, NEW e \in Assessor, A!Probe(e)
  PROVE  AssessInv' /\ Advances(e)
<1> DEFINE r == run[e]
           f == A!UpTo(MAX_FINALISTS, A!CheapestFirst(r.survivors))
<1>1. /\ RunOK(r) /\ r \in Locals /\ r.pc = "probe" /\ r.model \in Step /\ r.spec \in A!Assessed
      /\ UNCHANGED <<modality, pool, verdict, started>>
  BY DEF AssessInv, RunOK, A!Probe, A!At
<1>2. PICK q : Becomes(e, q) /\ RunOK(q) /\ q.pc = "assemble" /\ q.round = r.round
  <2>1. CASE A!BRIDGE_SPECS[r.spec].probe
    <3>1. PICK report \in [A!ToSet(f) -> A!Report] :
            A!Goto(e, A!ProbeAll(r, f, report), "assemble")
      BY <2>1 DEF A!Probe, A!SpecOf
    <3> DEFINE p == A!ProbeAll(r, f, report)
               q == [p EXCEPT !.pc = "assemble"]
    <3>2. /\ p = [r EXCEPT !.dataset = p.dataset, !.report = p.report, !.survivors = <<>>,
                           !.rejections = p.rejections]
          /\ p \in Locals /\ Tallied(p) /\ ToAssemble(p)
      <4>1. r \in Locals /\ RunOK(r) /\ r.pc = "probe" /\ A!AssessConstants
        BY <1>1
      <4>2. report \in [A!ToSet(f) -> A!Report]
        OBVIOUS
      <4> HIDE DEF r
      <4> QED BY ONLY <4>1, <4>2, ProbeAllHolds
    <3>3. Becomes(e, q)
      BY <3>1 DEF A!Goto, Becomes
    <3> HIDE DEF p
    <3>4. /\ p.round = r.round /\ p.survivors = <<>> /\ p.model = r.model /\ p.spec = r.spec
      BY <1>1, <3>2 DEF Locals
    <3>5. /\ q \in Locals /\ q.pc = "assemble" /\ q.round = p.round
          /\ q.candidates = p.candidates /\ q.survivors = p.survivors
          /\ q.rejections = p.rejections /\ q.notInspected = p.notInspected
          /\ q.dataset = p.dataset /\ q.report = p.report /\ q.model = p.model /\ q.spec = p.spec
      BY <3>2 DEF Locals, A!Place
    <3> HIDE DEF q
    <3>6. \A g : Out(q, g) = Out(p, g)
      BY <3>5 DEF Out
    <3>7. Left(q) = Left(p) /\ Refused(q) = Refused(p) /\ Tallied(q)
      BY <3>2, <3>5, <3>6 DEF Left, Refused, Tallied
    <3>8. ToAssemble(q)
      BY <3>2, <3>5, <3>6, <3>7 DEF ToAssemble
    <3>9. Len(q.survivors) <= MAX_FINALISTS
      BY <3>4, <3>5, EmptyList DEF A!AssessConstants
    <3>10. RunOK(q)
      BY <1>1, <3>4, <3>5, <3>7, <3>8, <3>9 DEF RunOK
    <3> QED BY <3>3, <3>4, <3>5, <3>10
  <2>2. CASE ~A!BRIDGE_SPECS[r.spec].probe
    <3> DEFINE q == [[r EXCEPT !.dataset = Head(f), !.survivors = <<>>] EXCEPT !.pc = "assemble"]
    <3>1. Becomes(e, q)
      BY <2>2 DEF A!Goto, Becomes, A!Probe, A!SpecOf
    <3>2. RunOK(q) /\ q.pc = "assemble" /\ q.round = r.round
      <4>1. RunOK(r) /\ r.pc = "probe" /\ ~A!BRIDGE_SPECS[r.spec].probe /\ A!AssessConstants
        BY <1>1, <2>2
      <4> HIDE DEF r
      <4> QED BY ONLY <4>1, UnprobedHolds
    <3> QED BY <3>1, <3>2
  <2> QED BY <2>1, <2>2
<1>3. Nearer(r, q)
  BY <1>1, <1>2, StageNearer
<1>4. AssessInv'
  BY <1>1, <1>2, GoingOn
<1> QED BY <1>2, <1>3, <1>4 DEF Advances

\* The API route, for which nothing is left.
LEMMA AssessApiKeeps ==
  ASSUME A!AssessConstants, AssessInv, NEW e \in Assessor, A!AssessApi(e)
  PROVE  AssessInv' /\ Advances(e)
<1> DEFINE r == run[e]
<1>1. /\ RunOK(r) /\ r \in Locals /\ r.pc = "api" /\ r.model \in Step /\ r.spec \in A!Assessed
      /\ UNCHANGED <<modality, pool, verdict, started>>
      /\ Tallied(r) /\ UnderWay(r) /\ r.fresh = <<>> /\ r.survivors = <<>>
  BY DEF AssessInv, RunOK, A!AssessApi, A!At
<1>2. PICK b \in BOOLEAN : A!Goto(e, [r EXCEPT !.api = b], "assemble")
  BY DEF A!AssessApi
<1> DEFINE q == [[r EXCEPT !.api = b] EXCEPT !.pc = "assemble"]
<1>3. Becomes(e, q)
  BY <1>2 DEF A!Goto, Becomes
<1>4. /\ q.pc = "assemble" /\ q.candidates = r.candidates /\ q.fresh = r.fresh
      /\ q.survivors = r.survivors /\ q.rejections = r.rejections
      /\ q.notInspected = r.notInspected /\ q.dataset = r.dataset /\ q.report = r.report
      /\ q.spec = r.spec /\ q.model = r.model /\ q.round = r.round /\ q \in Locals
  BY <1>1 DEF Locals, A!Place
<1> HIDE DEF q
<1>5. Tallied(q) /\ UnderWay(q)
  BY <1>1, <1>4, SameAccounts
<1>6. MAX_FINALISTS \in Nat
  BY DEF A!AssessConstants
<1>7. ToAssemble(q)
  <2>1. Left(q) = 0
    <3>1. Left(q) = Len(q.fresh) + Len(q.survivors) /\ Len(q.fresh) = 0 /\ Len(q.survivors) = 0
      BY <1>1, <1>4, <1>5, EmptyList DEF UnderWay
    <3> QED BY <3>1
  <2>2. q.dataset = A!NoDataset /\ Len(Out(q, "probe")) = 0 /\ A!ToSet(Out(q, "probe")) = {}
    BY <1>5, EmptyList DEF UnderWay
  <2>3. A!NoDataset \notin Refused(q)
    <3>1. Refused(q) \subseteq A!ToSet(q.candidates)
      BY <1>5 DEF UnderWay
    <3>2. A!ToSet(q.candidates) \subseteq A!Dataset
      BY <1>4, ListHolds DEF Locals
    <3> QED BY <3>1, <3>2, NoDatasetIsNone
  <2>4. Left(q) \in 0..MAX_FINALISTS /\ Len(Out(q, "probe")) <= Left(q)
    BY <1>6, <2>1, <2>2
  <2> QED BY <2>1, <2>2, <2>3, <2>4 DEF ToAssemble
<1>8. RunOK(q)
  BY <1>1, <1>4, <1>5, <1>6, <1>7, EmptyList DEF RunOK
<1>9. Nearer(r, q)
  BY <1>1, <1>4, StageNearer
<1>10. AssessInv'
  BY <1>1, <1>3, <1>4, <1>8, GoingOn
<1> QED BY <1>3, <1>9, <1>10 DEF Advances

\* The verdict is assembled, accepted and stored, or refused.
LEMMA AssembleKeeps ==
  ASSUME A!AssessConstants, AssessInv, NEW e \in Assessor, A!Assemble(e)
  PROVE  AssessInv' /\ Advances(e)
<1> DEFINE r == run[e]
           a == A!Artefact(r)
<1>1. /\ RunOK(r) /\ r \in Locals /\ r.pc = "assemble" /\ r.model \in Step /\ r.spec \in A!Assessed
      /\ UNCHANGED <<modality, pool, started>> /\ r.spec \in Step
  BY DEF AssessInv, RunOK, A!Assemble, A!At, A!Assessed
<1>2. ArtefactOK(a)
  BY <1>1, ArtefactHolds
<1> HIDE DEF a
<1>3. started' \in 0..MaxAssessments /\ "succeeded" \in A!Ended /\ "critic" \in A!Ended
  BY <1>1 DEF AssessInv, A!Ended
<1>4. CASE A!Accepts(a, r)
  <2>1. verdict' = [verdict EXCEPT ![r.spec] = a]
    BY <1>4 DEF A!Assemble, a
  <2>2. /\ verdict' = [s \in Step |-> verdict'[s]] /\ verdict'[r.spec] = a
        /\ \A s \in Step : verdict'[s] = verdict[s] \/ ArtefactOK(verdict'[s])
    BY <1>1, <1>2, <2>1 DEF AssessInv
  <2>3. CASE r.model = r.spec
    <3>1. A!End(e, "succeeded")
      BY <1>4, <2>3 DEF A!Assemble, a
    <3> QED BY <1>1, <1>3, <2>2, <3>1, Ending
  <2>4. CASE r.model # r.spec
    <3> DEFINE q == [r EXCEPT !.pc = "inherit"]
    <3>1. Becomes(e, q)
      BY <1>4, <2>4 DEF A!Assemble, A!Goto, Becomes, a
    <3>2. /\ q \in Locals /\ q.pc = "inherit" /\ q.round = r.round /\ q.rejections = r.rejections
          /\ q.spec = r.spec /\ q.model = r.model /\ q.survivors = r.survivors
      BY <1>1 DEF Locals, A!Place
    <3> HIDE DEF q
    <3>3. RunOK(q)
      BY <1>1, <3>2 DEF RunOK, Tallied, Out
    <3>4. ArtefactOK(verdict'[q.spec])
      BY <1>2, <2>2, <3>2
    <3>5. AssessInv'
      BY <1>1, <1>3, <2>2, <3>1, <3>3, <3>4, OneMoves DEF Becomes
    <3>6. Nearer(r, q)
      BY <1>1, <3>2, StageNearer
    <3> QED BY <3>1, <3>5, <3>6 DEF Advances
  <2> QED BY <2>3, <2>4
<1>5. CASE ~A!Accepts(a, r)
  <2>1. A!End(e, "critic") /\ UNCHANGED verdict
    BY <1>5 DEF A!Assemble, a
  <2>2. verdict' = [s \in Step |-> verdict'[s]]
    BY <2>1 DEF AssessInv
  <2> QED BY <1>1, <1>3, <2>1, <2>2, Ending
<1> QED BY <1>4, <1>5

\* The heir's verdict is its parent's (build_inherited).
LEMMA InheritKeeps ==
  ASSUME A!AssessConstants, AssessInv, NEW e \in Assessor, A!Inherit(e)
  PROVE  AssessInv' /\ Advances(e)
<1> DEFINE r == run[e]
           b == verdict[r.spec]
           a == [b EXCEPT !.inherited_from = r.spec]
<1>1. /\ r.pc = "inherit" /\ r.model \in Step /\ r.spec \in A!Assessed /\ ArtefactOK(b)
      /\ UNCHANGED <<modality, pool, started>> /\ A!End(e, "succeeded")
      /\ verdict' = [verdict EXCEPT ![r.model] = a]
  BY DEF AssessInv, RunOK, A!Inherit, A!At
<1>2. ArtefactOK(a)
  <2>1. b \in A!Artefacts /\ r.spec \in A!Assessed \cup {None}
    BY <1>1 DEF ArtefactOK
  <2> HIDE DEF b, r
  <2>2. /\ a \in A!Artefacts /\ a.verdict = b.verdict /\ a.dataset = b.dataset
        /\ a.evidence = b.evidence
    BY <2>1 DEF A!Artefacts
  <2> HIDE DEF a
  <2>3. A!Finalists(a) = A!Finalists(b)
    BY <2>2 DEF A!Finalists
  <2> QED BY <1>1, <2>2, <2>3 DEF ArtefactOK
<1> HIDE DEF a, b
<1>3. started' \in 0..MaxAssessments /\ "succeeded" \in A!Ended
  BY <1>1 DEF AssessInv, A!Ended
<1>4. /\ verdict' = [s \in Step |-> verdict'[s]]
      /\ \A s \in Step : verdict'[s] = verdict[s] \/ ArtefactOK(verdict'[s])
  BY <1>1, <1>2 DEF AssessInv
<1> QED BY <1>1, <1>3, <1>4, Ending

\* A run that is stopped leaves what was written.
LEMMA StopKeeps ==
  ASSUME A!AssessConstants, AssessInv, NEW e \in Assessor, A!Stop(e)
  PROVE  AssessInv' /\ Advances(e)
<1>1. A!End(e, "failed") /\ UNCHANGED <<modality, pool, verdict, started>> /\ "failed" \in A!Ended
  BY DEF A!Stop, A!Ended
<1>2. started' \in 0..MaxAssessments /\ verdict' = [s \in Step |-> verdict'[s]]
  BY <1>1 DEF AssessInv
<1> QED BY <1>1, <1>2, Ending

----------------------------------------------------------------------------
\* The assessments as a whole.
LEMMA InitAssess ==
  ASSUME A!AssessConstants, A!Init
  PROVE  AssessInv
<1>1. RunOK(A!Idle("none")) /\ A!Idle("none").pc = "idle"
  BY IdleHolds DEF A!Ended, A!Idle
<1>2. /\ modality \in A!Modality /\ pool = None /\ verdict = [s \in Step |-> None]
      /\ run = [e \in Assessor |-> A!Idle("none")] /\ started = 0
  BY DEF A!Init
<1>3. 0 \in 0..MaxAssessments
  BY DEF A!AssessConstants
<1> QED BY <1>1, <1>2, <1>3 DEF AssessInv

\* One step: a run that was not idle ends or comes nearer its end.
Bounded == \A e \in Assessor :
    ~A!At(e, "idle") /\ run'[e].pc # "idle" /\ run'[e] # run[e] =>
        A!Distance(run'[e]) \in 0..(A!Distance(run[e]) - 1)

\* A step of one run moves no other.
LEMMA AdvanceIsBounded ==
  ASSUME AssessInv, NEW e \in Assessor, Advances(e)
  PROVE  Bounded
<1>1. PICK q : run' = [run EXCEPT ![e] = q] /\ Nearer(run[e], q)
  BY DEF Advances, Becomes
<1>2. run'[e] = q /\ \A f \in Assessor : f # e => run'[f] = run[f]
  BY <1>1 DEF AssessInv
<1> QED BY <1>1, <1>2 DEF Bounded, Nearer

\* Every step keeps the invariant and is bounded.
LEMMA StepAssess ==
  ASSUME A!AssessConstants, AssessInv, [A!Next]_A!vars
  PROVE  AssessInv' /\ Bounded
<1>1. CASE UNCHANGED A!vars
  <2>1. UNCHANGED <<modality, pool, verdict, run, started>>
    BY <1>1 DEF A!vars
  <2>2. AssessInv'
    BY <2>1 DEF AssessInv
  <2> QED BY <2>1, <2>2 DEF Bounded
<1>2. ASSUME NEW e \in Assessor, NEW s \in Step, A!Start(e, s) PROVE AssessInv' /\ Bounded
  <2>1. A!At(e, "idle") /\ \A f \in Assessor : f # e => run'[f] = run[f]
    BY <1>2 DEF A!Start, AssessInv
  <2>2. AssessInv'
    BY <1>2, StartKeeps
  <2> QED BY <2>1, <2>2 DEF Bounded
<1>3. ASSUME NEW e \in Assessor, A!Advance(e) \/ A!Stop(e) PROVE AssessInv' /\ Bounded
  <2>1. AssessInv' /\ Advances(e)
    BY <1>3, ReusePoolKeeps, ScoutKeeps, SavePoolKeeps, GatesKeeps, ReplanKeeps, ProbeKeeps,
       AssessApiKeeps, AssembleKeeps, InheritKeeps, StopKeeps DEF A!Advance
  <2> QED BY <2>1, AdvanceIsBounded
<1> QED BY <1>1, <1>2, <1>3 DEF A!Next

\* What the invariant says of the types.
LEMMA AssessTypes ==
  ASSUME AssessInv
  PROVE  A!TypeOK
<1>1. pool # None => pool \in [candidates: Seq(A!Dataset), rejected_relevance: Seq(A!Dataset)]
  <2>1. ASSUME pool # None PROVE PoolOK(pool)
    BY <2>1 DEF AssessInv
  <2> QED BY <2>1, ListHolds DEF PoolOK
<1>2. \A s \in Step : verdict[s] # None => verdict[s] \in A!Artefacts
  BY DEF AssessInv, ArtefactOK
<1>3. ASSUME NEW e \in Assessor
      PROVE  /\ run[e].pc \in A!Place /\ run[e].ended \in A!Ended
             /\ run[e].model \in Step \cup {None} /\ run[e].spec \in A!Assessed \cup {None}
             /\ run[e].candidates \in Seq(A!Dataset) /\ run[e].fresh \in Seq(A!Dataset)
             /\ run[e].survivors \in Seq(A!Dataset) /\ Len(run[e].survivors) <= MAX_FINALISTS
             /\ run[e].seen \subseteq A!Dataset /\ run[e].notInspected \in Nat
             /\ run[e].round \in 0..MAX_REPLANS
             /\ run[e].rejections \in [A!Gate -> [count: Nat, examples: Seq(A!Dataset)]]
             /\ run[e].dataset \in A!Dataset \cup {A!NoDataset}
             /\ run[e].report \in A!Report \cup {A!NoReport} /\ run[e].api \in BOOLEAN
  <2>1. run[e] \in Locals /\ Len(run[e].survivors) <= MAX_FINALISTS
    BY DEF AssessInv, RunOK
  <2> QED BY <2>1, ListHolds DEF Locals
<1> QED BY <1>1, <1>2, <1>3 DEF AssessInv, A!TypeOK

\* What the invariant says of the verdicts.
LEMMA AssessBacked ==
  ASSUME A!AssessConstants, AssessInv
  PROVE  A!VerdictsAreBacked
<1>1. \A s \in Step : verdict[s] # None => ArtefactOK(verdict[s])
  BY DEF AssessInv
<1>2. A!EvidenceAddsUp /\ A!NotAtThisStepIsUnanimous /\ A!CitedSurvivedGates
  BY <1>1 DEF ArtefactOK, A!EvidenceAddsUp, A!NotAtThisStepIsUnanimous, A!CitedSurvivedGates
<1>3. A!CriticRefusesOnlyUnprobed
  <2> SUFFICES ASSUME NEW e \in Assessor, A!At(e, "assemble"),
                      ~A!Accepts(A!Artefact(run[e]), run[e])
               PROVE  A!SpecOf(e).probe /\ run[e].dataset = A!NoDataset
    BY DEF A!CriticRefusesOnlyUnprobed
  <2>1. RunOK(run[e]) /\ run[e] \in Locals /\ run[e].pc = "assemble"
    BY DEF AssessInv, RunOK, A!At
  <2> QED BY <2>1, ArtefactHolds DEF A!SpecOf
<1> QED BY <1>2, <1>3 DEF A!VerdictsAreBacked

\* What R takes from the library is what this module takes.
LEMMA SameSizes ==
  /\ \A S : R!Cardinality(S) = Cardinality(S)
  /\ \A S : R!IsFiniteSet(S) <=> IsFiniteSet(S)
<1>1. ASSUME NEW S PROVE R!Cardinality(S) = Cardinality(S)
  BY DEF R!Cardinality, Cardinality
<1>2. ASSUME NEW S PROVE R!IsFiniteSet(S) <=> IsFiniteSet(S)
  BY DEF R!IsFiniteSet, IsFiniteSet
<1> QED BY <1>1, <1>2

\* What a function makes of a finite set is finite and no larger, and as large if it
\* tells its elements apart.
LEMMA ImageHolds ==
  ASSUME NEW S, IsFiniteSet(S), NEW f, DOMAIN f = S
  PROVE  /\ IsFiniteSet({f[x] : x \in S}) /\ Cardinality({f[x] : x \in S}) \in Nat
         /\ Cardinality({f[x] : x \in S}) <= Cardinality(S)
         /\ (\A x \in S, y \in S : f[x] = f[y] => x = y) =>
               Cardinality({f[x] : x \in S}) = Cardinality(S)
<1> DEFINE T == {f[x] : x \in S}
           g == [x \in S |-> f[x]]
<1>1. g \in Surjection(S, T)
  BY DEF Surjection
<1>2. (\A x \in S, y \in S : f[x] = f[y] => x = y) => g \in Injection(S, T)
  BY DEF Injection, IsInjective
<1> HIDE DEF g, T
<1>3. /\ IsFiniteSet(T) /\ Cardinality(T) <= Cardinality(S)
      /\ g \in Injection(S, T) => Cardinality(T) = Cardinality(S)
  BY <1>1, FS_Surjection
<1>4. Cardinality(T) \in Nat
  BY <1>3, FS_CardinalityType
<1> QED BY <1>2, <1>3, <1>4 DEF T

\* Rows with ids of their own.
Ranked(S) ==
    /\ IsFiniteSet(S) /\ \A r \in S : r.at \in Nat /\ r.id \in Nat
    /\ \A r \in S, q \in S : r.id = q.id => r = q

\* Newer is a strict order of such rows, total but for rows that are the same.
LEMMA NewerOrders ==
  ASSUME NEW S, Ranked(S), NEW p \in S, NEW q \in S, NEW r \in S
  PROVE  /\ ~R!Newer(r, r) /\ (R!Newer(p, q) /\ R!Newer(q, r) => R!Newer(p, r))
         /\ p = q \/ R!Newer(p, q) \/ R!Newer(q, p)
         /\ R!Newer(p, q) => q.at <= p.at
<1>1. /\ p.at \in Nat /\ p.id \in Nat /\ q.at \in Nat /\ q.id \in Nat /\ r.at \in Nat /\ r.id \in Nat
      /\ p.id = q.id => p = q
  BY DEF Ranked
<1> QED BY <1>1 DEF R!Newer

\* The rows of S newer than r; there are more of them for an older row.
Above(S, r) == {q \in S : R!Newer(q, r)}

\* Fewer rows are newer than a newer row.
LEMMA RankGrows ==
  ASSUME NEW S, Ranked(S), NEW q \in S, NEW r \in S
  PROVE  /\ IsFiniteSet(Above(S, r)) /\ Cardinality(Above(S, r)) \in Nat
         /\ R!Newer(q, r) => Cardinality(Above(S, q)) < Cardinality(Above(S, r))
<1>1. IsFiniteSet(S) /\ Above(S, r) \subseteq S /\ Above(S, q) \subseteq S
  BY DEF Above, Ranked
<1>2. /\ IsFiniteSet(Above(S, r)) /\ Cardinality(Above(S, r)) \in Nat
      /\ IsFiniteSet(Above(S, q)) /\ Cardinality(Above(S, q)) \in Nat
  BY <1>1, FS_Subset, FS_CardinalityType
<1>3. ASSUME R!Newer(q, r) PROVE Cardinality(Above(S, q)) < Cardinality(Above(S, r))
  <2>1. q \notin Above(S, q) /\ Above(S, q) \cup {q} \subseteq Above(S, r)
    BY <1>3, NewerOrders DEF Above
  <2>2. Cardinality(Above(S, q) \cup {q}) = Cardinality(Above(S, q)) + 1
    BY <1>2, <2>1, FS_AddElement
  <2>3. Cardinality(Above(S, q) \cup {q}) <= Cardinality(Above(S, r))
    BY <1>2, <2>1, FS_Subset
  <2> QED BY <1>2, <2>2, <2>3
<1> QED BY <1>2, <1>3

\* The newest of some rows, and the oldest.
LEMMA Extremes ==
  ASSUME NEW S, Ranked(S), NEW T \in SUBSET S, T # {}
  PROVE  /\ \E m \in T : \A q \in T : q = m \/ R!Newer(m, q)
         /\ \E m \in T : \A q \in T : q = m \/ R!Newer(q, m)
<1> DEFINE rank(r) == Cardinality(Above(S, r))
           c == Cardinality(S)
<1>0. c \in Nat /\ \A r \in S : rank(r) \in Nat /\ rank(r) <= c
  <2>1. IsFiniteSet(S) /\ \A r \in S : Above(S, r) \subseteq S
    BY DEF Ranked, Above
  <2> QED BY <2>1, FS_Subset, FS_CardinalityType
<1>1. \A q \in S, r \in S : R!Newer(q, r) => rank(q) < rank(r)
  BY RankGrows
<1> HIDE DEF rank, c
<1>2. PICK m \in T : \A q \in T : rank(m) <= rank(q)
  <2> DEFINE Ranks == {rank(r) : r \in T}
  <2>1. Ranks \in SUBSET Nat /\ Ranks # {}
    BY <1>0
  <2>2. PICK n \in Ranks : \A k \in Ranks : n <= k
    <3> HIDE DEF Ranks
    <3> QED BY <2>1, LeastNat
  <2> QED BY <2>2
<1>3. PICK o \in T : \A q \in T : c - rank(o) <= c - rank(q)
  <2> DEFINE Ranks == {c - rank(r) : r \in T}
  <2>1. Ranks \in SUBSET Nat /\ Ranks # {}
    BY <1>0
  <2>2. PICK n \in Ranks : \A k \in Ranks : n <= k
    <3> HIDE DEF Ranks
    <3> QED BY <2>1, LeastNat
  <2> QED BY <2>2
<1>4. ASSUME NEW q \in T PROVE q = m \/ R!Newer(m, q)
  <2>1. rank(m) \in Nat /\ rank(q) \in Nat /\ rank(m) <= rank(q) /\ (R!Newer(q, m) => rank(q) < rank(m))
    BY <1>0, <1>1, <1>2
  <2>2. ~R!Newer(q, m)
    BY <2>1
  <2>3. Ranked(S) /\ m \in S /\ q \in S
    OBVIOUS
  <2> QED BY <2>2, <2>3, NewerOrders, Zenon
<1>5. ASSUME NEW q \in T PROVE q = o \/ R!Newer(q, o)
  <2>1. /\ rank(o) \in Nat /\ rank(q) \in Nat /\ c \in Nat /\ c - rank(o) <= c - rank(q)
        /\ R!Newer(o, q) => rank(o) < rank(q)
    BY <1>0, <1>1, <1>3
  <2>2. ~R!Newer(o, q)
    BY <2>1
  <2>3. Ranked(S) /\ o \in S /\ q \in S
    OBVIOUS
  <2> QED BY <2>2, <2>3, NewerOrders, Zenon
<1> QED BY <1>4, <1>5

\* The newest n are n, or all; and nothing left out is newer.
LEMMA NewestHolds ==
  ASSUME NEW S, Ranked(S), NEW n \in Nat
  PROVE  /\ R!Newest(S, n) \subseteq S /\ IsFiniteSet(R!Newest(S, n))
         /\ Cardinality(R!Newest(S, n)) <= n
         /\ R!Newest(S, n) # S => Cardinality(R!Newest(S, n)) >= n
         /\ \A r \in R!Newest(S, n), q \in S \ R!Newest(S, n) : q.at <= r.at
<1> DEFINE N == R!Newest(S, n)
           rank(r) == Cardinality(Above(S, r))
<1>1. N = {r \in S : rank(r) < n}
  <2>1. \A r \in S : R!Cardinality(Above(S, r)) = rank(r)
    BY SameSizes
  <2>2. N = {r \in S : R!Cardinality(Above(S, r)) < n}
    BY DEF R!Newest, Above
  <2> HIDE DEF N, rank
  <2> QED BY <2>1, <2>2
<1>2. \A r \in S : rank(r) \in Nat /\ IsFiniteSet(Above(S, r))
  BY RankGrows
<1>3. \A q \in S, r \in S : R!Newer(q, r) => rank(q) < rank(r)
  BY RankGrows
<1>4. N \subseteq S /\ IsFiniteSet(N) /\ Cardinality(N) \in Nat
  BY <1>1, FS_Subset, FS_CardinalityType DEF Ranked
<1>5. Cardinality(N) <= n
  <2>1. CASE N = {}
    BY <2>1, FS_EmptySet
  <2>2. CASE N # {}
    <3>1. PICK o \in N : \A q \in N : q = o \/ R!Newer(q, o)
      <4> HIDE DEF N
      <4> QED BY <1>4, <2>2, Extremes
    <3>2. N \ {o} \subseteq Above(S, o)
      BY <1>4, <3>1 DEF Above
    <3>3. Cardinality(N \ {o}) = Cardinality(N) - 1
      <4> HIDE DEF N
      <4> QED BY <1>4, <3>1, FS_RemoveElement
    <3>4. Cardinality(N \ {o}) <= rank(o)
      BY <1>2, <1>4, <3>1, <3>2, FS_Subset
    <3>5. rank(o) < n /\ rank(o) \in Nat
      BY <1>1, <1>2, <3>1
    <3> HIDE DEF rank, N
    <3> QED BY <1>4, <3>3, <3>4, <3>5
  <2> QED BY <2>1, <2>2
<1>6. ASSUME N # S PROVE Cardinality(N) >= n
  <2>1. PICK m \in S \ N : \A q \in S \ N : q = m \/ R!Newer(m, q)
    <3>1. S \ N # {} /\ S \ N \in SUBSET S
      BY <1>4, <1>6
    <3> HIDE DEF N
    <3> QED BY <3>1, Extremes
  <2>2. Above(S, m) \subseteq N
    <3> SUFFICES ASSUME NEW q \in Above(S, m), q \notin N PROVE FALSE
      OBVIOUS
    <3>1. q \in S /\ R!Newer(q, m)
      BY DEF Above
    <3>2. q = m \/ R!Newer(m, q)
      BY <2>1, <3>1
    <3> QED BY <2>1, <3>1, <3>2, NewerOrders
  <2>3. rank(m) >= n /\ rank(m) \in Nat
    BY <1>1, <1>2, <2>1
  <2>4. rank(m) <= Cardinality(N)
    BY <1>4, <2>2, FS_Subset
  <2> HIDE DEF rank, N
  <2> QED BY <1>4, <2>3, <2>4
<1>7. ASSUME NEW r \in N, NEW q \in S \ N PROVE q.at <= r.at
  <2>1. rank(r) < n /\ rank(r) \in Nat /\ rank(q) >= n /\ rank(q) \in Nat /\ r \in S /\ q \in S
    BY <1>1, <1>2
  <2>2. R!Newer(q, r) => rank(q) < rank(r)
    BY <1>3, <2>1
  <2> HIDE DEF rank
  <2>3. ~R!Newer(q, r)
    BY <2>1, <2>2
  <2>4. R!Newer(r, q)
    BY <2>1, <2>3, NewerOrders, Zenon
  <2> QED BY <2>1, <2>4, NewerOrders
<1> HIDE DEF N
<1> QED BY <1>4, <1>5, <1>6, <1>7 DEF N

\* A row as it is committed, and as a transaction holds it.
Committed == [topic: Topic, at: 0..clock, id: Id]
Held == [topic: Topic, at: 0..clock, id: Id \cup {0}]
Transaction ==
    [pc: {"idle", "begun", "written", "evicted"}, row: Held \cup {0},
     evicted: SUBSET Id, alone: BOOLEAN]

\* The types, with times that have been.
RecentTypes ==
    /\ clock \in 0..MaxTime /\ alone \in BOOLEAN
    /\ rows \subseteq Committed /\ IsFiniteSet(rows)
    /\ asked \subseteq [topic: Topic, at: 0..clock] /\ IsFiniteSet(asked)
    /\ tab \in [Tab -> Transaction]
    /\ \A t \in Tab :
          /\ tab[t].pc # "idle" => tab[t].row \in Held
          /\ R!Writing(t) => tab[t].row \in Committed

\* Who writes has a topic and an id of its own, those of a row or of none.
WritersApart ==
    /\ \A t \in Tab, u \in Tab : R!Writing(t) /\ R!Writing(u) /\ t # u =>
          tab[t].row.topic # tab[u].row.topic /\ tab[t].row.id # tab[u].row.id
    /\ \A t \in Tab, r \in rows : R!Writing(t) =>
          (r.topic = tab[t].row.topic <=> r.id = tab[t].row.id)

\* What a search that met no other found is what it leaves.
AloneIsAlone ==
    \A t \in Tab : tab[t].alone /\ tab[t].pc # "idle" =>
        /\ \A u \in Tab : u # t => tab[u].pc = "idle"
        /\ \A r \in rows : r.at <= tab[t].row.at
        /\ \A s \in asked : s.at <= tab[t].row.at
        /\ tab[t].pc = "evicted" =>
              tab[t].evicted = {r.id : r \in R!Seen(t) \ R!Newest(R!Seen(t), RECENT_SEARCH_LIMIT)}

\* The rows are of the searches asked for, and what they leave out is older.
RowsAreAsked ==
    /\ \A r \in rows : [topic |-> r.topic, at |-> r.at] \in asked
    /\ \A s \in asked, u \in asked : s.topic = u.topic => s = u
    /\ \A s \in asked :
          \/ \E q \in rows : q.topic = s.topic
          \/ Cardinality(rows) >= RECENT_SEARCH_LIMIT /\ \A r \in rows : r.at >= s.at
    /\ alone => Cardinality(rows) <= RECENT_SEARCH_LIMIT

\* The rows once the transactions in Q, whose deletes have begun, commit.
Evicting == {t \in Tab : tab[t].pc = "evicted"}
After(Q) ==
    {r \in rows : \A q \in Q : r.topic # tab[q].row.topic /\ r.id \notin tab[q].evicted}
    \cup {tab[q].row : q \in {p \in Q : tab[p].row.id \notin tab[p].evicted}}
NeverLong ==
    \A Q \in SUBSET Evicting :
        Cardinality(After(Q)) < RECENT_SEARCH_LIMIT + Cardinality(Tab)

RecentInv ==
    /\ RecentTypes /\ R!RowsAreDistinct /\ WritersApart
    /\ AloneIsAlone /\ RowsAreAsked /\ NeverLong

----------------------------------------------------------------------------
\* A step that only ends or begins transactions, or takes time, moves no writer.
LEMMA FewerWriters ==
  ASSUME WritersApart, rows' = rows,
         \A q \in Tab : R!Writing(q)' => R!Writing(q) /\ tab'[q].row = tab[q].row
  PROVE  WritersApart'
BY DEF WritersApart

\* The same of the deletes that are under way.
LEMMA FewerEvicting ==
  ASSUME NeverLong, rows' = rows,
         \A q \in Tab : tab'[q].pc = "evicted" =>
             tab[q].pc = "evicted" /\ tab'[q].row = tab[q].row /\ tab'[q].evicted = tab[q].evicted
  PROVE  NeverLong'
<1> SUFFICES ASSUME NEW Q \in SUBSET Evicting'
             PROVE  Cardinality(After(Q)') < RECENT_SEARCH_LIMIT + Cardinality(Tab)
  BY DEF NeverLong
<1>1. Q \in SUBSET Evicting
  BY DEF Evicting
<1>2. \A q \in Q : tab'[q].row = tab[q].row /\ tab'[q].evicted = tab[q].evicted
  BY DEF Evicting
<1>3. After(Q)' = After(Q)
  BY <1>2 DEF After
<1> QED BY <1>1, <1>3 DEF NeverLong

\* With the rows and the searches, what is said of them alone stays.
LEMMA RowsStay ==
  ASSUME R!RowsAreDistinct, RowsAreAsked, UNCHANGED <<rows, asked, alone>>
  PROVE  R!RowsAreDistinct' /\ RowsAreAsked'
BY DEF R!RowsAreDistinct, RowsAreAsked

\* Time passes.
LEMMA TickKeeps ==
  ASSUME RecentInv, R!Tick
  PROVE  RecentInv'
<1>1. clock < MaxTime /\ clock' = clock + 1 /\ UNCHANGED <<rows, tab, asked, alone>>
  BY DEF R!Tick
<1>2. RecentTypes'
  <2>1. clock' \in 0..MaxTime /\ 0..clock \subseteq 0..clock'
    BY <1>1, PartsAssumption DEF RecentInv, RecentTypes, R!RecentSearchesConstants
  <2>2. Held \subseteq Held' /\ Committed \subseteq Committed'
    BY <2>1 DEF Held, Committed
  <2>3. [topic: Topic, at: 0..clock] \subseteq [topic: Topic, at: 0..clock']
    BY <2>1
  <2>4. Transaction \subseteq Transaction'
    BY <2>2 DEF Transaction
  <2>5. tab' \in [Tab -> Transaction']
    BY <1>1, <2>4 DEF RecentInv, RecentTypes
  <2> QED BY <1>1, <2>1, <2>2, <2>3, <2>5 DEF RecentInv, RecentTypes, R!Writing, R!At
<1>3. WritersApart' /\ NeverLong'
  BY <1>1, FewerWriters, FewerEvicting DEF RecentInv, R!Writing, R!At
<1>4. AloneIsAlone'
  BY <1>1 DEF RecentInv, AloneIsAlone, R!Seen
<1> QED BY <1>1, <1>2, <1>3, <1>4, RowsStay DEF RecentInv

\* A search begins: if no other is under way, it is alone (record_search).
LEMMA BeginKeeps ==
  ASSUME RecentInv, NEW t \in Tab, NEW topic \in Topic, R!Begin(t, topic)
  PROVE  RecentInv'
<1>0. PICK first \in BOOLEAN : first = (\A u \in Tab : R!At(u, "idle"))
  OBVIOUS
<1> DEFINE q == [R!Nothing EXCEPT !.pc = "begun", !.alone = first,
                                  !.row = [topic |-> topic, at |-> clock, id |-> 0]]
<1>1. /\ tab[t].pc = "idle" /\ UNCHANGED <<clock, rows, asked, alone>>
      /\ tab' = [u \in Tab |-> IF u = t THEN q ELSE [tab[u] EXCEPT !.alone = FALSE]]
  BY <1>0 DEF R!Begin, R!At
<1>2. RecentTypes /\ tab \in [Tab -> Transaction] /\ clock \in 0..MaxTime /\ MaxTime \in Nat
  BY PartsAssumption DEF RecentInv, RecentTypes, R!RecentSearchesConstants
<1>3. /\ q.pc = "begun" /\ q.alone = first /\ q.row = [topic |-> topic, at |-> clock, id |-> 0]
      /\ q.evicted = {} /\ q \in Transaction /\ q.row \in Held
  <2>1. [topic |-> topic, at |-> clock, id |-> 0] \in Held
    BY <1>2 DEF Held
  <2> DEFINE x == [topic |-> topic, at |-> clock, id |-> 0]
  <2>2. /\ q.pc = "begun" /\ q.row = x /\ q.evicted = {} /\ q.alone = first
        /\ q = [pc |-> q.pc, row |-> q.row, evicted |-> q.evicted, alone |-> q.alone]
    <3>1. q = [R!Nothing EXCEPT !.pc = "begun", !.alone = first, !.row = x]
      OBVIOUS
    <3> HIDE DEF q, x
    <3> QED BY <3>1 DEF R!Nothing
  <2> HIDE DEF q
  <2> QED BY <2>1, <2>2 DEF Transaction
<1> HIDE DEF q
<1>4. ASSUME NEW u \in Tab, u # t
      PROVE  /\ tab'[u] \in Transaction /\ tab'[u].alone = FALSE
             /\ tab'[u].pc = tab[u].pc /\ tab'[u].row = tab[u].row
             /\ tab'[u].evicted = tab[u].evicted
  <2>1. tab[u] \in Transaction /\ tab'[u] = [tab[u] EXCEPT !.alone = FALSE]
    BY <1>1, <1>2, <1>4
  <2> QED BY <2>1 DEF Transaction
<1>5. tab'[t] = q
  BY <1>1
<1>6. RecentTypes'
  <2>1. tab' \in [Tab -> Transaction]
    <3>1. \A u \in Tab : tab'[u] \in Transaction
      BY <1>3, <1>4, <1>5
    <3> QED BY <1>1, <3>1
  <2>2. Transaction' = Transaction /\ Held' = Held /\ Committed' = Committed
    BY <1>1 DEF Transaction, Held, Committed
  <2>3. ASSUME NEW u \in Tab
        PROVE  /\ tab'[u].pc # "idle" => tab'[u].row \in Held
               /\ R!Writing(u)' => tab'[u].row \in Committed
    BY <1>2, <1>3, <1>4, <1>5 DEF RecentTypes, R!Writing, R!At
  <2> QED BY <1>1, <1>2, <2>1, <2>2, <2>3 DEF RecentTypes
<1>7. \A u \in Tab : tab'[u].pc \in {"written", "evicted"} =>
         tab'[u].pc = tab[u].pc /\ tab'[u].row = tab[u].row /\ tab'[u].evicted = tab[u].evicted
  BY <1>3, <1>4, <1>5
<1>8. WritersApart'
  BY <1>1, <1>7, FewerWriters DEF RecentInv, R!Writing, R!At
<1>9. NeverLong'
  BY <1>1, <1>7, FewerEvicting DEF RecentInv
<1>10. AloneIsAlone'
  <2> SUFFICES ASSUME NEW u \in Tab, tab'[u].alone, tab'[u].pc # "idle"
               PROVE  /\ \A v \in Tab : v # u => tab'[v].pc = "idle"
                      /\ \A r \in rows : r.at <= tab'[u].row.at
                      /\ \A s \in asked : s.at <= tab'[u].row.at
                      /\ tab'[u].pc # "evicted"
    BY <1>1 DEF AloneIsAlone
  <2>1. u = t
    BY <1>4
  <2>2. first
    BY <1>3, <1>5, <2>1
  <2>3. \A v \in Tab : v # u => tab'[v].pc = "idle"
    BY <1>0, <1>4, <2>1, <2>2 DEF R!At
  <2>4. tab'[u].row.at = clock
    BY <1>3, <1>5, <2>1
  <2>5. \A r \in rows : r.at \in 0..clock
    BY <1>2 DEF RecentTypes, Committed
  <2>6. \A s \in asked : s.at \in 0..clock
    BY <1>2 DEF RecentTypes
  <2> QED BY <1>2, <1>3, <1>5, <2>1, <2>3, <2>4, <2>5, <2>6
<1> QED BY <1>1, <1>6, <1>8, <1>9, <1>10, RowsStay DEF RecentInv

\* A transaction is rolled back.
LEMMA AbortKeeps ==
  ASSUME RecentInv, NEW t \in Tab, R!Abort(t)
  PROVE  RecentInv'
<1>1. /\ UNCHANGED <<clock, rows, asked, alone>> /\ tab' = [tab EXCEPT ![t] = R!Nothing]
  BY DEF R!Abort
<1>2. RecentTypes /\ tab \in [Tab -> Transaction]
  BY DEF RecentInv, RecentTypes
<1>3. R!Nothing \in Transaction /\ R!Nothing.pc = "idle"
  BY DEF R!Nothing, Transaction
<1>4. /\ tab'[t].pc = "idle" /\ \A u \in Tab : u # t => tab'[u] = tab[u]
      /\ tab' \in [Tab -> Transaction]
  BY <1>1, <1>2, <1>3
<1>5. RecentTypes'
  <2>1. Transaction' = Transaction /\ Held' = Held /\ Committed' = Committed
    BY <1>1 DEF Transaction, Held, Committed
  <2>2. ASSUME NEW u \in Tab
        PROVE  /\ tab'[u].pc # "idle" => tab'[u].row \in Held
               /\ R!Writing(u)' => tab'[u].row \in Committed
    BY <1>2, <1>4 DEF RecentTypes, R!Writing, R!At
  <2> QED BY <1>1, <1>2, <1>4, <2>1, <2>2 DEF RecentTypes
<1>6. WritersApart' /\ NeverLong'
  BY <1>1, <1>4, FewerWriters, FewerEvicting DEF RecentInv, R!Writing, R!At
<1>7. AloneIsAlone'
  <2> SUFFICES ASSUME NEW u \in Tab, tab'[u].alone, tab'[u].pc # "idle"
               PROVE  /\ \A v \in Tab : v # u => tab'[v].pc = "idle"
                      /\ \A r \in rows' : r.at <= tab'[u].row.at
                      /\ \A s \in asked' : s.at <= tab'[u].row.at
                      /\ tab'[u].pc = "evicted" =>
                           tab'[u].evicted = {r.id : r \in R!Seen(u)' \ R!Newest(R!Seen(u), RECENT_SEARCH_LIMIT)'}
    BY DEF AloneIsAlone
  <2>1. u # t /\ tab'[u] = tab[u]
    BY <1>4
  <2>2. R!Seen(u)' = R!Seen(u)
    BY <1>1, <2>1 DEF R!Seen
  <2>3. R!Newest(R!Seen(u), RECENT_SEARCH_LIMIT)' = R!Newest(R!Seen(u), RECENT_SEARCH_LIMIT)
    BY <2>2
  <2> QED BY <1>1, <1>4, <2>1, <2>2, <2>3 DEF RecentInv, AloneIsAlone
<1> QED BY <1>1, <1>5, <1>6, <1>7, RowsStay DEF RecentInv

\* The topic's row is bumped, or there is a new one with an id of its own.
LEMMA UpsertKeeps ==
  ASSUME RecentInv, NEW t \in Tab, R!Upsert(t)
  PROVE  RecentInv'
<1>1. /\ tab[t].pc = "begun" /\ UNCHANGED <<clock, rows, asked, alone>>
      /\ \A u \in Tab : R!Writing(u) => tab[u].row.topic # tab[t].row.topic
  BY DEF R!Upsert, R!At
<1>2. PICK i \in R!RowIds(tab[t].row.topic) : tab' = [tab EXCEPT ![t].pc = "written", ![t].row.id = i]
  BY DEF R!Upsert
<1>3. RecentTypes /\ tab \in [Tab -> Transaction] /\ tab[t] \in Transaction /\ tab[t].row \in Held
  BY <1>1 DEF RecentInv, RecentTypes
<1> DEFINE w == [tab[t].row EXCEPT !.id = i]
           q == [tab[t] EXCEPT !.pc = "written", !.row = w]
<1>4. /\ i \in Id
      /\ \A r \in rows : r.topic = tab[t].row.topic <=> r.id = i
      /\ \A u \in Tab : R!Writing(u) => tab[u].row.id # i
  <2>1. \A r \in rows : r \in Committed
    BY <1>3 DEF RecentTypes
  <2> DEFINE topic == tab[t].row.topic
             own == {r \in rows : r.topic = topic}
  <2>2. CASE own = {}
    <3>1. i \in Id \ R!Used
      BY <1>2, <2>2 DEF R!RowIds
    <3>2. \A r \in rows : r.id # i
      BY <3>1 DEF R!Used
    <3>3. \A u \in Tab : R!Writing(u) => tab[u].row.id # i
      BY <3>1 DEF R!Used
    <3> QED BY <2>2, <3>1, <3>2, <3>3
  <2>3. CASE own # {}
    <3>1. i \in {r.id : r \in own}
      BY <1>2, <2>3 DEF R!RowIds
    <3>2. PICK o \in own : o.id = i
      BY <3>1
    <3>3. o \in rows /\ o.topic = topic
      BY <3>2
    <3>4. \A r \in rows : r.topic = topic <=> r.id = i
      BY <3>2, <3>3 DEF RecentInv, R!RowsAreDistinct
    <3>5. \A u \in Tab : R!Writing(u) => tab[u].row.id # i
      BY <1>1, <3>2, <3>3 DEF RecentInv, WritersApart
    <3> QED BY <2>1, <3>2, <3>3, <3>4, <3>5 DEF Committed
  <2> QED BY <2>2, <2>3
<1>5. /\ w \in Committed /\ w \in Held /\ w.id = i /\ w.topic = tab[t].row.topic
      /\ w.at = tab[t].row.at
  <2>1. w \in [topic: Topic, at: 0..clock, id: Id]
    BY <1>3, <1>4 DEF Held
  <2> QED BY <1>3, <2>1 DEF Held, Committed
<1>6. tab' = [tab EXCEPT ![t] = q] /\ tab'[t] = q
  <2>1. tab' = [tab EXCEPT ![t] = q]
    BY <1>2, <1>3 DEF Transaction
  <2> HIDE DEF q
  <2> QED BY <1>3, <2>1
<1> HIDE DEF w
<1>7. q \in Transaction /\ q.pc = "written" /\ q.row = w /\ q.alone = tab[t].alone
  BY <1>3, <1>5 DEF Transaction
<1> HIDE DEF q
<1>8. /\ \A u \in Tab : u # t => tab'[u] = tab[u]
      /\ tab' \in [Tab -> Transaction]
  BY <1>3, <1>6, <1>7
<1>9. RecentTypes'
  <2>1. Transaction' = Transaction /\ Held' = Held /\ Committed' = Committed
    BY <1>1 DEF Transaction, Held, Committed
  <2>2. ASSUME NEW u \in Tab
        PROVE  /\ tab'[u].pc # "idle" => tab'[u].row \in Held
               /\ R!Writing(u)' => tab'[u].row \in Committed
    BY <1>3, <1>5, <1>6, <1>7, <1>8 DEF RecentTypes, R!Writing, R!At
  <2> QED BY <1>1, <1>3, <1>8, <2>1, <2>2 DEF RecentTypes
<1>10. WritersApart'
  <2>1. \A u \in Tab : R!Writing(u)' => u = t \/ (R!Writing(u) /\ tab'[u] = tab[u])
    BY <1>8 DEF R!Writing, R!At
  <2>2. ASSUME NEW u \in Tab, NEW v \in Tab, R!Writing(u)', R!Writing(v)', u # v
        PROVE  tab'[u].row.topic # tab'[v].row.topic /\ tab'[u].row.id # tab'[v].row.id
    BY <1>1, <1>4, <1>5, <1>6, <1>7, <2>1, <2>2 DEF RecentInv, WritersApart
  <2>3. ASSUME NEW u \in Tab, NEW r \in rows, R!Writing(u)'
        PROVE  r.topic = tab'[u].row.topic <=> r.id = tab'[u].row.id
    BY <1>4, <1>5, <1>6, <1>7, <2>1, <2>3 DEF RecentInv, WritersApart
  <2> QED BY <1>1, <2>2, <2>3 DEF WritersApart
<1>11. NeverLong'
  BY <1>1, <1>6, <1>7, <1>8, FewerEvicting DEF RecentInv
<1>12. AloneIsAlone'
  <2> SUFFICES ASSUME NEW u \in Tab, tab'[u].alone, tab'[u].pc # "idle"
               PROVE  /\ \A v \in Tab : v # u => tab'[v].pc = "idle"
                      /\ \A r \in rows : r.at <= tab'[u].row.at
                      /\ \A s \in asked : s.at <= tab'[u].row.at
                      /\ tab'[u].pc # "evicted"
    BY <1>1 DEF AloneIsAlone
  <2>1. u = t
    BY <1>1, <1>8 DEF RecentInv, AloneIsAlone
  <2> QED BY <1>1, <1>5, <1>6, <1>7, <1>8, <2>1 DEF RecentInv, AloneIsAlone
<1> QED BY <1>1, <1>9, <1>10, <1>11, <1>12, RowsStay DEF RecentInv

\* What a transaction that writes sees.
LEMMA SeenHolds ==
  ASSUME RecentInv, NEW t \in Tab, R!Writing(t)
  PROVE  /\ R!Seen(t) \subseteq Committed /\ Ranked(R!Seen(t))
         /\ tab[t].row \in R!Seen(t)
         /\ \A r \in R!Seen(t), q \in R!Seen(t) : r.topic = q.topic => r = q
<1>1. /\ rows \subseteq Committed /\ IsFiniteSet(rows) /\ tab[t].row \in Committed
      /\ clock \in 0..MaxTime /\ MaxTime \in Nat /\ Id \subseteq Nat
  BY PartsAssumption DEF RecentInv, RecentTypes, R!RecentSearchesConstants
<1> DEFINE others == {r \in rows : r.topic # tab[t].row.topic}
<1>2. R!Seen(t) = others \cup {tab[t].row}
  BY DEF R!Seen
<1>3. IsFiniteSet(R!Seen(t))
  <2>1. IsFiniteSet(others)
    BY <1>1, FS_Subset
  <2> HIDE DEF others
  <2> QED BY <1>2, <2>1, FS_AddElement
<1>4. R!Seen(t) \subseteq Committed
  BY <1>1, <1>2
<1>5. \A r \in Committed : r.at \in Nat /\ r.id \in Nat
  <2>1. \A r \in Committed : r.at \in 0..clock /\ r.id \in Id
    BY DEF Committed
  <2>2. 0..clock \subseteq Nat
    OBVIOUS
  <2> QED BY <1>1, <2>1, <2>2
<1>6. \A r \in R!Seen(t), q \in R!Seen(t) : r.topic = q.topic \/ r.id = q.id => r = q
  BY <1>2 DEF RecentInv, R!RowsAreDistinct, WritersApart
<1> QED BY <1>2, <1>3, <1>4, <1>5, <1>6 DEF Ranked

\* The delete begins: what it keeps is settled now, whatever the others do.
LEMMA EvictKeeps ==
  ASSUME RecentInv, NEW t \in Tab, R!Evict(t)
  PROVE  RecentInv'
<1> DEFINE N == R!Newest(R!Seen(t), RECENT_SEARCH_LIMIT)
           ids == {r.id : r \in R!Seen(t) \ N}
           q == [tab[t] EXCEPT !.pc = "evicted", !.evicted = ids]
<1>1. tab[t].pc = "written" /\ UNCHANGED <<clock, rows, asked, alone>> /\ R!Writing(t)
  BY DEF R!Evict, R!At, R!Writing
<1>2. /\ RecentTypes /\ tab \in [Tab -> Transaction] /\ tab[t] \in Transaction
      /\ RECENT_SEARCH_LIMIT \in Nat
  BY PartsAssumption DEF RecentInv, RecentTypes, R!RecentSearchesConstants
<1>3. /\ R!Seen(t) \subseteq Committed /\ Ranked(R!Seen(t)) /\ tab[t].row \in R!Seen(t)
  BY <1>1, SeenHolds
<1>4. N \subseteq R!Seen(t) /\ IsFiniteSet(N) /\ Cardinality(N) <= RECENT_SEARCH_LIMIT
  BY <1>2, <1>3, NewestHolds
<1>5. tab' = [tab EXCEPT ![t] = q]
  BY <1>2 DEF R!Evict, Transaction
<1> HIDE DEF N
<1>6. ids \in SUBSET Id
  BY <1>3 DEF Committed
<1>7. /\ q \in Transaction /\ q.pc = "evicted" /\ q.evicted = ids /\ q.row = tab[t].row
      /\ q.alone = tab[t].alone
  <2> HIDE DEF ids
  <2> QED BY <1>2, <1>6 DEF Transaction
<1> HIDE DEF q
<1>8. /\ tab'[t] = q /\ \A u \in Tab : u # t => tab'[u] = tab[u]
      /\ tab' \in [Tab -> Transaction]
  BY <1>2, <1>5, <1>7
<1>9. RecentTypes'
  <2>1. Transaction' = Transaction /\ Held' = Held /\ Committed' = Committed
    BY <1>1 DEF Transaction, Held, Committed
  <2>2. ASSUME NEW u \in Tab
        PROVE  /\ tab'[u].pc # "idle" => tab'[u].row \in Held
               /\ R!Writing(u)' => tab'[u].row \in Committed
    BY <1>1, <1>2, <1>7, <1>8 DEF RecentTypes, R!Writing, R!At
  <2> QED BY <1>1, <1>2, <1>8, <2>1, <2>2 DEF RecentTypes
<1>10. WritersApart'
  <2>1. \A u \in Tab : R!Writing(u)' => R!Writing(u) /\ tab'[u].row = tab[u].row
    BY <1>1, <1>7, <1>8 DEF R!Writing, R!At
  <2> QED BY <1>1, <2>1, FewerWriters DEF RecentInv
<1>11. AloneIsAlone'
  <2>1. R!Seen(t)' = R!Seen(t)
    BY <1>1, <1>7, <1>8 DEF R!Seen
  <2>2. R!Newest(R!Seen(t), RECENT_SEARCH_LIMIT)' = N
    BY <2>1 DEF N
  <2> SUFFICES ASSUME NEW u \in Tab, tab'[u].alone, tab'[u].pc # "idle"
               PROVE  /\ \A v \in Tab : v # u => tab'[v].pc = "idle"
                      /\ \A r \in rows : r.at <= tab'[u].row.at
                      /\ \A s \in asked : s.at <= tab'[u].row.at
                      /\ u = t
    BY <1>1, <1>7, <1>8, <2>1, <2>2 DEF AloneIsAlone
  <2>3. u = t
    BY <1>1, <1>8 DEF RecentInv, AloneIsAlone
  <2> QED BY <1>1, <1>7, <1>8, <2>3 DEF RecentInv, AloneIsAlone
<1>12. NeverLong'
  <2> SUFFICES ASSUME NEW Q \in SUBSET Evicting'
               PROVE  Cardinality(After(Q)') < RECENT_SEARCH_LIMIT + Cardinality(Tab)
    BY DEF NeverLong
  <2>1. CASE t \notin Q
    <3>1. Q \in SUBSET Evicting /\ \A p \in Q : tab'[p] = tab[p]
      BY <1>8, <2>1 DEF Evicting
    <3>2. After(Q)' = After(Q)
      BY <1>1, <3>1 DEF After
    <3> QED BY <3>1, <3>2 DEF RecentInv, NeverLong
  <2>2. CASE t \in Q
    <3> DEFINE P == Q \ {t}
               Put == {tab[p].row : p \in P}
    <3>1. Q \subseteq Tab /\ IsFiniteSet(Tab)
      BY PartsAssumption, SameSizes DEF Evicting, R!RecentSearchesConstants
    <3>2. After(Q)' \subseteq N \cup Put
      <4> SUFFICES ASSUME NEW r \in After(Q)' PROVE r \in N \/ r \in Put
        OBVIOUS
      <4>1. CASE r \in rows' /\ \A p \in Q : r.topic # tab'[p].row.topic /\ r.id \notin tab'[p].evicted
        <5>1. r \in R!Seen(t)
          BY <1>1, <1>7, <1>8, <2>2, <4>1 DEF R!Seen
        <5>2. r.id \notin ids
          BY <1>7, <1>8, <2>2, <4>1
        <5> QED BY <5>1, <5>2
      <4>2. CASE r \in {tab'[p].row : p \in {p \in Q : tab'[p].row.id \notin tab'[p].evicted}}
        <5>1. PICK p \in Q : r = tab'[p].row /\ tab'[p].row.id \notin tab'[p].evicted
          BY <4>2
        <5>2. CASE p = t
          BY <1>3, <1>7, <1>8, <5>1, <5>2
        <5>3. CASE p # t
          BY <1>8, <3>1, <5>1, <5>3
        <5> QED BY <5>2, <5>3
      <4> QED BY <4>1, <4>2 DEF After
    <3>3. /\ IsFiniteSet(P) /\ Cardinality(P) \in Nat /\ Cardinality(Tab) \in Nat
          /\ Cardinality(P) <= Cardinality(Tab) - 1
      <4>1. P \subseteq Tab \ {t} /\ IsFiniteSet(Tab \ {t}) /\ Cardinality(Tab \ {t}) = Cardinality(Tab) - 1
        BY <3>1, FS_RemoveElement
      <4> HIDE DEF P
      <4> QED BY <3>1, <4>1, FS_Subset, FS_CardinalityType
    <3>4. IsFiniteSet(Put) /\ Cardinality(Put) \in Nat /\ Cardinality(Put) <= Cardinality(P)
      <4> DEFINE f == [p \in P |-> tab[p].row]
      <4>1. Put = {f[p] : p \in P} /\ DOMAIN f = P
        OBVIOUS
      <4> HIDE DEF P, f, Put
      <4> QED BY <3>3, <4>1, ImageHolds
    <3> HIDE DEF Put, P
    <3>5. /\ IsFiniteSet(N \cup Put) /\ Cardinality(N \cup Put) \in Nat
          /\ Cardinality(N \cup Put) <= Cardinality(N) + Cardinality(Put)
      <4>1. /\ IsFiniteSet(N \cup Put)
            /\ Cardinality(N \cup Put) = Cardinality(N) + Cardinality(Put) - Cardinality(N \cap Put)
        BY <1>4, <3>4, FS_Union
      <4>2. Cardinality(N \cap Put) \in Nat
        BY <1>4, FS_Intersection, FS_CardinalityType
      <4>3. Cardinality(N \cup Put) \in Nat /\ Cardinality(N) \in Nat
        BY <1>4, <4>1, FS_CardinalityType
      <4> QED BY <3>4, <4>1, <4>2, <4>3
    <3>6. Cardinality(After(Q)') <= Cardinality(N \cup Put) /\ Cardinality(After(Q)') \in Nat
      <4>1. \A S, T : IsFiniteSet(T) /\ S \subseteq T => Cardinality(S) <= Cardinality(T) /\ Cardinality(S) \in Nat
        BY FS_Subset, FS_CardinalityType
      <4> QED BY <3>2, <3>5, <4>1
    <3>7. Cardinality(N) \in Nat
      BY <1>4, FS_CardinalityType
    <3> QED BY <1>2, <1>4, <3>3, <3>4, <3>5, <3>6, <3>7
  <2> QED BY <2>1, <2>2
<1> QED BY <1>1, <1>9, <1>10, <1>11, <1>12, RowsStay DEF RecentInv

\* The search that a row stands for.
Search(r) == [topic |-> r.topic, at |-> r.at]

\* Searches that have a row each, or are kept out by newer ones, are counted by the rows.
LEMMA CountedByRows ==
  ASSUME RecentInv, alone
  PROVE  Cardinality(rows) = IF Cardinality(asked) < RECENT_SEARCH_LIMIT
                             THEN Cardinality(asked) ELSE RECENT_SEARCH_LIMIT
<1> DEFINE f == [r \in rows |-> Search(r)]
           got == {f[r] : r \in rows}
<1>1. /\ IsFiniteSet(rows) /\ IsFiniteSet(asked) /\ rows \subseteq Committed
      /\ asked \subseteq [topic: Topic, at: 0..clock]
      /\ RECENT_SEARCH_LIMIT \in Nat /\ Cardinality(rows) <= RECENT_SEARCH_LIMIT
  BY PartsAssumption DEF RecentInv, RecentTypes, RowsAreAsked, R!RecentSearchesConstants
<1>2. got \subseteq asked
  BY DEF RecentInv, RowsAreAsked, Search
<1>3. \A r \in rows, q \in rows : f[r] = f[q] => r = q
  BY DEF RecentInv, R!RowsAreDistinct, Search
<1>4. DOMAIN f = rows
  OBVIOUS
<1>5. Cardinality(got) = Cardinality(rows) /\ IsFiniteSet(got)
  <2> HIDE DEF f
  <2> QED BY <1>1, <1>3, <1>4, ImageHolds
<1>6. Cardinality(rows) \in Nat /\ Cardinality(asked) \in Nat
  BY <1>1, FS_CardinalityType
<1>7. CASE \A s \in asked : \E q \in rows : q.topic = s.topic
  <2>1. asked \subseteq got
    <3> SUFFICES ASSUME NEW s \in asked PROVE s \in got
      OBVIOUS
    <3>1. PICK q \in rows : q.topic = s.topic
      BY <1>7
    <3>2. f[q] = Search(q) /\ f[q] \in asked /\ f[q].topic = s.topic
      BY <1>2, <3>1 DEF Search
    <3>3. f[q] = s
      BY <3>2 DEF RecentInv, RowsAreAsked
    <3> QED BY <3>3
  <2>2. asked = got
    BY <1>2, <2>1
  <2> HIDE DEF got
  <2> QED BY <1>1, <1>5, <1>6, <2>2
<1>8. CASE ~\A s \in asked : \E q \in rows : q.topic = s.topic
  <2>1. PICK s \in asked : ~\E q \in rows : q.topic = s.topic
    BY <1>8
  <2>2. Cardinality(rows) >= RECENT_SEARCH_LIMIT
    BY <2>1 DEF RecentInv, RowsAreAsked
  <2>3. Cardinality(got) <= Cardinality(asked)
    <3> HIDE DEF got
    <3> QED BY <1>1, <1>2, FS_Subset
  <2> HIDE DEF got
  <2> QED BY <1>1, <1>5, <1>6, <2>2, <2>3
<1> QED BY <1>7, <1>8

\* A search that met no other leaves the newest of what it saw.
LEMMA AloneLeaves ==
  ASSUME RecentInv, NEW t \in Tab, tab[t].pc = "evicted", tab[t].alone
  PROVE  {r \in R!Seen(t) : r.id \notin tab[t].evicted} = R!Newest(R!Seen(t), RECENT_SEARCH_LIMIT)
<1> DEFINE S == R!Seen(t)
           N == R!Newest(S, RECENT_SEARCH_LIMIT)
<1>1. tab[t].evicted = {r.id : r \in S \ N} /\ N \subseteq S
  BY DEF RecentInv, AloneIsAlone, R!Newest
<1>2. \A r \in S, q \in S : r.id = q.id => r = q
  BY SeenHolds DEF Ranked, R!Writing, R!At
<1> HIDE DEF S, N
<1>3. {r \in S : r.id \notin tab[t].evicted} = N
  BY <1>1, <1>2
<1> QED BY <1>3 DEF S, N

\* The rows and searches after a search that met no other.
LEMMA AloneCommits ==
  ASSUME RecentInv, NEW t \in Tab, tab[t].pc = "evicted", tab[t].alone,
         NEW N, N = R!Newest(R!Seen(t), RECENT_SEARCH_LIMIT),
         NEW known, known = {s \in asked : s.topic # tab[t].row.topic} \cup {Search(tab[t].row)}
  PROVE  /\ \A r \in N : Search(r) \in known
         /\ \A s \in known, u \in known : s.topic = u.topic => s = u
         /\ \A s \in known :
               \/ \E q \in N : q.topic = s.topic
               \/ Cardinality(N) >= RECENT_SEARCH_LIMIT /\ \A r \in N : r.at >= s.at
         /\ Cardinality(N) <= RECENT_SEARCH_LIMIT
<1> DEFINE S == R!Seen(t)
           own == tab[t].row
<1>1. /\ R!Writing(t) /\ S \subseteq Committed /\ Ranked(S) /\ own \in S
      /\ S = {r \in rows : r.topic # own.topic} \cup {own}
  BY SeenHolds DEF R!Writing, R!At, R!Seen
<1>2. RECENT_SEARCH_LIMIT \in Nat
  BY PartsAssumption DEF R!RecentSearchesConstants
<1> HIDE DEF S
<1>3. /\ N \subseteq S /\ IsFiniteSet(N) /\ Cardinality(N) <= RECENT_SEARCH_LIMIT
      /\ N # S => Cardinality(N) >= RECENT_SEARCH_LIMIT
      /\ \A r \in N, q \in S \ N : q.at <= r.at
  BY <1>1, <1>2, NewestHolds DEF S
<1>4. \A r \in rows : Search(r) \in asked
  BY DEF RecentInv, RowsAreAsked, Search
<1>5. \A s \in asked, u \in asked : s.topic = u.topic => s = u
  BY DEF RecentInv, RowsAreAsked
<1>6. \A r : Search(r).topic = r.topic /\ Search(r).at = r.at
  BY DEF Search
<1>7. \A r \in N : Search(r) \in known
  BY <1>1, <1>3, <1>4, <1>6
<1>8. \A s \in known, u \in known : s.topic = u.topic => s = u
  BY <1>5, <1>6
<1>9. ASSUME NEW s \in known, ~\E q \in N : q.topic = s.topic
      PROVE  Cardinality(N) >= RECENT_SEARCH_LIMIT /\ \A r \in N : r.at >= s.at
  <2>1. CASE \E q \in S : q.topic = s.topic
    <3>1. PICK q \in S : q.topic = s.topic
      BY <2>1
    <3>2. q \in S \ N
      BY <1>9, <3>1
    <3>3. Search(q) \in known
      BY <1>1, <1>4, <1>6
    <3>4. s = Search(q) /\ s.at = q.at
      BY <1>6, <1>8, <3>1, <3>3
    <3> QED BY <1>3, <3>2, <3>4
  <2>2. CASE ~\E q \in S : q.topic = s.topic
    <3>1. s # Search(own) /\ s \in asked /\ s.topic # own.topic
      BY <1>1, <1>6, <2>2
    <3>2. ~\E q \in rows : q.topic = s.topic
      BY <1>1, <2>2, <3>1
    <3>3. Cardinality(rows) >= RECENT_SEARCH_LIMIT /\ \A r \in rows : r.at >= s.at
      BY <3>1, <3>2 DEF RecentInv, RowsAreAsked
    <3>4. s.at <= own.at
      BY <3>1 DEF RecentInv, AloneIsAlone
    <3>5. \A r \in N : r.at >= s.at
      <4> SUFFICES ASSUME NEW r \in N PROVE r.at >= s.at
        OBVIOUS
      <4>1. CASE r = own
        <5>1. own.at \in 0..clock /\ s.at \in 0..clock /\ clock \in 0..MaxTime
          BY <1>1, <3>1 DEF RecentInv, RecentTypes, Committed
        <5> QED BY <3>4, <4>1, <5>1
      <4>2. CASE r # own
        BY <1>1, <1>3, <3>3, <4>2
      <4> QED BY <4>1, <4>2
    <3>6. Cardinality(N) >= RECENT_SEARCH_LIMIT
      <4>1. CASE N # S
        BY <1>3, <4>1
      <4>2. CASE N = S
        <5>1. Cardinality(S) >= Cardinality(rows)
          <6> DEFINE g == [r \in rows |-> IF r.topic = own.topic THEN own ELSE r]
          <6>1. IsFiniteSet(rows) /\ IsFiniteSet(S)
            BY <1>1 DEF Ranked, RecentInv, RecentTypes
          <6>2. g \in Injection(rows, S)
            <7>1. g \in [rows -> S]
              BY <1>1
            <7>2. ASSUME NEW r \in rows, NEW q \in rows, g[r] = g[q] PROVE r = q
              <8>1. r.topic = q.topic
                BY <7>2
              <8> QED BY <8>1 DEF RecentInv, R!RowsAreDistinct
            <7> HIDE DEF g
            <7> QED BY <7>1, <7>2 DEF Injection, IsInjective
          <6> HIDE DEF g
          <6>3. Cardinality(rows) <= Cardinality(S)
            BY <6>1, <6>2, FS_Injection
          <6> QED BY <6>1, <6>3, FS_CardinalityType
        <5>2. Cardinality(S) \in Nat /\ Cardinality(rows) \in Nat
          BY <1>1, FS_CardinalityType DEF Ranked, RecentInv, RecentTypes
        <5> QED BY <1>2, <3>3, <4>2, <5>1, <5>2
      <4> QED BY <4>1, <4>2
    <3> QED BY <3>5, <3>6
  <2> QED BY <2>1, <2>2
<1> QED BY <1>3, <1>7, <1>8, <1>9

\* The commit, the one step that changes the rows.
LEMMA CommitKeeps ==
  ASSUME RecentInv, NEW t \in Tab, R!Commit(t)
  PROVE  RecentInv'
<1> DEFINE own == tab[t].row
           N == R!Newest(R!Seen(t), RECENT_SEARCH_LIMIT)
           known == {s \in asked : s.topic # own.topic} \cup {Search(own)}
           left == {Search(r) : r \in rows'}
<1>1. /\ tab[t].pc = "evicted" /\ UNCHANGED clock
      /\ \A u \in Tab \ {t} : R!Writing(u) => tab[u].row.id \notin tab[t].evicted
      /\ rows' = {r \in R!Seen(t) : r.id \notin tab[t].evicted}
      /\ asked' = IF tab[t].alone THEN known ELSE left
      /\ alone' = tab[t].alone
      /\ tab' = [tab EXCEPT ![t] = R!Nothing]
  BY DEF R!Commit, R!At, Search
<1>2. /\ RecentTypes /\ tab \in [Tab -> Transaction] /\ R!Writing(t)
  BY <1>1 DEF RecentInv, RecentTypes, R!Writing, R!At
<1>3. /\ R!Seen(t) \subseteq Committed /\ Ranked(R!Seen(t)) /\ own \in R!Seen(t)
      /\ \A r \in R!Seen(t), q \in R!Seen(t) : r.topic = q.topic => r = q
      /\ R!Seen(t) = {r \in rows : r.topic # own.topic} \cup {own}
  BY <1>2, SeenHolds DEF R!Seen
<1>4. rows' \subseteq R!Seen(t) /\ IsFiniteSet(rows') /\ rows' \subseteq Committed
  <2>1. rows' \subseteq R!Seen(t)
    BY <1>1
  <2> QED BY <1>3, <2>1, FS_Subset DEF Ranked
<1>5. R!Nothing \in Transaction /\ R!Nothing.pc = "idle"
  BY DEF R!Nothing, Transaction
<1>6. /\ tab'[t].pc = "idle" /\ \A u \in Tab : u # t => tab'[u] = tab[u]
      /\ tab' \in [Tab -> Transaction]
  BY <1>1, <1>2, <1>5
<1>7. asked' \subseteq [topic: Topic, at: 0..clock] /\ IsFiniteSet(asked')
  <2>1. \A r \in Committed : Search(r) \in [topic: Topic, at: 0..clock]
    BY DEF Committed, Search
  <2>2. known \subseteq [topic: Topic, at: 0..clock] /\ IsFiniteSet(known)
    <3>1. asked \subseteq [topic: Topic, at: 0..clock] /\ IsFiniteSet(asked) /\ own \in Committed
      BY <1>2, <1>3 DEF RecentTypes
    <3> DEFINE rest == {s \in asked : s.topic # own.topic}
    <3>2. rest \subseteq asked /\ IsFiniteSet(rest)
      BY <3>1, FS_Subset
    <3>3. IsFiniteSet(rest \cup {Search(own)})
      <4> HIDE DEF rest
      <4> QED BY <3>2, FS_AddElement
    <3> QED BY <2>1, <3>1, <3>3
  <2>3. left \subseteq [topic: Topic, at: 0..clock] /\ IsFiniteSet(left)
    <3> DEFINE f == [r \in rows' |-> Search(r)]
    <3>1. left = {f[r] : r \in rows'} /\ DOMAIN f = rows'
      OBVIOUS
    <3>2. IsFiniteSet(left)
      <4> HIDE DEF f, left
      <4> QED BY <1>4, <3>1, ImageHolds
    <3> QED BY <1>4, <2>1, <3>2
  <2> HIDE DEF known, left
  <2> QED BY <1>1, <2>2, <2>3
<1> HIDE DEF known, left
<1>8. RecentTypes'
  <2>1. Transaction' = Transaction /\ Held' = Held /\ Committed' = Committed
    BY <1>1 DEF Transaction, Held, Committed
  <2>2. ASSUME NEW u \in Tab
        PROVE  /\ tab'[u].pc # "idle" => tab'[u].row \in Held
               /\ R!Writing(u)' => tab'[u].row \in Committed
    BY <1>2, <1>6 DEF RecentTypes, R!Writing, R!At
  <2>3. alone' \in BOOLEAN
    BY <1>1, <1>2 DEF Transaction
  <2> QED BY <1>1, <1>2, <1>4, <1>6, <1>7, <2>1, <2>2, <2>3 DEF RecentTypes
<1>9. R!RowsAreDistinct'
  <2>1. \A r \in rows', q \in rows' : r.topic = q.topic \/ r.id = q.id => r = q
    BY <1>3, <1>4 DEF Ranked
  <2> QED BY <2>1 DEF R!RowsAreDistinct
<1>10. WritersApart'
  <2>1. \A u \in Tab : R!Writing(u)' => u # t /\ R!Writing(u) /\ tab'[u] = tab[u]
    BY <1>6 DEF R!Writing, R!At
  <2>2. ASSUME NEW u \in Tab, NEW r \in rows', R!Writing(u)'
        PROVE  r.topic = tab'[u].row.topic <=> r.id = tab'[u].row.id
    <3>1. u # t /\ R!Writing(u) /\ tab'[u] = tab[u]
      BY <2>1, <2>2
    <3>2. r \in rows \/ r = own
      BY <1>3, <1>4
    <3> QED BY <1>2, <3>1, <3>2 DEF RecentInv, WritersApart
  <2>3. ASSUME NEW u \in Tab, NEW v \in Tab, R!Writing(u)', R!Writing(v)', u # v
        PROVE  tab'[u].row.topic # tab'[v].row.topic /\ tab'[u].row.id # tab'[v].row.id
    BY <2>1, <2>3 DEF RecentInv, WritersApart
  <2> QED BY <2>2, <2>3 DEF WritersApart
<1>11. AloneIsAlone'
  <2> SUFFICES ASSUME NEW u \in Tab, tab'[u].alone, tab'[u].pc # "idle"
               PROVE  FALSE
    BY DEF AloneIsAlone
  <2>1. u # t /\ tab'[u] = tab[u] /\ tab[t].pc # "idle"
    BY <1>1, <1>6
  <2> QED BY <2>1 DEF RecentInv, AloneIsAlone
<1>12. RowsAreAsked'
  <2>1. CASE tab[t].alone
    <3>1. rows' = N /\ asked' = known
      BY <1>1, <2>1, AloneLeaves
    <3> HIDE DEF N
    <3>2. /\ \A r \in N : Search(r) \in known
          /\ \A s \in known, u \in known : s.topic = u.topic => s = u
          /\ \A s \in known :
                \/ \E q \in N : q.topic = s.topic
                \/ Cardinality(N) >= RECENT_SEARCH_LIMIT /\ \A r \in N : r.at >= s.at
          /\ Cardinality(N) <= RECENT_SEARCH_LIMIT
      <4>1. N = R!Newest(R!Seen(t), RECENT_SEARCH_LIMIT)
        BY DEF N
      <4>2. known = {s \in asked : s.topic # tab[t].row.topic} \cup {Search(tab[t].row)}
        BY DEF known
      <4>3. RecentInv /\ t \in Tab /\ tab[t].pc = "evicted" /\ tab[t].alone
        BY <1>1, <2>1
      <4> HIDE DEF own
      <4> QED BY ONLY <4>1, <4>2, <4>3, AloneCommits
    <3> QED BY <3>1, <3>2 DEF RowsAreAsked, Search
  <2>2. CASE ~tab[t].alone
    <3>1. asked' = left /\ alone' = FALSE
      <4>1. alone' \in BOOLEAN /\ ~alone'
        BY <1>1, <1>8, <2>2 DEF RecentTypes
      <4> QED BY <1>1, <2>2, <4>1
    <3>2. \A r : Search(r).topic = r.topic /\ Search(r).at = r.at
      BY DEF Search
    <3>3. \A r \in rows', q \in rows' : r.topic = q.topic => r = q
      BY <1>9 DEF R!RowsAreDistinct
    <3>4. \A s \in asked', u \in asked' : s.topic = u.topic => s = u
      BY <3>1, <3>2, <3>3 DEF left
    <3>5. \A s \in asked' : \E q \in rows' : q.topic = s.topic
      BY <3>1, <3>2 DEF left
    <3>6. \A r \in rows' : [topic |-> r.topic, at |-> r.at] \in asked'
      BY <3>1 DEF left, Search
    <3> QED BY <3>1, <3>4, <3>5, <3>6 DEF RowsAreAsked
  <2> QED BY <2>1, <2>2
<1>13. NeverLong'
  <2> SUFFICES ASSUME NEW Q \in SUBSET Evicting'
               PROVE  Cardinality(After(Q)') < RECENT_SEARCH_LIMIT + Cardinality(Tab)
    BY DEF NeverLong
  <2> DEFINE P == Q \cup {t}
  <2>1. t \notin Q /\ Q \subseteq Tab /\ \A u \in Q : tab'[u] = tab[u] /\ tab[u].pc = "evicted"
    BY <1>6 DEF Evicting
  <2>2. P \in SUBSET Evicting
    BY <1>1, <2>1 DEF Evicting
  <2>3. After(Q)' \subseteq After(P)
    <3> SUFFICES ASSUME NEW r \in After(Q)' PROVE r \in After(P)
      OBVIOUS
    <3>1. CASE r \in rows' /\ \A p \in Q : r.topic # tab'[p].row.topic /\ r.id \notin tab'[p].evicted
      <4>1. r \in R!Seen(t) /\ r.id \notin tab[t].evicted
        BY <1>1, <3>1
      <4>2. \A p \in Q : r.topic # tab[p].row.topic /\ r.id \notin tab[p].evicted
        BY <2>1, <3>1
      <4>3. CASE r = own
        <5>1. r \in {tab[p].row : p \in {p \in P : tab[p].row.id \notin tab[p].evicted}}
          BY <4>1, <4>3
        <5> QED BY <5>1 DEF After
      <4>4. CASE r # own
        <5>1. r \in rows /\ r.topic # own.topic
          BY <1>3, <4>1, <4>4
        <5>2. \A p \in P : r.topic # tab[p].row.topic /\ r.id \notin tab[p].evicted
          BY <4>1, <4>2, <5>1
        <5> HIDE DEF P
        <5> QED BY <5>1, <5>2 DEF After
      <4> QED BY <4>3, <4>4
    <3>2. CASE r \in {tab'[p].row : p \in {p \in Q : tab'[p].row.id \notin tab'[p].evicted}}
      <4>1. r \in {tab[p].row : p \in {p \in P : tab[p].row.id \notin tab[p].evicted}}
        BY <2>1, <3>2
      <4> HIDE DEF P
      <4> QED BY <4>1 DEF After
    <3> QED BY <3>1, <3>2 DEF After
  <2>4. Cardinality(After(P)) < RECENT_SEARCH_LIMIT + Cardinality(Tab)
    <3> HIDE DEF P
    <3> QED BY <2>2 DEF RecentInv, NeverLong
  <2>5. IsFiniteSet(After(P))
    <3> DEFINE stay == {r \in rows : \A q \in P : r.topic # tab[q].row.topic /\ r.id \notin tab[q].evicted}
               puts == {p \in P : tab[p].row.id \notin tab[p].evicted}
               f == [p \in puts |-> tab[p].row]
               put == {f[p] : p \in puts}
    <3>1. IsFiniteSet(stay)
      BY <1>2, FS_Subset DEF RecentTypes
    <3>2. IsFiniteSet(puts)
      <4>1. IsFiniteSet(Tab) /\ puts \subseteq Tab
        BY PartsAssumption, SameSizes, <2>1 DEF R!RecentSearchesConstants
      <4> HIDE DEF puts
      <4> QED BY <4>1, FS_Subset
    <3>3. IsFiniteSet(put)
      <4>1. DOMAIN f = puts
        OBVIOUS
      <4> HIDE DEF f, puts
      <4> QED BY <3>2, <4>1, ImageHolds
    <3>4. After(P) = stay \cup put
      <4>1. put = {tab[p].row : p \in puts}
        OBVIOUS
      <4> HIDE DEF put
      <4> QED BY <4>1 DEF After
    <3> HIDE DEF stay, put
    <3> QED BY <3>1, <3>3, <3>4, FS_Union
  <2> HIDE DEF P
  <2>6. Cardinality(After(Q)') <= Cardinality(After(P)) /\ Cardinality(After(P)) \in Nat
        /\ Cardinality(After(Q)') \in Nat
    <3>1. \A S, T : IsFiniteSet(T) /\ S \subseteq T =>
             Cardinality(S) <= Cardinality(T) /\ Cardinality(S) \in Nat /\ Cardinality(T) \in Nat
      BY FS_Subset, FS_CardinalityType
    <3> QED BY <2>3, <2>5, <3>1
  <2>7. RECENT_SEARCH_LIMIT \in Nat /\ Cardinality(Tab) \in Nat
    BY PartsAssumption, SameSizes, FS_CardinalityType DEF R!RecentSearchesConstants
  <2> QED BY <2>4, <2>6, <2>7
<1> QED BY <1>8, <1>9, <1>10, <1>11, <1>12, <1>13 DEF RecentInv

----------------------------------------------------------------------------
\* The recent searches as a whole.
LEMMA InitRecents ==
  ASSUME R!Init
  PROVE  RecentInv
<1>1. /\ clock = 0 /\ rows = {} /\ asked = {} /\ alone = TRUE
      /\ tab = [t \in Tab |-> R!Nothing]
  BY DEF R!Init
<1>2. /\ RECENT_SEARCH_LIMIT \in Nat \ {0} /\ MaxTime \in Nat /\ IsFiniteSet(Tab)
      /\ Cardinality(Tab) \in Nat
  BY PartsAssumption, SameSizes, FS_CardinalityType DEF R!RecentSearchesConstants
<1>3. R!Nothing \in Transaction /\ R!Nothing.pc = "idle"
  BY DEF R!Nothing, Transaction
<1>4. IsFiniteSet({}) /\ Cardinality({}) = 0
  BY FS_EmptySet
<1>5. RecentTypes
  BY <1>1, <1>2, <1>3, <1>4 DEF RecentTypes, R!Writing, R!At
<1>6. R!RowsAreDistinct /\ WritersApart /\ AloneIsAlone /\ RowsAreAsked
  BY <1>1, <1>2, <1>3, <1>4
     DEF R!RowsAreDistinct, WritersApart, AloneIsAlone, RowsAreAsked, R!Writing, R!At
<1>7. NeverLong
  <2> SUFFICES ASSUME NEW Q \in SUBSET Evicting
               PROVE  Cardinality(After(Q)) < RECENT_SEARCH_LIMIT + Cardinality(Tab)
    BY DEF NeverLong
  <2>1. Q = {}
    BY <1>1, <1>3 DEF Evicting
  <2>2. After(Q) = {}
    BY <1>1, <2>1 DEF After
  <2> QED BY <1>2, <1>4, <2>2
<1> QED BY <1>5, <1>6, <1>7 DEF RecentInv

\* Every step keeps the invariant.
LEMMA StepRecents ==
  ASSUME RecentInv, [R!Next]_R!vars
  PROVE  RecentInv'
<1>1. CASE UNCHANGED R!vars
  <2>1. UNCHANGED <<clock, rows, tab, asked, alone>>
    BY <1>1 DEF R!vars
  <2>2. RecentTypes'
    BY <2>1 DEF RecentInv, RecentTypes, Transaction, Held, Committed, R!Writing, R!At
  <2>3. WritersApart' /\ NeverLong'
    BY <2>1, FewerWriters, FewerEvicting DEF RecentInv, R!Writing, R!At
  <2>4. AloneIsAlone'
    BY <2>1 DEF RecentInv, AloneIsAlone, R!Seen
  <2> QED BY <2>1, <2>2, <2>3, <2>4, RowsStay DEF RecentInv
<1>2. CASE R!Next
  BY <1>2, TickKeeps, BeginKeeps, UpsertKeeps, EvictKeeps, CommitKeeps, AbortKeeps DEF R!Next
<1> QED BY <1>1, <1>2

\* What the invariant says of the list.
LEMMA RecentsHold ==
  ASSUME RecentInv
  PROVE  R!RecentsAreRight /\ R!TypeOK
<1>1. R!AloneListsNewest
  <2>1. ASSUME alone
        PROVE  Cardinality(rows) = IF Cardinality(asked) < RECENT_SEARCH_LIMIT
                                   THEN Cardinality(asked) ELSE RECENT_SEARCH_LIMIT
    BY <2>1, CountedByRows
  <2>2. ASSUME NEW r \in rows, NEW s \in asked, s.at > r.at
        PROVE  \E q \in rows : q.topic = s.topic
    <3>1. r.at \in 0..clock /\ s.at \in 0..clock
      BY DEF RecentInv, RecentTypes, Committed
    <3>2. ~(r.at >= s.at)
      BY <2>2, <3>1
    <3> QED BY <3>2 DEF RecentInv, RowsAreAsked
  <2>3. \A r \in rows : [topic |-> r.topic, at |-> r.at] \in asked
    BY DEF RecentInv, RowsAreAsked
  <2>4. R!Cardinality(rows) = Cardinality(rows) /\ R!Cardinality(asked) = Cardinality(asked)
    BY SameSizes
  <2> QED BY <2>1, <2>2, <2>3, <2>4 DEF R!AloneListsNewest
<1>2. R!NeverMuchTooLong
  <2>1. {} \in SUBSET Evicting /\ After({}) = rows
    BY DEF After
  <2>2. Cardinality(rows) < RECENT_SEARCH_LIMIT + Cardinality(Tab)
    BY <2>1 DEF RecentInv, NeverLong
  <2> QED BY <2>2, SameSizes DEF R!NeverMuchTooLong
<1>3. R!TypeOK
  <2>1. /\ RecentTypes /\ clock \in 0..MaxTime /\ MaxTime \in Nat
    BY PartsAssumption DEF RecentInv, RecentTypes, R!RecentSearchesConstants
  <2>2. 0..clock \subseteq 0..MaxTime
    BY <2>1
  <2>3. Committed \subseteq R!Row /\ Held \subseteq R!Row
    BY <2>2 DEF Committed, Held, R!Row
  <2>4. [topic: Topic, at: 0..clock] \subseteq [topic: Topic, at: 0..MaxTime]
    BY <2>2
  <2>5. \A t \in Tab : tab[t] \in Transaction
    BY <2>1 DEF RecentTypes
  <2>6. \A t \in Tab : /\ tab[t].pc \in {"idle", "begun", "written", "evicted"}
                       /\ tab[t].evicted \subseteq Id /\ tab[t].alone \in BOOLEAN
    BY <2>5 DEF Transaction
  <2>7. \A t \in Tab : tab[t].pc # "idle" => tab[t].row \in R!Row
    BY <2>1, <2>3 DEF RecentTypes
  <2> QED BY <2>1, <2>3, <2>4, <2>6, <2>7 DEF RecentTypes, R!TypeOK, R!At
<1> QED BY <1>1, <1>2, <1>3 DEF RecentInv, R!RecentsAreRight

----------------------------------------------------------------------------
\* The invariant of the parts side by side.
PartsInv == SpendInv /\ AssessInv /\ (part = "recents" => RecentInv)

\* The parts begin in their invariants, those that stand still as well.
LEMMA InitParts == PartsInit => PartsInv
<1> SUFFICES ASSUME PartsInit PROVE PartsInv
  OBVIOUS
<1>0. BridgeSpendConstants /\ A!AssessConstants
  BY PartsAssumption
<1>1. SpendInv
  <2>1. Init
    BY DEF PartsInit
  <2> QED BY <1>0, <2>1, InitInv, InitStake DEF SpendInv
<1>2. AssessInv
  <2>1. A!Init
    BY DEF PartsInit, NoAssess
  <2> QED BY <1>0, <2>1, InitAssess
<1>3. ASSUME part = "recents" PROVE RecentInv
  <2>1. R!Init
    BY <1>3 DEF PartsInit
  <2> QED BY <2>1, InitRecents
<1> QED BY <1>1, <1>2, <1>3 DEF PartsInv

\* Each part takes its own steps, and the others stand still.
LEMMA StepParts == PartsInv /\ [PartsNext]_partsVars => PartsInv' /\ [Bounded]_A!vars
<1> SUFFICES ASSUME PartsInv, [PartsNext]_partsVars PROVE PartsInv' /\ [Bounded]_A!vars
  OBVIOUS
<1>0. BridgeSpendConstants /\ A!AssessConstants
  BY PartsAssumption
<1>1. UNCHANGED part /\ [Next]_vars /\ [A!Next]_A!vars /\ (part = "recents" => [R!Next]_R!vars)
  BY DEF PartsNext, partsVars, assessments, recents, vars, A!vars, R!vars
<1>2. SpendInv'
  <2>1. IInv'
    BY <1>1, StepInv DEF PartsInv, SpendInv
  <2> QED BY <1>1, <2>1, OneActiveKept, StakeKept DEF PartsInv, SpendInv
<1>3. AssessInv' /\ Bounded
  BY <1>0, <1>1, StepAssess DEF PartsInv
<1>4. part = "recents" => RecentInv'
  BY <1>1, StepRecents DEF PartsInv
<1> QED BY <1>1, <1>2, <1>3, <1>4 DEF PartsInv

\* The invariant holds of every state, and every step of a run is bounded.
LEMMA PartsInductive == PartsSpec => []PartsInv /\ [][Bounded]_A!vars
<1>1. PartsInit => PartsInv
  BY InitParts
<1>2. PartsInv /\ [PartsNext]_partsVars => PartsInv' /\ [Bounded]_A!vars
  BY StepParts
<1> QED BY <1>1, <1>2, PTL DEF PartsSpec

\* Every variable of the part that is looked at has its type, whatever runs cost,
\* assessments find and searches meet (pipeline.py, recents.py, SpendLedger).
THEOREM TypesCorrect == PartsSpec => []TypesOK
<1>1. ASSUME PartsInv PROVE TypesOK
  <2>1. TypeOK
    BY <1>1 DEF PartsInv, SpendInv, IInv
  <2>2. A!TypeOK
    BY <1>1, AssessTypes DEF PartsInv
  <2>3. part = "recents" => R!TypeOK
    BY <1>1, RecentsHold DEF PartsInv
  <2> QED BY <2>1, <2>2, <2>3 DEF TypesOK
<1> QED BY <1>1, PartsInductive, PTL

\* However executors and requests interleave, no row shows more than the ceiling and
\* one call, the ledger errs by half a Grain a call and misses one call at most, and
\* the day's sum overshoots the cap by what was under way (llm.py, _daily_spend).
THEOREM SpendBounded == PartsSpec => []SpendIsBounded
<1>1. ASSUME PartsInv PROVE SpendIsBounded
  <2>1. CeilingHolds /\ LedgerIsTrue
    BY <1>1 DEF PartsInv, SpendInv, IInv
  <2>2. CapHolds
    BY <1>1, StakeBounds DEF PartsInv
  <2> QED BY <2>1, <2>2 DEF SpendIsBounded
<1> QED BY <1>1, PartsInductive, PTL

\* Whatever the searches, the judge, the inspections and the probes answer, over any
\* number of replanning rounds and of runs that share the pool: the evidence a verdict
\* prints adds up, a refusal is unanimous, no gate rejected what is cited, and the
\* critic refuses nothing but what a step with a probe assembles when no dataset was
\* left to probe (pipeline.py, verdict.py, critic.py).
THEOREM VerdictsBacked == PartsSpec => []VerdictsAreBacked
<1>1. ASSUME PartsInv PROVE VerdictsAreBacked
  <2>1. A!VerdictsAreBacked
    BY <1>1, PartsAssumption, AssessBacked DEF PartsInv
  <2> QED BY <2>1 DEF VerdictsAreBacked
<1> QED BY <1>1, PartsInductive, PTL

\* Each stage ends a run or brings it nearer its end (the while loop of _assess).
THEOREM RunsBounded == PartsSpec => RunsAreBounded
BY PartsInductive, PTL DEF RunsAreBounded, A!RunsAreBounded, Bounded

\* Searches one after another leave the newest of them, and searches that meet leave a
\* list too long by one row at most for each of the others (recents.py).
THEOREM RecentsRight == PartsSpec => []RecentsAreRight
<1>1. ASSUME PartsInv PROVE RecentsAreRight
  <2>1. part = "recents" => R!RecentsAreRight
    BY <1>1, RecentsHold DEF PartsInv
  <2> QED BY <2>1 DEF RecentsAreRight
<1> QED BY <1>1, PartsInductive, PTL
=============================================================================
