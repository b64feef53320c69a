---------------------------- MODULE BalanceProofs ----------------------------
(***************************************************************************)
(* Theorems about minConnBalance of Balance, for every number of pools and *)
(* every capacity, whatever order the map is visited in and whatever       *)
(* happens to the pools meanwhile.                                         *)
(***************************************************************************)
EXTENDS Balance, FiniteSetTheorems, TLAPS

USE DEF pools, locals, Running

\* The pool that the body of the loop is at.
At == IF bpc \in {"size", "sum"} THEN {cur} ELSE {}

\* A pool that was visited is in indexRand, or the loop is at it, or it is
\* closed: a status never comes back.  None is in two of todo, At and indexRand.
SeenInv ==
  /\ bpc \in {"size", "sum"} => cur \in Pools
  /\ todo \cap At = {} /\ todo \cap indexRand = {} /\ At \cap indexRand = {}
  /\ \A p \in Pools \ todo : status[p] => p \in indexRand \cup At
  /\ bpc \in {"done", "panic"} => todo = {}
  /\ bpc = "panic" => indexRand = {}

\* Each pool adds at most its capacity to the sum.
SumInv == sumSize <= MaxCap * Cardinality(indexRand)

\* index is empty until the size of the first pool has been read; 0 <= pSize
\* whatever that is.
IndexInv ==
  /\ index = NoPool => size = 0 /\ sumSize = 0 /\ indexRand = {} /\ bpc # "sum"
  /\ index # NoPool => index \in indexRand \/ (bpc = "sum" /\ index = cur)
  /\ indexRand # {} => index \in indexRand \/ bpc = "sum"

\* While no pool changes, size is the most connections of a pool seen so far.
QuietInv ==
  quiet /\ bpc \notin {"done", "panic"} =>
    /\ \A p \in indexRand : idle[p] <= size
    /\ bpc = "sum" => idle[cur] <= size
    /\ index # NoPool => idle[index] = size
    /\ sumSize = 0 => \A p \in indexRand : idle[p] = 0

IInv == /\ TypeOK /\ SeenInv /\ SumInv /\ IndexInv /\ QuietInv
        /\ ChoiceIsAPool /\ ChoiceIsIdlest /\ PanicOnlyWithoutPools

(***************************************************************************)
(* Lemmas.                                                                 *)
(***************************************************************************)

\* A bound per pool is a bound for the sum.
LEMMA OneMore ==
  ASSUME NEW n \in Nat, NEW k \in Nat, NEW x \in 0 .. MaxCap, k <= MaxCap * n
  PROVE  k + x <= MaxCap * (n + 1)
<1>1. MaxCap \in Nat
  BY BalanceAssumption
<1>2. MaxCap * (n + 1) = MaxCap * n + MaxCap
  BY <1>1
<1> QED
  BY <1>1, <1>2

LEMMA BoundGrows ==
  ASSUME NEW n \in Nat, NEW m \in Nat, n <= m
  PROVE  MaxCap * n \in Nat /\ MaxCap * n <= MaxCap * m
<1>1. MaxCap \in Nat
  BY BalanceAssumption
<1> QED
  BY <1>1

LEMMA Finite ==
  ASSUME NEW S \in SUBSET Pools
  PROVE  IsFiniteSet(S) /\ Cardinality(S) \in Nat /\ Cardinality(S) <= Cardinality(Pools)
  BY BalanceAssumption, FS_Subset, FS_CardinalityType

\* The sum has its type because it has the bound.
LEMMA SumType ==
  ASSUME NEW S \in SUBSET Pools, NEW k \in Nat, k <= MaxCap * Cardinality(S)
  PROVE  k \in 0 .. MaxCap * Cardinality(Pools)
<1>1. Cardinality(S) \in Nat /\ Cardinality(Pools) \in Nat /\ Cardinality(S) <= Cardinality(Pools)
  BY Finite, BalanceAssumption, FS_CardinalityType
<1>2. MaxCap * Cardinality(S) <= MaxCap * Cardinality(Pools)
  BY <1>1, BoundGrows
<1>3. MaxCap * Cardinality(S) \in Nat /\ MaxCap * Cardinality(Pools) \in Nat
  BY <1>1, BoundGrows
<1> QED
  BY <1>2, <1>3

LEMMA InitInv == Init => IInv
<1> SUFFICES ASSUME Init PROVE IInv
  OBVIOUS
<1>1. Cardinality({}) = 0 /\ 0 \in Nat /\ 0 <= MaxCap * 0
  BY FS_EmptySet, BalanceAssumption
<1>2. SumInv
  BY <1>1 DEF Init, SumInv
<1>3. sumSize \in 0 .. MaxCap * Cardinality(Pools)
  BY <1>1, SumType DEF Init
<1>4. TypeOK
  BY <1>3, BalanceAssumption DEF Init, TypeOK
<1>5. SeenInv /\ IndexInv /\ QuietInv /\ ChoiceIsAPool /\ ChoiceIsIdlest /\ PanicOnlyWithoutPools
  BY DEF Init, SeenInv, At, IndexInv, QuietInv, ChoiceIsAPool, ChoiceIsIdlest,
         PanicOnlyWithoutPools
<1> QED
  BY <1>2, <1>4, <1>5 DEF IInv

(***************************************************************************)
(* The steps of minConnBalance.                                            *)
(***************************************************************************)

LEMMA RangePoolInv == ASSUME IInv, NEW p \in Pools, RangePool(p) PROVE IInv'
<1> USE DEF IInv, RangePool
<1>1. TypeOK'
  BY DEF TypeOK
<1>2. SeenInv'
  BY DEF TypeOK, SeenInv, At
<1>3. SumInv' /\ IndexInv'
  BY DEF SumInv, IndexInv
<1>4. QuietInv'
  BY DEF QuietInv
<1>5. ChoiceIsAPool' /\ ChoiceIsIdlest' /\ PanicOnlyWithoutPools'
  BY DEF ChoiceIsAPool, ChoiceIsIdlest, PanicOnlyWithoutPools
<1> QED
  BY <1>1, <1>2, <1>3, <1>4, <1>5

LEMMA PoolSizeInv == ASSUME IInv, PoolSize PROVE IInv'
<1> USE DEF IInv, PoolSize
<1>0. cur \in Pools /\ idle[cur] \in 0 .. MaxCap /\ cur # NoPool
  BY BalanceAssumption DEF TypeOK, SeenInv
<1>1. TypeOK'
  BY <1>0 DEF TypeOK
<1>2. SeenInv'
  BY DEF SeenInv, At
<1>3. SumInv'
  BY DEF SumInv
<1>4. IndexInv'
  BY <1>0 DEF IndexInv, SeenInv, At
<1>5. QuietInv'
  <2>1. size \in Nat /\ \A p \in Pools : idle[p] \in Nat
    BY BalanceAssumption DEF TypeOK
  <2>2. indexRand \subseteq Pools /\ index \in Pools \cup {NoPool}
    BY DEF TypeOK
  <2>3. CASE size <= idle[cur]
    BY <1>0, <2>1, <2>2, <2>3 DEF QuietInv
  <2>4. CASE ~(size <= idle[cur])
    BY <1>0, <2>1, <2>2, <2>4 DEF QuietInv
  <2> QED
    BY <2>3, <2>4
<1>6. ChoiceIsAPool' /\ ChoiceIsIdlest' /\ PanicOnlyWithoutPools'
  BY DEF ChoiceIsAPool, ChoiceIsIdlest, PanicOnlyWithoutPools
<1> QED
  BY <1>1, <1>2, <1>3, <1>4, <1>5, <1>6

LEMMA PoolSumInv == ASSUME IInv, PoolSum PROVE IInv'
<1> USE DEF IInv, PoolSum
<1>0. /\ cur \in Pools /\ idle[cur] \in 0 .. MaxCap /\ cur # NoPool
      /\ cur \notin indexRand /\ indexRand \in SUBSET Pools /\ sumSize \in Nat
  BY BalanceAssumption DEF TypeOK, SeenInv, At
<1>1. SumInv'
  <2>1. /\ IsFiniteSet(indexRand) /\ Cardinality(indexRand) \in Nat
        /\ Cardinality(indexRand \cup {cur}) = Cardinality(indexRand) + 1
    BY <1>0, Finite, FS_AddElement
  <2>2. sumSize + idle[cur] <= MaxCap * (Cardinality(indexRand) + 1)
    BY <1>0, <2>1, OneMore DEF SumInv
  <2> QED
    BY <2>1, <2>2 DEF SumInv
<1>2. TypeOK'
  <2>1. sumSize' \in Nat /\ indexRand' \in SUBSET Pools
    BY <1>0
  <2>2. sumSize' \in 0 .. MaxCap * Cardinality(Pools)
    BY <1>1, <2>1, SumType DEF SumInv
  <2> QED
    BY <2>1, <2>2 DEF TypeOK
<1>3. SeenInv'
  BY <1>0 DEF TypeOK, SeenInv, At
<1>4. IndexInv'
  BY <1>0 DEF IndexInv
<1>5. QuietInv'
  BY <1>0 DEF QuietInv
<1>6. ChoiceIsAPool' /\ ChoiceIsIdlest' /\ PanicOnlyWithoutPools'
  BY DEF ChoiceIsAPool, ChoiceIsIdlest, PanicOnlyWithoutPools
<1> QED
  BY <1>1, <1>2, <1>3, <1>4, <1>5, <1>6

\* The choice itself: here the three properties come about.
LEMMA ChooseInv == ASSUME IInv, Choose PROVE IInv'
<1> USE DEF IInv, Choose
<1>1. TypeOK'
  BY DEF TypeOK
<1>2. SeenInv'
  BY DEF SeenInv, At
<1>3. SumInv' /\ QuietInv'
  BY DEF SumInv, QuietInv
<1>4. IndexInv' /\ ChoiceIsAPool'
  BY BalanceAssumption DEF TypeOK, IndexInv, ChoiceIsAPool
<1>5. PanicOnlyWithoutPools'
  BY DEF SeenInv, At, PanicOnlyWithoutPools
<1>6. ChoiceIsIdlest'
  <2> SUFFICES ASSUME bpc' = "done", quiet, NEW p \in Pools, status[p]
               PROVE  idle[p] <= idle[index']
    BY DEF ChoiceIsIdlest
  <2>1. p \in indexRand
    BY DEF SeenInv, At
  <2>2. \A q \in Pools : idle[q] \in Nat
    BY BalanceAssumption DEF TypeOK
  <2>3. CASE sumSize # 0
    <3>1. index' = index /\ index # NoPool
      BY <2>3 DEF IndexInv
    <3> QED
      BY <2>1, <3>1 DEF QuietInv
  <2>4. CASE sumSize = 0
    <3>1. index' \in indexRand /\ index' \in Pools
      BY <2>4 DEF TypeOK
    <3> QED
      BY <2>1, <2>2, <2>4, <3>1 DEF QuietInv
  <2> QED
    BY <2>3, <2>4
<1> QED
  BY <1>1, <1>2, <1>3, <1>4, <1>5, <1>6

(***************************************************************************)
(* The steps of other requests, which end quiet.                           *)
(***************************************************************************)

\* They leave all variables of minConnBalance alone, and no status comes back.
LEMMA OthersInv ==
  ASSUME IInv, Running, UNCHANGED <<bpc, locals>>, TypeOK', quiet' = FALSE,
         \A p \in Pools : status'[p] => status[p]
  PROVE  IInv'
<1> USE DEF IInv
<1>1. SeenInv'
  BY DEF SeenInv, At
<1>2. SumInv' /\ IndexInv' /\ QuietInv'
  BY DEF SumInv, IndexInv, QuietInv
<1>3. ChoiceIsAPool' /\ ChoiceIsIdlest' /\ PanicOnlyWithoutPools'
  BY DEF ChoiceIsAPool, ChoiceIsIdlest, PanicOnlyWithoutPools
<1> QED
  BY <1>1, <1>2, <1>3

LEMMA TakeInv == ASSUME IInv, NEW p \in Pools, Take(p) PROVE IInv'
<1>1. idle[p] - 1 \in 0 .. MaxCap /\ idle[p] - 1 <= capacity[p]
  BY BalanceAssumption DEF IInv, TypeOK, Take
<1>2. TypeOK'
  BY <1>1 DEF IInv, TypeOK, Take
<1> QED
  BY <1>2, OthersInv DEF Take

LEMMA GiveBackInv == ASSUME IInv, NEW p \in Pools, GiveBack(p) PROVE IInv'
<1>1. idle[p] + 1 \in 0 .. MaxCap /\ idle[p] + 1 <= capacity[p]
  BY BalanceAssumption DEF IInv, TypeOK, GiveBack
<1>2. TypeOK'
  BY <1>1 DEF IInv, TypeOK, GiveBack
<1> QED
  BY <1>2, OthersInv DEF GiveBack

LEMMA PoolCloseInv == ASSUME IInv, NEW p \in Pools, PoolClose(p) PROVE IInv'
<1>1. 0 \in 0 .. MaxCap /\ 0 <= capacity[p]
  BY BalanceAssumption DEF IInv, TypeOK
<1>2. TypeOK'
  BY <1>1 DEF IInv, TypeOK, PoolClose
<1>3. \A q \in Pools : status'[q] => status[q]
  BY DEF IInv, TypeOK, PoolClose
<1> QED
  BY <1>2, <1>3, OthersInv DEF PoolClose

(***************************************************************************)
(* The theorems.                                                           *)
(***************************************************************************)

LEMMA NextInv == IInv /\ [Next]_vars => IInv'
<1> SUFFICES ASSUME IInv, [Next]_vars PROVE IInv'
  OBVIOUS
<1>1. CASE UNCHANGED vars
  BY <1>1
  DEF vars, IInv, TypeOK, SeenInv, At, SumInv, IndexInv, QuietInv, ChoiceIsAPool,
      ChoiceIsIdlest, PanicOnlyWithoutPools
<1> QED
  BY <1>1, RangePoolInv, PoolSizeInv, PoolSumInv, ChooseInv, TakeInv, GiveBackInv, PoolCloseInv
  DEF Next, minConnBalance

\* The inductive invariant.
THEOREM Invariance == Spec => []IInv
  BY InitInv, NextInv, PTL DEF Spec

\* Every variable keeps its type; in particular the sum of the sizes, which are
\* read at different moments, never exceeds what all the pools can hold.
THEOREM TypeCorrect == Spec => []TypeOK
<1>1. IInv => TypeOK
  BY DEF IInv
<1> QED
  BY <1>1, Invariance, PTL

\* minConnBalance never returns the empty name, although the test of the sum and
\* the assignments to index rest on different reads (director.go:94-116).
THEOREM ChoosesAPool == Spec => []ChoiceIsAPool
<1>1. IInv => ChoiceIsAPool
  BY DEF IInv
<1> QED
  BY <1>1, Invariance, PTL

\* Undisturbed, it returns a pool with the most idle connections.
THEOREM ChoosesTheIdlest == Spec => []ChoiceIsIdlest
<1>1. IInv => ChoiceIsIdlest
  BY DEF IInv
<1> QED
  BY <1>1, Invariance, PTL

\* rand.Intn(0) is called only when every pool has been closed (director.go:113).
THEOREM PanicsOnlyWithoutPools == Spec => []PanicOnlyWithoutPools
<1>1. IInv => PanicOnlyWithoutPools
  BY DEF IInv
<1> QED
  BY <1>1, Invariance, PTL
==============================================================================
