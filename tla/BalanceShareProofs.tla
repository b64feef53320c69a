------------------------- MODULE BalanceShareProofs -------------------------
(***************************************************************************)
(* Theorem about randomWeightBalance of Balance, for every number of pools *)
(* and all capacities: the random numbers are shared out among the pools   *)
(* in proportion to their capacities, in whatever order the map is visited.*)
(*                                                                         *)
(* It takes induction, over the length of a list of weights, which here is *)
(* about sets of numbers: a set of natural numbers has a least element.    *)
(***************************************************************************)
EXTENDS BalanceProofs, SequenceTheorems

(***************************************************************************)
(* Induction.                                                              *)
(***************************************************************************)

LEMMA Least ==
  ASSUME NEW T \in SUBSET Nat, T # {}
  PROVE  \E x \in T : \A y \in T : x <= y
<1> DEFINE R == OpToRel(<, Nat)
<1>1. IsWellFoundedOn(R, Nat)
  BY NatLessThanWellFounded
<1>2. ASSUME NEW i \in Nat, NEW j \in Nat, i < j PROVE <<i, j>> \in R
  BY <1>2 DEF OpToRel
<1> HIDE DEF R
<1>3. \E x \in T : \A y \in T : ~(<<y, x>> \in R)
  BY <1>1, WFMin
<1>4. PICK x \in T : \A y \in T : ~(<<y, x>> \in R)
  BY <1>3
<1>5. ASSUME NEW y \in T, ~(x <= y) PROVE FALSE
  <2>1. y \in Nat /\ x \in Nat /\ y < x
    BY <1>5
  <2>2. <<y, x>> \in R
    BY <1>2, <2>1
  <2> QED
    BY <1>4, <2>2
<1> QED
  BY <1>5

LEMMA SetInduction ==
  ASSUME NEW S, 0 \in S, \A n \in Nat : n \in S => n + 1 \in S
  PROVE  Nat \subseteq S
<1> SUFFICES ASSUME ~(Nat \subseteq S) PROVE FALSE
  OBVIOUS
<1> DEFINE T == Nat \ S
<1>1. PICK x \in T : \A y \in T : x <= y
  <2>1. T \in SUBSET Nat /\ T # {}
    OBVIOUS
  <2> HIDE DEF T
  <2> QED
    BY <2>1, Least
<1>2. x - 1 \in Nat /\ x - 1 \in S
  BY <1>1
<1>3. (x - 1) + 1 \in S
  BY <1>2
<1> QED
  BY <1>3

(***************************************************************************)
(* The sums of a list of weights.                                          *)
(***************************************************************************)

\* t holds the sums of the first weights, as many as it is asked for.
AreSums(t, w, n) ==
  t \in [0 .. n -> Nat] /\ t[0] = 0 /\ \A i \in 1 .. n : t[i] = t[i - 1] + w[i]

LEMMA LenIs ==
  ASSUME NEW S, NEW n \in Nat, NEW w \in [1 .. n -> S]
  PROVE  Len(w) = n /\ w \in Seq(S)
<1>1. w \in Seq(S)
  BY SeqDef
<1>2. Len(w) \in Nat /\ DOMAIN w = 1 .. Len(w)
  BY <1>1, LenProperties
<1>3. 1 .. n = 1 .. Len(w)
  BY <1>2
<1> QED
  BY <1>1, <1>2, <1>3

LEMMA SumsExist ==
  ASSUME NEW n \in Nat, NEW w \in [1 .. n -> Nat]
  PROVE  \E t : AreSums(t, w, n)
<1> DEFINE S == {k \in Nat : k <= n => \E t : AreSums(t, w, k)}
<1>1. 0 \in S
  <2>1. AreSums([i \in 0 .. 0 |-> 0], w, 0)
    BY DEF AreSums
  <2> QED
    BY <2>1
<1>2. ASSUME NEW k \in Nat, k \in S PROVE k + 1 \in S
  <2> SUFFICES ASSUME k + 1 <= n PROVE \E t : AreSums(t, w, k + 1)
    OBVIOUS
  <2>1. PICK t : AreSums(t, w, k)
    BY <1>2
  <2> DEFINE u == [i \in 0 .. k + 1 |-> IF i = k + 1 THEN t[k] + w[k + 1] ELSE t[i]]
  <2>2. t[k] \in Nat /\ w[k + 1] \in Nat
    BY <2>1 DEF AreSums
  <2>3. u \in [0 .. k + 1 -> Nat] /\ u[0] = 0
    BY <2>1, <2>2 DEF AreSums
  <2>4. ASSUME NEW i \in 1 .. k + 1 PROVE u[i] = u[i - 1] + w[i]
    <3>1. CASE i = k + 1
      BY <3>1, <2>2
    <3>2. CASE i # k + 1
      BY <3>2, <2>1 DEF AreSums
    <3> QED
      BY <3>1, <3>2
  <2>5. AreSums(u, w, k + 1)
    BY <2>3, <2>4 DEF AreSums
  <2> QED
    BY <2>5
<1>3. n \in S
  <2> HIDE DEF S
  <2> QED
    BY <1>1, <1>2, SetInduction
<1> QED
  BY <1>3

LEMMA SumsAre ==
  ASSUME NEW n \in Nat, NEW w \in [1 .. n -> Nat]
  PROVE  AreSums(Sums(w), w, n)
<1> DEFINE IsT(t) == t = [i \in 0 .. n |-> IF i = 0 THEN 0 ELSE t[i - 1] + w[i]]
<1>1. Len(w) = n
  BY LenIs
<1>2. Sums(w) = CHOOSE t : IsT(t)
  BY <1>1 DEF Sums
<1>3. \E t : IsT(t)
  <2>1. PICK t : AreSums(t, w, n)
    BY SumsExist
  <2>2. IsT(t)
    BY <2>1 DEF AreSums
  <2> QED
    BY <2>2
<1>4. IsT(Sums(w))
  <2> HIDE DEF IsT
  <2> QED
    BY <1>2, <1>3, Zenon
<1> DEFINE u == Sums(w)
           S == {k \in Nat : k <= n => u[k] \in Nat}
<1>5. /\ DOMAIN u = 0 .. n /\ u = [i \in 0 .. n |-> u[i]]
      /\ u[0] = 0 /\ \A i \in 1 .. n : u[i] = u[i - 1] + w[i]
  <2> HIDE DEF u
  <2>1. u = [i \in 0 .. n |-> IF i = 0 THEN 0 ELSE u[i - 1] + w[i]]
    BY <1>4 DEF u
  <2> QED
    BY <2>1
<1> HIDE DEF u
<1>6. 0 \in S /\ \A k \in Nat : k \in S => k + 1 \in S
  <2>1. ASSUME NEW k \in Nat, k + 1 <= n, u[k] \in Nat PROVE u[k + 1] \in Nat
    <3>1. k + 1 \in 1 .. n /\ (k + 1) - 1 = k
      BY <2>1
    <3>2. u[k + 1] = u[k] + w[k + 1] /\ w[k + 1] \in Nat
      BY <1>5, <3>1
    <3> QED
      BY <2>1, <3>2
  <2>2. 0 \in S
    BY <1>5
  <2> QED
    BY <2>1, <2>2
<1>7. \A k \in 0 .. n : u[k] \in Nat
  <2>1. Nat \subseteq S
    <3> HIDE DEF S
    <3> QED
      BY <1>6, SetInduction
  <2> QED
    BY <2>1
<1>8. AreSums(u, w, n)
  BY <1>5, <1>7 DEF AreSums
<1> QED
  BY <1>8 DEF u

(***************************************************************************)
(* The index for a random number.                                          *)
(***************************************************************************)

LEMMA SumsGrow ==
  ASSUME NEW n \in Nat, NEW w \in [1 .. n -> Nat], NEW t, AreSums(t, w, n),
         NEW i \in 0 .. n, NEW j \in 0 .. n, i <= j
  PROVE  t[i] <= t[j]
<1> DEFINE S == {k \in Nat : i + k <= n => t[i] <= t[i + k]}
<1>1. 0 \in S
  BY DEF AreSums
<1>2. ASSUME NEW k \in Nat, k \in S PROVE k + 1 \in S
  <2> SUFFICES ASSUME i + (k + 1) <= n PROVE t[i] <= t[i + (k + 1)]
    OBVIOUS
  <2>1. i + (k + 1) \in 1 .. n /\ (i + (k + 1)) - 1 = i + k /\ i + k \in 0 .. n
    OBVIOUS
  <2>2. t[i + (k + 1)] = t[i + k] + w[i + (k + 1)] /\ t[i] <= t[i + k]
    BY <1>2, <2>1 DEF AreSums
  <2>3. t[i] \in Nat /\ t[i + k] \in Nat /\ w[i + (k + 1)] \in Nat
    BY <2>1 DEF AreSums
  <2> QED
    BY <2>2, <2>3
<1>3. j - i \in S
  <2>1. j - i \in Nat
    OBVIOUS
  <2> HIDE DEF S
  <2>2. Nat \subseteq S
    BY <1>1, <1>2, SetInduction
  <2> QED
    BY <2>1, <2>2
<1>4. i + (j - i) = j
  OBVIOUS
<1> QED
  BY <1>3, <1>4

LEMMA IndexInRange ==
  ASSUME NEW n \in Nat, NEW w \in [1 .. n -> Nat], NEW r \in Nat, r < Sums(w)[n]
  PROVE  weightedRandomIndex(w, r) \in 1 .. n
<1> DEFINE Over == {j \in 1 .. n : Sums(w)[j] > r}
<1>1. Len(w) = n
  BY LenIs
<1>2. Sums(w)[0] = 0 /\ n \in 0 .. n
  BY SumsAre DEF AreSums
<1>3. n \in Over
  BY <1>2
<1>4. weightedRandomIndex(w, r) = CHOOSE j \in Over : \A l \in Over : j <= l
  BY <1>1, <1>3 DEF weightedRandomIndex
<1>5. \E j \in Over : \A l \in Over : j <= l
  <2>1. Over \in SUBSET Nat /\ Over # {}
    BY <1>3
  <2> HIDE DEF Over
  <2> QED
    BY <2>1, Least
<1>6. weightedRandomIndex(w, r) \in Over
  <2> HIDE DEF Over
  <2> QED
    BY <1>4, <1>5, Zenon
<1> QED
  BY <1>6

\* The index is i for the random numbers from the sum before weight i to the sum
\* after it.
LEMMA IndexIs ==
  ASSUME NEW n \in Nat, NEW w \in [1 .. n -> Nat],
         NEW r \in Nat, r < Sums(w)[n], NEW i \in 1 .. n
  PROVE  weightedRandomIndex(w, r) = i <=> Sums(w)[i - 1] <= r /\ r < Sums(w)[i]
<1> DEFINE t == Sums(w)
           Over == {j \in 1 .. n : t[j] > r}
           k == CHOOSE j \in Over : \A l \in Over : j <= l
<1>1. AreSums(t, w, n)
  BY SumsAre
<1>2. Len(w) = n
  BY LenIs
<1>3. n \in Over
  OBVIOUS
<1>4. weightedRandomIndex(w, r) = k
  BY <1>2, <1>3 DEF weightedRandomIndex
<1> HIDE DEF t
<1>5. k \in Over /\ \A l \in Over : k <= l
  <2>1. Over \in SUBSET Nat /\ Over # {}
    BY <1>3
  <2> HIDE DEF Over
  <2>2. \E j \in Over : \A l \in Over : j <= l
    BY <2>1, Least
  <2> QED
    BY <2>2, Zenon
<1> HIDE DEF k
<1>6. t[k - 1] <= r /\ r < t[k]
  <2>1. k \in 1 .. n /\ t[k] > r /\ k - 1 \notin Over
    BY <1>5
  <2>2. k - 1 \in 0 .. n /\ t[k - 1] \in Nat /\ t[k] \in Nat
    BY <1>1, <2>1 DEF AreSums
  <2>3. CASE k = 1
    BY <1>1, <2>1, <2>3 DEF AreSums
  <2>4. CASE k # 1
    BY <2>1, <2>2, <2>4
  <2> QED
    BY <2>3, <2>4
<1>7. ASSUME t[i - 1] <= r, r < t[i] PROVE k = i
  <2>1. i \in Over /\ k <= i /\ k \in 1 .. n
    BY <1>5, <1>7
  <2>2. ASSUME k < i PROVE FALSE
    <3>1. k <= i - 1 /\ k \in 0 .. n /\ i - 1 \in 0 .. n
      BY <2>1, <2>2
    <3>2. t[k] <= t[i - 1]
      BY <1>1, <3>1, SumsGrow
    <3>3. t[k] \in Nat /\ t[i - 1] \in Nat
      BY <1>1, <3>1 DEF AreSums
    <3> QED
      BY <1>6, <1>7, <3>2, <3>3
  <2> QED
    BY <2>1, <2>2
<1> QED
  BY <1>4, <1>6, <1>7 DEF t

(***************************************************************************)
(* The sum of all weights does not depend on the order.                    *)
(***************************************************************************)

LEMMA OrderIs ==
  ASSUME NEW order \in Orders
  PROVE  /\ Cardinality(Pools) \in Nat
         /\ order \in [1 .. Cardinality(Pools) -> Pools]
         /\ \A i, j \in 1 .. Cardinality(Pools) : order[i] = order[j] => i = j
         /\ \A p \in Pools : \E i \in 1 .. Cardinality(Pools) : order[i] = p
<1> DEFINE n == Cardinality(Pools)
<1>1. IsFiniteSet(Pools) /\ n \in Nat
  BY BalanceAssumption, FS_CardinalityType
<1>2. order \in [1 .. n -> Pools] /\ \A i, j \in 1 .. n : order[i] = order[j] => i = j
  BY DEF Orders
<1>3. IsFiniteSet(1 .. n) /\ Cardinality(1 .. n) = n
  <2> HIDE DEF n
  <2> QED
    BY <1>1, FS_Interval
<1>4. order \in Injection(1 .. n, Pools)
  BY <1>2 DEF Injection, IsInjective
<1>5. order \in Surjection(1 .. n, Pools)
  BY <1>1, <1>3, <1>4, FS_Injection
<1> QED
  BY <1>1, <1>2, <1>5 DEF Surjection

LEMMA OrderExists == \E order : order \in Orders
<1> DEFINE n == Cardinality(Pools)
<1>1. ExistsBijection(1 .. n, Pools)
  BY BalanceAssumption, FS_CardinalityType
<1>2. PICK f : f \in Bijection(1 .. n, Pools)
  BY <1>1 DEF ExistsBijection
<1>3. f \in [1 .. n -> Pools] /\ \A i, j \in 1 .. n : f[i] = f[j] => i = j
  BY <1>2 DEF Bijection, Injection, IsInjective
<1> QED
  BY <1>3 DEF Orders

\* One place for each unit of the weights c of the pools in Q.
Places(c, Q) == {d \in Q \X Nat : d[2] < c[d[1]]}

LEMMA UpTo ==
  ASSUME NEW n \in Nat
  PROVE  IsFiniteSet(0 .. n - 1) /\ Cardinality(0 .. n - 1) = n
  BY FS_Interval

LEMMA PlacesOfOne ==
  ASSUME NEW c \in [Pools -> Nat], NEW p \in Pools
  PROVE  IsFiniteSet(Places(c, {p})) /\ Cardinality(Places(c, {p})) = c[p]
<1> DEFINE I == 0 .. c[p] - 1
<1>1. Places(c, {p}) = {p} \X I
  BY DEF Places
<1>2. IsFiniteSet(I) /\ Cardinality(I) = c[p]
  <2>1. c[p] \in Nat
    OBVIOUS
  <2> QED
    BY <2>1, UpTo
<1>3. IsFiniteSet({p}) /\ Cardinality({p}) = 1
  BY FS_Singleton
<1> HIDE DEF I
<1>4. IsFiniteSet({p} \X I) /\ Cardinality({p} \X I) = 1 * c[p]
  BY <1>2, <1>3, FS_Product
<1>5. 1 * c[p] = c[p]
  <2>1. c[p] \in Nat
    OBVIOUS
  <2>2. \A m \in Nat : 1 * m = m
    OBVIOUS
  <2> QED
    BY <2>1, <2>2
<1> QED
  BY <1>1, <1>4, <1>5

LEMMA PlacesOfMore ==
  ASSUME NEW c \in [Pools -> Nat], NEW Q \in SUBSET Pools, NEW p \in Pools \ Q,
         IsFiniteSet(Places(c, Q))
  PROVE  /\ IsFiniteSet(Places(c, Q \cup {p}))
         /\ Cardinality(Places(c, Q \cup {p})) = Cardinality(Places(c, Q)) + c[p]
<1> DEFINE A == Places(c, Q)
           B == Places(c, {p})
<1>1. Places(c, Q \cup {p}) = A \cup B
  BY DEF Places
<1>2. A \cap B = {}
  BY DEF Places
<1>3. IsFiniteSet(A) /\ IsFiniteSet(B) /\ Cardinality(B) = c[p]
  BY PlacesOfOne
<1>4. Cardinality(A) \in Nat /\ c[p] \in Nat
  BY <1>3, FS_CardinalityType
<1> HIDE DEF A, B
<1>5. IsFiniteSet(A \cup B) /\ Cardinality(A \cup B) = Cardinality(A) + Cardinality(B) - 0
  BY <1>2, <1>3, FS_Union, FS_EmptySet
<1>6. Cardinality(A \cup B) = Cardinality(A) + c[p]
  BY <1>3, <1>4, <1>5
<1> QED
  BY <1>1, <1>5, <1>6 DEF A

LEMMA SumCounts ==
  ASSUME NEW c \in [Pools -> Nat], NEW order \in Orders
  PROVE  /\ Len(order) = Cardinality(Pools)
         /\ InOrder(c, order) \in [1 .. Cardinality(Pools) -> Nat]
         /\ \A i \in 1 .. Cardinality(Pools) : InOrder(c, order)[i] = c[order[i]]
         /\ Sums(InOrder(c, order))[Cardinality(Pools)] = Cardinality(Places(c, Pools))
<1> DEFINE n == Cardinality(Pools)
           w == InOrder(c, order)
           t == Sums(w)
           Q(i) == {order[j] : j \in 1 .. i}
           S == {i \in Nat : i <= n => /\ IsFiniteSet(Places(c, Q(i)))
                                       /\ Cardinality(Places(c, Q(i))) = t[i]}
<1>0. n \in Nat /\ order \in [1 .. n -> Pools]
  BY OrderIs
<1>1. Len(order) = n
  BY <1>0, LenIs
<1>2. w \in [1 .. n -> Nat] /\ \A i \in 1 .. n : w[i] = c[order[i]]
  BY <1>0 DEF InOrder
<1> HIDE DEF n, w
<1>3. AreSums(t, w, n)
  BY <1>0, <1>2, SumsAre
<1> HIDE DEF t
<1>4. 0 \in S
  <2>1. Places(c, Q(0)) = {}
    BY DEF Places
  <2> QED
    BY <1>3, <2>1, FS_EmptySet DEF AreSums
<1>5. ASSUME NEW i \in Nat, i \in S PROVE i + 1 \in S
  <2> SUFFICES ASSUME i + 1 <= n
               PROVE  /\ IsFiniteSet(Places(c, Q(i + 1)))
                      /\ Cardinality(Places(c, Q(i + 1))) = t[i + 1]
    OBVIOUS
  <2> DEFINE p == order[i + 1]
  <2>1. i + 1 \in 1 .. n /\ (i + 1) - 1 = i
    BY <1>0
  <2>2. p \in Pools /\ t[i + 1] = t[i] + c[p]
    BY <1>0, <1>2, <1>3, <2>1 DEF AreSums
  <2>3. Q(i) \subseteq Pools /\ p \notin Q(i) /\ Q(i + 1) = Q(i) \cup {p}
    <3>1. \A j \in 1 .. i : j \in 1 .. n /\ j # i + 1
      BY <1>0, <2>1
    <3>2. \A j \in 1 .. i : order[j] \in Pools
      BY <1>0, <3>1
    <3>3. \A j \in 1 .. n : order[j] = order[i + 1] => j = i + 1
      BY <2>1, OrderIs DEF n
    <3>4. \A j \in 1 .. i : order[j] # p
      BY <3>1, <3>3
    <3>5. Q(i) \subseteq Pools /\ p \notin Q(i)
      BY <3>2, <3>4
    <3>6. 1 .. i + 1 = (1 .. i) \cup {i + 1}
      BY <2>1
    <3> QED
      BY <3>5, <3>6
  <2>4. IsFiniteSet(Places(c, Q(i))) /\ Cardinality(Places(c, Q(i))) = t[i]
    <3>1. i <= n
      BY <1>0
    <3>2. i <= n => /\ IsFiniteSet(Places(c, Q(i)))
                    /\ Cardinality(Places(c, Q(i))) = t[i]
      <4> HIDE DEF Q
      <4> QED
        BY <1>5
    <3> HIDE DEF Q
    <3> QED
      BY <3>1, <3>2
  <2> HIDE DEF p, Q
  <2>5. /\ IsFiniteSet(Places(c, Q(i) \cup {p}))
        /\ Cardinality(Places(c, Q(i) \cup {p})) = Cardinality(Places(c, Q(i))) + c[p]
    BY <2>2, <2>3, <2>4, PlacesOfMore
  <2> QED
    BY <2>2, <2>3, <2>4, <2>5
<1>6. Cardinality(Places(c, Q(n))) = t[n]
  <2> HIDE DEF S
  <2>1. n \in S
    BY <1>0, <1>4, <1>5, SetInduction
  <2> QED
    BY <1>0, <2>1 DEF S
<1>7. Q(n) = Pools
  BY <1>0, OrderIs DEF n
<1> QED
  BY <1>1, <1>2, <1>6, <1>7 DEF n, w, t

(***************************************************************************)
(* The choice.                                                             *)
(***************************************************************************)

LEMMA TotalIs ==
  ASSUME NEW c \in [Pools -> Nat]
  PROVE  Total(c) = Cardinality(Places(c, Pools))
<1> DEFINE o == CHOOSE s \in Orders : TRUE
<1>1. o \in Orders
  BY OrderExists
<1>2. Total(c) = Sums(InOrder(c, o))[Len(o)]
  BY DEF Total
<1> HIDE DEF o
<1> QED
  BY <1>1, <1>2, SumCounts

LEMMA ShareIs ==
  ASSUME TypeOK, NEW order \in Orders, NEW p \in Pools
  PROVE  Share(order, p) = capacity[p]
<1> DEFINE n == Cardinality(Pools)
           w == InOrder(capacity, order)
           t == Sums(w)
<1>1. capacity \in [Pools -> Nat]
  BY BalanceAssumption DEF TypeOK
<1>2. n \in Nat /\ w \in [1 .. n -> Nat] /\ \A i \in 1 .. n : w[i] = capacity[order[i]]
  BY <1>1, OrderIs, SumCounts
<1>3. Total(capacity) = t[n]
  BY <1>1, SumCounts, TotalIs
<1>4. PICK k \in 1 .. n : order[k] = p
  BY OrderIs
<1> HIDE DEF n, w
<1>5. AreSums(t, w, n)
  BY <1>2, SumsAre
<1>6. /\ t[k - 1] \in Nat /\ t[k] \in Nat /\ t[n] \in Nat /\ k - 1 \in 0 .. n /\ n \in 0 .. n
      /\ t[k] = t[k - 1] + capacity[p] /\ capacity[p] \in Nat
  BY <1>1, <1>2, <1>4, <1>5 DEF AreSums
<1>7. t[k] <= t[n]
  <2> HIDE DEF t
  <2>1. k \in 0 .. n /\ n \in 0 .. n /\ k <= n
    BY <1>2
  <2> QED
    BY <1>2, <1>5, <2>1, SumsGrow
<1>8. ASSUME NEW r \in 0 .. t[n] - 1
      PROVE  randomWeightBalance(order, r) = p <=> t[k - 1] <= r /\ r < t[k]
  <2> DEFINE i == weightedRandomIndex(w, r)
  <2>1. r \in Nat /\ r < t[n]
    BY <1>6
  <2>2. i = k <=> t[k - 1] <= r /\ r < t[k]
    BY <1>2, <2>1, IndexIs
  <2>3. i \in 1 .. n
    BY <1>2, <2>1, IndexInRange
  <2>4. randomWeightBalance(order, r) = order[i]
    BY DEF randomWeightBalance, w
  <2> HIDE DEF i, t
  <2>5. order[i] = p <=> i = k
    BY <1>4, <2>3, OrderIs DEF n
  <2> QED
    BY <2>2, <2>4, <2>5
<1> HIDE DEF t
<1>9. {r \in 0 .. t[n] - 1 : randomWeightBalance(order, r) = p} = t[k - 1] .. t[k] - 1
  <2>1. \A r : r \in t[k - 1] .. t[k] - 1 <=> r \in 0 .. t[n] - 1 /\ t[k - 1] <= r /\ r < t[k]
    BY <1>6, <1>7
  <2> QED
    BY <1>8, <2>1
<1>10. Cardinality(t[k - 1] .. t[k] - 1) = capacity[p]
  <2> DEFINE a == t[k - 1]
             b == t[k] - 1
  <2>1. a \in Int /\ b \in Int /\ (IF a > b THEN 0 ELSE b - a + 1) = capacity[p]
    BY <1>6
  <2> HIDE DEF a, b
  <2>2. Cardinality(a .. b) = capacity[p]
    BY <2>1, FS_Interval
  <2> QED
    BY <2>2 DEF a, b
<1> QED
  BY <1>3, <1>9, <1>10 DEF Share

\* For every number of pools, with any capacities, a random number chooses each pool
\* as often as it has connections, in whatever order the map is visited: the loop of
\* weightedRandomIndex leaves no number out and gives none twice (director.go:119-154).
THEOREM SharesAreCapacities == Spec => []ShareIsCapacity
<1>1. TypeOK => ShareIsCapacity
  BY ShareIs DEF ShareIsCapacity
<1> QED
  BY <1>1, TypeCorrect, PTL

==============================================================================
