------------------------------- MODULE Balance -------------------------------
(***************************************************************************)
(* How balancePool of src/pkg/plugins/pool/grpc/director.go chooses among  *)
(* the pools of a proxy: minConnBalance, which ranges over the map while   *)
(* other requests take and return connections, and the pure functions      *)
(* weightedRandomIndex and randomWeightBalance.                            *)
(*                                                                         *)
(* A range over a Go map visits the keys in any order.  minConnBalance     *)
(* reads the status of a pool and then, twice, its Size(); each read is a  *)
(* step.                                                                   *)
(***************************************************************************)
EXTENDS Integers, Sequences, FiniteSets

CONSTANTS
  Pools,     \* the pools of the proxy, by their names
  NoPool,    \* the empty string, initial value of index
  MaxCap,    \* bound on capacities
  MaxWeight  \* bound on the weights of the configuration

ASSUME BalanceAssumption ==
  /\ IsFiniteSet(Pools) /\ Pools # {} /\ NoPool \notin Pools
  /\ MaxCap \in Nat \ {0} /\ MaxWeight \in Nat \ {0}

VARIABLES
  capacity,   \* pool.capacity
  weight,     \* pool.weight, what follows the "#" of the endpoint
  idle,       \* len(pool.clients)
  status,     \* pool.status
  bpc,        \* next statement: range, size, sum, or done
  todo,       \* pools the range has not visited
  cur,        \* the pool it is at
  size, sumSize, index, indexRand,   \* the variables of minConnBalance
  quiet       \* no pool has changed since the call (history)

pools == <<capacity, weight, idle, status>>
locals == <<todo, cur, size, sumSize, index, indexRand>>
vars == <<pools, bpc, locals, quiet>>

TypeOK ==
  /\ capacity \in [Pools -> 1 .. MaxCap] /\ weight \in [Pools -> 1 .. MaxWeight]
  /\ idle \in [Pools -> 0 .. MaxCap] /\ \A p \in Pools : idle[p] <= capacity[p]
  /\ status \in [Pools -> BOOLEAN]
  /\ bpc \in {"range", "size", "sum", "done", "panic"}
  /\ todo \subseteq Pools /\ cur \in Pools \cup {NoPool}
  /\ size \in 0 .. MaxCap /\ sumSize \in 0 .. MaxCap * Cardinality(Pools)
  /\ index \in Pools \cup {NoPool} /\ indexRand \subseteq Pools
  /\ quiet \in BOOLEAN

------------------------------------------------------------------------------
(* weightedRandomIndex and randomWeightBalance.                            *)

\* Variant: t is not accumulated.
weightedRandomIndexNoSum(weights, r) ==
  LET Over == {i \in 1 .. Len(weights) : weights[i] > r}
  IN  IF Over = {} THEN Len(weights) ELSE CHOOSE i \in Over : \A j \in Over : i <= j

\* The variable t of the loop, after so many weights.
Sums(weights) ==
  LET t[i \in 0 .. Len(weights)] == IF i = 0 THEN 0 ELSE t[i - 1] + weights[i] IN t

\* The first index at which the sum of the weights exceeds r, counted from 1;
\* the last one if rounding makes r as large as the sum.  Sums of weights are
\* whole numbers, so that only the whole part of the random number matters.
weightedRandomIndex(weights, r) ==
  LET Over == {i \in 1 .. Len(weights) : Sums(weights)[i] > r}
  IN  IF Over = {} THEN Len(weights) ELSE CHOOSE i \in Over : \A j \in Over : i <= j

\* Orders in which a range may visit the pools.
Orders ==
  {s \in [1 .. Cardinality(Pools) -> Pools] : \A i, j \in DOMAIN s : s[i] = s[j] => i = j}

\* The numbers f of the pools, in one order.
InOrder(f, order) == [i \in DOMAIN order |-> f[order[i]]]

\* randomWeightBalance: the weights are the capacities.
randomWeightBalance(order, r) == order[weightedRandomIndex(InOrder(capacity, order), r)]

\* Sum of f over the pools of one order.
Total(f) == LET order == CHOOSE s \in Orders : TRUE IN Sums(InOrder(f, order))[Len(order)]

\* The random numbers, out of Total(capacity), for which p is chosen.
Share(order, p) ==
  Cardinality({r \in 0 .. Total(capacity) - 1 : randomWeightBalance(order, r) = p})

------------------------------------------------------------------------------
(* minConnBalance.                                                         *)

\* The next pool of the range; one with a false status is passed over.
RangePool(p) ==
  /\ bpc = "range"
  /\ p \in todo
  /\ todo' = todo \ {p}
  /\ IF status[p] THEN bpc' = "size" /\ cur' = p ELSE UNCHANGED <<bpc, cur>>
  /\ UNCHANGED <<pools, size, sumSize, index, indexRand, quiet>>

\* Variant: `<' for `<='.
PoolSizeStrict ==
  /\ bpc = "size"
  /\ bpc' = "sum"
  /\ IF size < idle[cur] THEN size' = idle[cur] /\ index' = cur
                         ELSE UNCHANGED <<size, index>>
  /\ UNCHANGED <<pools, todo, cur, sumSize, indexRand, quiet>>

\* Variant: size is not updated.
PoolSizeLast ==
  /\ bpc = "size"
  /\ bpc' = "sum"
  /\ index' = IF size <= idle[cur] THEN cur ELSE index
  /\ UNCHANGED <<pools, todo, cur, size, sumSize, indexRand, quiet>>

\* pSize := pool.Size(), and the pool is the best so far or not.
PoolSize ==
  /\ bpc = "size"
  /\ bpc' = "sum"
  /\ IF size <= idle[cur] THEN size' = idle[cur] /\ index' = cur
                          ELSE UNCHANGED <<size, index>>
  /\ UNCHANGED <<pools, todo, cur, sumSize, indexRand, quiet>>

\* Variant: the largest size is added as well.
PoolSumTwice ==
  /\ bpc = "sum"
  /\ bpc' = "range"
  /\ sumSize' = sumSize + size + idle[cur]
  /\ indexRand' = indexRand \cup {cur}
  /\ UNCHANGED <<pools, todo, cur, size, index, quiet>>

\* Variant: only a pool with an idle connection is remembered.
PoolSumIdle ==
  /\ bpc = "sum"
  /\ bpc' = "range"
  /\ sumSize' = sumSize + idle[cur]
  /\ indexRand' = IF idle[cur] > 0 THEN indexRand \cup {cur} ELSE indexRand
  /\ UNCHANGED <<pools, todo, cur, size, index, quiet>>

\* sumSize += int(pool.Size()), and the name goes into indexRand.
PoolSum ==
  /\ bpc = "sum"
  /\ bpc' = "range"
  /\ sumSize' = sumSize + idle[cur]
  /\ indexRand' = indexRand \cup {cur}
  /\ UNCHANGED <<pools, todo, cur, size, index, quiet>>

\* The range is over; without an idle connection any pool is as good.
Choose ==
  /\ bpc = "range"
  /\ todo = {}
  /\ IF sumSize # 0 THEN bpc' = "done" /\ UNCHANGED index
     ELSE IF indexRand = {} THEN bpc' = "panic" /\ UNCHANGED index
     ELSE bpc' = "done" /\ index' \in indexRand
  /\ UNCHANGED <<pools, todo, cur, size, sumSize, indexRand, quiet>>

minConnBalance == (\E p \in Pools : RangePool(p)) \/ PoolSize \/ PoolSum \/ Choose

------------------------------------------------------------------------------
(* Other requests, and Pool.Close.                                         *)

Running == bpc \in {"range", "size", "sum"}

Take(p) ==
  /\ Running /\ status[p] /\ idle[p] > 0
  /\ idle' = [idle EXCEPT ![p] = @ - 1]
  /\ quiet' = FALSE
  /\ UNCHANGED <<capacity, weight, status, bpc, locals>>

GiveBack(p) ==
  /\ Running /\ status[p] /\ idle[p] < capacity[p]
  /\ idle' = [idle EXCEPT ![p] = @ + 1]
  /\ quiet' = FALSE
  /\ UNCHANGED <<capacity, weight, status, bpc, locals>>

\* A closed pool has a false status and no channel.
PoolClose(p) ==
  /\ Running /\ status[p]
  /\ status' = [status EXCEPT ![p] = FALSE]
  /\ idle' = [idle EXCEPT ![p] = 0]
  /\ quiet' = FALSE
  /\ UNCHANGED <<capacity, weight, bpc, locals>>

Init ==
  /\ capacity \in [Pools -> 1 .. MaxCap] /\ weight \in [Pools -> 1 .. MaxWeight]
  /\ idle \in [Pools -> 0 .. MaxCap] /\ \A p \in Pools : idle[p] <= capacity[p]
  /\ status \in [Pools -> BOOLEAN] /\ \A p \in Pools : ~status[p] => idle[p] = 0
  /\ bpc = "range" /\ todo = Pools /\ cur = NoPool
  /\ size = 0 /\ sumSize = 0 /\ index = NoPool /\ indexRand = {}
  /\ quiet = TRUE

Next == minConnBalance \/ \E p \in Pools : Take(p) \/ GiveBack(p) \/ PoolClose(p)

Spec == Init /\ [][Next]_vars

------------------------------------------------------------------------------
(* Properties.                                                             *)

\* minConnBalance returns the name of a pool it has found with a true status,
\* never the empty string: the two calls of Size() may disagree, and a sum that
\* is not zero does not mean that a size was.
ChoiceIsAPool == bpc = "done" => index \in indexRand

\* If no connection moves meanwhile, the pool chosen has the most idle
\* connections, in whatever order the map is visited.
ChoiceIsIdlest ==
  bpc = "done" /\ quiet => \A p \in Pools : status[p] => idle[p] <= idle[index]

\* The choice among no names, which panics, happens only when every pool has
\* been closed.
PanicOnlyWithoutPools == bpc = "panic" => \A p \in Pools : ~status[p]

\* randomWeightBalance chooses a pool in proportion to its capacity, in every
\* order of the map.
ShareIsCapacity == \A order \in Orders, p \in Pools : Share(order, p) = capacity[p]

\* "What follows the # is the weight": a pool is chosen in proportion to the
\* weight its endpoint has in the configuration.
ShareIsWeight ==
  \A order \in Orders, p \in Pools :
    Share(order, p) * Total(weight) = weight[p] * Total(capacity)
==============================================================================
