---------------------------- MODULE GatewayProofs ----------------------------
(***************************************************************************)
(* Theorems about Gateway, for every configuration and number of requests: *)
(* the registry of pools, while it is filled, once it is full, and while   *)
(* the health task empties it.                                             *)
(***************************************************************************)
EXTENDS Gateway, SequenceTheorems, TLAPS

\* Names for tuples of variables and for parts of actions, expanded throughout.
USE DEF boot, maps, pools, health, Proxy, Directs, LeaveEndpoints, NextPool, Goto, EndRequest,
        RequestStep, HealthStep

\* InitGrpcConnPool is at the endpoints of a proxy ...
Working == ipc \in {"endpoint", "makePools", "makeProxy", "addPool", "setModel"}

\* ... and has opened a pool that is not in the registry with its model yet.
Adding == ipc \in {"makePools", "makeProxy", "addPool", "setModel"}

\* Where everyone is: the loops are at a proxy and an endpoint that exist and
\* have been found good so far, the health task starts after them, and a request
\* that looks something up has a name that is configured.
PlaceInv ==
  /\ Working => /\ k \in 1 .. Len(config) /\ Proxy.enabled
                /\ \A m \in 1 .. e - 1 : m \in DOMAIN Proxy.endpoints /\ Proxy.endpoints[m]
  /\ Adding => HasEndpoint
  /\ ipc = "done" => k > Len(config)
  /\ hpc # "off" => ipc = "done"
  /\ hpc \notin {"off", "check"} => target \in Pools /\ NameOf(target) \in Names
  /\ defaultProxy => DEFAULT_PROXY \in Names
  /\ \A r \in Requests :
       req[r].at \in {"pools", "model", "balance", "index"} => req[r].name \in Names

\* What the registry offers is open, but for a pool that is being released; each
\* pool is under its own name; a key without a pool is about to get one or to go.
RegistryInv ==
  /\ \A n \in Names : \A p \in connPools[n] :
       /\ NameOf(p) = n
       /\ p \in open \cap status \/ (hpc \in {"close", "delete"} /\ p = target)
  /\ \A n \in poolKeys :
       connPools[n] = {} => \/ hpc = "deleteKey" /\ n = NameOf(target)
                            \/ ipc \in {"makeProxy", "addPool"} /\ n = Proxy.name
                            \/ ipc = "hung"
  /\ Adding => <<k, e>> \in open \cap status
  /\ hpc = "deleteKey" => connPools[NameOf(target)] = {}

\* The pools the configuration asks for, and those InitGrpcConnPool is through with.
Wanted == {p \in PoolsOf(config) : /\ config[p[1]].enabled
                                   /\ \A m \in 1 .. p[2] : config[p[1]].endpoints[m]}

Through == {p \in Wanted : p[1] < k \/ (Working /\ p[1] = k /\ p[2] < e)}

\* What there is in the maps before the health task runs.
BootInv ==
  hpc = "off" /\ ipc # "hung" =>
    /\ open = Through \cup (IF Adding THEN {<<k, e>>} ELSE {})
    /\ status = open
    /\ \A n \in Names :
         connPools[n] = {p \in Through : NameOf(p) = n}
                        \cup (IF ipc = "setModel" /\ Proxy.name = n THEN {<<k, e>>} ELSE {})
    /\ poolKeys = {NameOf(p) : p \in Through}
                  \cup (IF ipc \in {"makeProxy", "addPool", "setModel"} THEN {Proxy.name} ELSE {})
    /\ ipc \in {"makePools", "makeProxy"} => \A p \in Through : NameOf(p) # Proxy.name
    /\ \A p \in Through :
         \E q \in Through : /\ NameOf(q) = NameOf(p) /\ connProxy[NameOf(p)] = config[q[1]].model
                            /\ \A x \in Through : NameOf(x) = NameOf(p) => x[1] <= q[1]

\* The pool a request has picked is in the registry while nothing is released.
PickedInv ==
  hpc = "off" /\ ~crashed =>
    \A r \in Requests : req[r].at = "index" => req[r].picked \in connPools[req[r].name]

IInv == TypeOK /\ PlaceInv /\ RegistryInv /\ BootInv /\ PickedInv

(***************************************************************************)
(* Lemmas about the configuration.                                         *)
(***************************************************************************)

LEMMA ConfigType ==
  ASSUME NEW cfg \in Configs
  PROVE  /\ Len(cfg) \in Nat
         /\ \A j \in 1 .. Len(cfg) :
              /\ cfg[j].name \in Names /\ cfg[j].enabled \in BOOLEAN /\ cfg[j].model \in Models
              /\ cfg[j].endpoints \in Seq(BOOLEAN)
              /\ Len(cfg[j].endpoints) \in Nat
              /\ DOMAIN cfg[j].endpoints = 1 .. Len(cfg[j].endpoints)
<1> DEFINE E == [name : Names, enabled : BOOLEAN, model : Models, endpoints : Seq(BOOLEAN)]
<1>1. cfg \in Seq(E)
  BY GatewayAssumption
<1>2. Len(cfg) \in Nat
  BY <1>1, LenProperties
<1>3. ASSUME NEW j \in 1 .. Len(cfg)
      PROVE  /\ cfg[j].name \in Names /\ cfg[j].enabled \in BOOLEAN /\ cfg[j].model \in Models
             /\ cfg[j].endpoints \in Seq(BOOLEAN)
             /\ Len(cfg[j].endpoints) \in Nat
             /\ DOMAIN cfg[j].endpoints = 1 .. Len(cfg[j].endpoints)
  <2>1. cfg[j] \in E
    BY <1>1, <1>3, ElementOfSeq
  <2>2. cfg[j].endpoints \in Seq(BOOLEAN)
    BY <2>1
  <2> QED
    BY <2>1, <2>2, LenProperties
<1> QED
  BY <1>2, <1>3

LEMMA PoolsAre ==
  ASSUME NEW cfg \in Configs, NEW p
  PROVE  /\ p \in PoolsOf(cfg) <=>
              \E j \in 1 .. Len(cfg) : \E m \in 1 .. Len(cfg[j].endpoints) : p = <<j, m>>
         /\ PoolsOf(cfg) \subseteq Pools
  BY DEF PoolsOf, Pools

\* A pool has two positive numbers.
LEMMA PoolIsPair ==
  ASSUME NEW p \in Pools
  PROVE  p = <<p[1], p[2]>> /\ p[1] \in Nat \ {0} /\ p[2] \in Nat \ {0} /\ p # NoPool
<1>1. PICK cfg \in Configs : p \in PoolsOf(cfg)
  BY DEF Pools
<1>2. PICK j \in 1 .. Len(cfg) : \E m \in 1 .. Len(cfg[j].endpoints) : p = <<j, m>>
  BY <1>1 DEF PoolsOf
<1>3. PICK m \in 1 .. Len(cfg[j].endpoints) : p = <<j, m>>
  BY <1>2
<1> QED
  BY <1>3, ConfigType DEF NoPool

(***************************************************************************)
(* Type correctness.                                                       *)
(***************************************************************************)

Requesting ==
  [at : {"idle", "director", "pools", "model", "balance", "index", "acquire", "stream"},
   name : Names \cup {NoName, Internal}, seen : BOOLEAN, model : {"none"} \cup Models,
   picked : Pools \cup {NoPool}, tries : 0 .. RetryTimes]

\* TypeOK, with one conjunct per variable.
Types ==
  /\ config \in Configs /\ defaultProxy \in BOOLEAN /\ crashed \in BOOLEAN
  /\ poolKeys \in SUBSET Names
  /\ connPools \in [Names -> SUBSET Pools]
  /\ connProxy \in [Names -> {"absent", "empty"} \cup Models]
  /\ open \in SUBSET Pools /\ status \in SUBSET Pools
  /\ ipc \in {"proxy", "endpoint", "makePools", "makeProxy", "addPool", "setModel",
              "done", "hung"}
  /\ k \in Nat \ {0} /\ e \in Nat \ {0}
  /\ req \in [Requests -> Requesting]
  /\ hpc \in {"off", "check", "recheck", "close", "delete", "deleteKey"}
  /\ target \in Pools \cup {NoPool} /\ i \in 0 .. Rechecks - 1

LEMMA TypeFacts == (TypeOK <=> Types) /\ (TypeOK' <=> Types')
  BY Zenon DEF TypeOK, Types, Requesting

LEMMA InitType == Init => TypeOK
<1> SUFFICES ASSUME Init PROVE Types
  BY TypeFacts
<1>1. 0 \in 0 .. RetryTimes /\ 0 \in 0 .. Rechecks - 1
  BY GatewayAssumption
<1>2. Idle \in Requesting
  BY <1>1 DEF Idle, Requesting
<1>3. req \in [Requests -> Requesting]
  BY <1>2 DEF Init
<1>4. connPools \in [Names -> SUBSET Pools]
  BY DEF Init
<1>5. connProxy \in [Names -> {"absent", "empty"} \cup Models]
  BY DEF Init
<1>6. open \in SUBSET Pools /\ status \in SUBSET Pools /\ poolKeys \in SUBSET Names
  BY DEF Init
<1>7. i \in 0 .. Rechecks - 1 /\ k \in Nat \ {0} /\ e \in Nat \ {0}
  BY <1>1 DEF Init
<1>8. /\ config \in Configs /\ defaultProxy \in BOOLEAN /\ crashed \in BOOLEAN
      /\ ipc = "proxy" /\ hpc = "off" /\ target \in Pools \cup {NoPool}
  BY DEF Init
<1> QED
  BY <1>3, <1>4, <1>5, <1>6, <1>7, <1>8 DEF Types

\* The steps of InitGrpcConnPool.
LEMMA BootType ==
  ASSUME TypeOK, PlaceInv, InitGrpcConnPool
  PROVE  TypeOK'
<1> SUFFICES ASSUME Types PROVE Types'
  BY TypeFacts
<1> USE DEF Types
<1>1. Len(config) \in Nat /\ \A j \in 1 .. Len(config) : config[j].name \in Names
  BY ConfigType
<1>2. CASE InitProxy
  <2>1. /\ ipc' \in {"proxy", "endpoint", "done"} /\ defaultProxy' \in BOOLEAN
        /\ k' \in {k, k + 1} /\ e' \in {e, 1}
    BY <1>1, <1>2 DEF InitProxy
  <2>2. k' \in Nat \ {0} /\ e' \in Nat \ {0}
    BY <2>1
  <2>3. UNCHANGED <<config, maps, pools, req, health, crashed>>
    BY <1>2 DEF InitGrpcConnPool, InitProxy
  <2> QED
    BY <2>1, <2>2, <2>3
<1>3. CASE InitEndpointsEnd
  BY <1>3 DEF InitGrpcConnPool, InitEndpointsEnd
<1>4. CASE NewPool
  <2>1. k \in 1 .. Len(config) /\ e \in DOMAIN config[k].endpoints
    BY <1>4 DEF NewPool, HasEndpoint, PlaceInv, Working
  <2>2. <<k, e>> \in Pools
    BY <2>1, ConfigType, PoolsAre
  <2> QED
    BY <1>4, <2>2 DEF InitGrpcConnPool, NewPool
<1>5. CASE NewPoolFails
  BY <1>5 DEF InitGrpcConnPool, NewPoolFails
<1>6. CASE MakePools
  <2>1. config[k].name \in Names
    BY <1>1, <1>6 DEF MakePools, PlaceInv, Working
  <2> QED
    BY <1>6, <2>1 DEF InitGrpcConnPool, MakePools
<1>7. CASE MakeProxy
  BY <1>7 DEF InitGrpcConnPool, MakeProxy
<1>8. CASE AddPool
  <2>1. k \in 1 .. Len(config) /\ e \in DOMAIN config[k].endpoints
    BY <1>8 DEF AddPool, HasEndpoint, PlaceInv, Working, Adding
  <2>2. <<k, e>> \in Pools
    BY <2>1, ConfigType, PoolsAre
  <2> QED
    BY <1>8, <2>2 DEF InitGrpcConnPool, AddPool
<1>9. CASE SetModel
  <2>1. config[k].model \in Models
    BY <1>9, ConfigType DEF SetModel, PlaceInv, Working
  <2>2. connProxy' \in [Names -> {"absent", "empty"} \cup Models]
    BY <1>9, <2>1 DEF SetModel
  <2>3. e' \in Nat \ {0} /\ ipc' = "endpoint"
    BY <1>9 DEF SetModel
  <2>4. UNCHANGED <<config, defaultProxy, k, poolKeys, connPools, pools, req, health, crashed>>
    BY <1>9 DEF InitGrpcConnPool, SetModel
  <2> QED
    BY <2>2, <2>3, <2>4
<1> QED
  BY <1>2, <1>3, <1>4, <1>5, <1>6, <1>7, <1>8, <1>9 DEF InitGrpcConnPool

\* The fields of a request keep their types.
LEMMA Keeps ==
  ASSUME NEW q \in Requesting
  PROVE  /\ \A l \in {"idle", "director", "pools", "model", "balance", "index", "acquire",
                      "stream"} : [q EXCEPT !.at = l] \in Requesting
         /\ \A n \in Names \cup {NoName, Internal} : [q EXCEPT !.name = n] \in Requesting
         /\ \A b \in BOOLEAN : [q EXCEPT !.seen = b] \in Requesting
         /\ \A m \in {"none"} \cup Models : [q EXCEPT !.model = m] \in Requesting
         /\ \A p \in Pools \cup {NoPool} : [q EXCEPT !.picked = p] \in Requesting
         /\ \A t \in 0 .. RetryTimes : [q EXCEPT !.tries = t] \in Requesting
  BY DEF Requesting

LEMMA RequestType ==
  ASSUME TypeOK, PlaceInv, NEW r \in Requests,
         RequestStep(Arrive(r)) \/ RequestStep(HandlerOf(r))
  PROVE  TypeOK'
<1> SUFFICES ASSUME Types PROVE Types'
  BY TypeFacts
<1> DEFINE Steps == req' \in [Requests -> Requesting] /\ crashed' \in BOOLEAN
<1> USE DEF Types
<1>0. req[r] \in Requesting
  OBVIOUS
<1>e. Idle \in Requesting
  BY GatewayAssumption DEF Idle, Requesting
<1>d. DirectorError(r) => req' \in [Requests -> Requesting]
  <2>1. MayRetry(req[r]) => req[r].tries + 1 \in 0 .. RetryTimes
    BY <1>0, GatewayAssumption DEF MayRetry, Requesting
  <2>2. MayRetry(req[r]) => Retried(req[r]) \in Requesting
    BY <1>0, <2>1 DEF Retried, Requesting
  <2> QED
    BY <1>e, <2>2 DEF DirectorError
<1>m. ASSUME NEW q \in Requesting, req' = [req EXCEPT ![r] = q]
      PROVE  req' \in [Requests -> Requesting]
  BY <1>m
<1>1. CASE Arrive(r)
  <2>1. PICK n \in Names \cup {NoName, Internal} :
          req' = [req EXCEPT ![r] = [[req[r] EXCEPT !.at = "director"] EXCEPT !.name = n]]
    BY <1>1 DEF Arrive
  <2>2. [[req[r] EXCEPT !.at = "director"] EXCEPT !.name = n] \in Requesting
    BY <1>0, Keeps
  <2>3. req' \in [Requests -> Requesting]
    BY <1>m, <2>1, <2>2
  <2>4. crashed' = crashed
    BY <1>1 DEF Arrive
  <2> QED
    BY <2>3, <2>4
<1>2. CASE Route(r)
  <2>1. req' \in [Requests -> Requesting]
    <3>1. CASE defaultProxy /\ req[r].name # Internal
      <4>1. DEFAULT_PROXY \in Names
        BY <3>1 DEF PlaceInv
      <4>2. req' = [req EXCEPT ![r] = [[req[r] EXCEPT !.at = "pools"]
                                               EXCEPT !.name = DEFAULT_PROXY]]
        BY <1>2, <3>1 DEF Route
      <4>3. [[req[r] EXCEPT !.at = "pools"] EXCEPT !.name = DEFAULT_PROXY] \in Requesting
        BY <1>0, <4>1, Keeps
      <4> QED
        BY <1>m, <4>2, <4>3
    <3>2. CASE req[r].name = Internal \/ (~defaultProxy /\ req[r].name = NoName)
      BY <1>2, <1>d, <3>2 DEF Route
    <3>3. CASE ~defaultProxy /\ req[r].name \notin {NoName, Internal}
      <4>1. req' = [req EXCEPT ![r] = [req[r] EXCEPT !.at = "pools"]]
        BY <1>2, <3>3 DEF Route
      <4>2. [req[r] EXCEPT !.at = "pools"] \in Requesting
        BY <1>0, Keeps
      <4> QED
        BY <1>m, <4>1, <4>2
    <3> QED
      BY <3>1, <3>2, <3>3
  <2> QED
    BY <1>2, <2>1 DEF Route
<1>3. CASE ReadPools(r)
  <2>0. PICK b \in BOOLEAN : req' = [req EXCEPT ![r].at = "model", ![r].seen = b]
    <3>1. (req[r].name \in poolKeys) \in BOOLEAN
      OBVIOUS
    <3> QED
      BY <1>3, <3>1, Zenon DEF ReadPools
  <2> DEFINE q == [[req[r] EXCEPT !.at = "model"] EXCEPT !.seen = b]
  <2>2. q \in Requesting
    BY <1>0, Keeps
  <2>3. req' = [req EXCEPT ![r] = q]
    BY <2>0
  <2>4. req' \in [Requests -> Requesting]
    BY <1>m, <2>2, <2>3
  <2> QED
    BY <1>3, <2>4 DEF ReadPools
<1>4. CASE ReadModel(r)
  <2> DEFINE m == IF connProxy[req[r].name] \in Models THEN connProxy[req[r].name]
                                                       ELSE req[r].model
             q == [[req[r] EXCEPT !.at = "balance"] EXCEPT !.model = m]
  <2>1. m \in {"none"} \cup Models
    BY <1>0 DEF Requesting
  <2>2. q \in Requesting
    BY <1>0, <2>1, Keeps
  <2>3. req' = [req EXCEPT ![r] = q]
    BY <1>4 DEF ReadModel
  <2>4. req' \in [Requests -> Requesting]
    BY <1>m, <2>2, <2>3
  <2>5. crashed' \in BOOLEAN
    BY <1>4 DEF ReadModel
  <2> QED
    BY <1>4, <2>4, <2>5
<1>5. CASE Balance(r)
  <2>1. connPools[req[r].name] \in SUBSET Pools
    BY <1>5 DEF Balance, PlaceInv
  <2>2. Eligible(req[r]) \in SUBSET Pools
    BY <2>1 DEF Eligible
  <2>3. ASSUME NEW l \in {"acquire", "index"}, NEW p \in Pools \cup {NoPool},
               req' = [req EXCEPT ![r].at = l, ![r].picked = p]
        PROVE  req' \in [Requests -> Requesting]
    <3>1. [[req[r] EXCEPT !.at = l] EXCEPT !.picked = p] \in Requesting
      BY <1>0, Keeps
    <3>2. req' = [req EXCEPT ![r] = [[req[r] EXCEPT !.at = l] EXCEPT !.picked = p]]
      BY <2>3
    <3> QED
      BY <1>m, <3>1, <3>2
  <2>4. CASE ~req[r].seen \/ connPools[req[r].name] = {}
    BY <1>5, <2>3, <2>4 DEF Balance
  <2>5. CASE ~(~req[r].seen \/ connPools[req[r].name] = {}) /\ Eligible(req[r]) = {}
    <3>1. [req[r] EXCEPT !.at = "index"] \in Requesting
      BY <1>0, Keeps
    <3> QED
      BY <1>m, <1>5, <2>5, <3>1 DEF Balance
  <2>6. CASE ~(~req[r].seen \/ connPools[req[r].name] = {}) /\ Eligible(req[r]) # {}
    BY <1>5, <2>2, <2>3, <2>6 DEF Balance
  <2> QED
    BY <2>4, <2>5, <2>6
<1>6. CASE Index(r)
  BY <1>0, <1>6 DEF Index, Requesting
<1>7. CASE AcquireOk(r)
  BY <1>0, <1>7 DEF AcquireOk, Requesting
<1>8. CASE AcquireNil(r) \/ AcquireFails(r)
  BY <1>8, <1>d DEF AcquireNil, AcquireFails
<1>9. CASE Finish(r)
  BY <1>9, <1>e DEF Finish
<1>10. Steps
  BY <1>1, <1>2, <1>3, <1>4, <1>5, <1>6, <1>7, <1>8, <1>9 DEF HandlerOf
<1> QED
  BY <1>10

LEMMA HealthType == ASSUME TypeOK, PlaceInv, HealthStep(HealthTask) PROVE TypeOK'
<1> SUFFICES ASSUME Types PROVE Types'
  BY TypeFacts
<1> USE DEF Types
<1>0. 0 \in 0 .. Rechecks - 1
  BY GatewayAssumption
<1>1. CASE StartHealthTask
  BY <1>1 DEF StartHealthTask
<1>2. ASSUME NEW p \in Pools, CheckFails(p) PROVE Types'
  BY <1>2 DEF CheckFails
<1>3. ASSUME NEW net \in Networks, Recheck(net) PROVE Types'
  <2>1. i + 1 < Rechecks => i + 1 \in 0 .. Rechecks - 1
    BY GatewayAssumption
  <2> QED
    BY <1>0, <1>3, <2>1 DEF Recheck
<1>4. CASE ReleaseClose
  BY <1>4 DEF ReleaseClose
<1>5. CASE ReleaseDelete
  BY <1>0, <1>5 DEF ReleaseDelete
<1>6. CASE ReleaseDeleteKey
  BY <1>0, <1>6 DEF ReleaseDeleteKey
<1> QED
  BY <1>1, <1>2, <1>3, <1>4, <1>5, <1>6 DEF HealthTask, HandlesFailure, ReleaseGrpcPool

(***************************************************************************)
(* The places.                                                             *)
(***************************************************************************)

\* InitGrpcConnPool runs before the health task does.
LEMMA BootFirst ==
  ASSUME PlaceInv, InitGrpcConnPool
  PROVE  /\ ipc # "done" /\ hpc = "off"
         /\ UNCHANGED <<config, req, health, crashed>>
<1>1. ipc # "done"
  BY DEF InitGrpcConnPool, InitProxy, InitEndpointsEnd, NewPool, NewPoolFails, MakePools,
         MakeProxy, AddPool, SetModel
<1> QED
  BY <1>1 DEF InitGrpcConnPool, PlaceInv

LEMMA BootPlace ==
  ASSUME TypeOK, PlaceInv, InitGrpcConnPool
  PROVE  PlaceInv'
<1>0. Types
  BY TypeFacts
<1>1. hpc = "off" /\ UNCHANGED <<config, req, hpc, target>>
  BY BootFirst
<1>2. k \in Nat \ {0} /\ e \in Nat \ {0} /\ Len(config) \in Nat
  BY <1>0, ConfigType DEF Types
<1>3. k \in 1 .. Len(config) => config[k].name \in Names /\ config[k].enabled \in BOOLEAN
  BY <1>0, ConfigType DEF Types
<1>4. CASE InitProxy
  <2>1. CASE k > Len(config)
    BY <1>1, <1>2, <1>4, <2>1 DEF InitProxy, PlaceInv, Working, Adding
  <2>2. CASE k <= Len(config) /\ ~config[k].enabled
    BY <1>1, <1>2, <1>4, <2>2 DEF InitProxy, PlaceInv, Working, Adding
  <2>3. CASE k <= Len(config) /\ config[k].enabled
    <3>0. ~(k > Len(config)) /\ config[k].enabled
      BY <1>2, <2>3
    <3>1. /\ ipc' = "endpoint" /\ e' = 1 /\ k' = k
          /\ defaultProxy' => defaultProxy \/ config[k].name = DEFAULT_PROXY
      <4>1. /\ ipc' = "endpoint" /\ e' = 1 /\ k' = k
            /\ defaultProxy' = (defaultProxy \/
                                  (Len(config) = 1 /\ config[k].name = DEFAULT_PROXY))
        BY <1>4, <3>0, Zenon DEF InitProxy
      <4> QED
        BY <4>1
    <3>2. defaultProxy' => DEFAULT_PROXY \in Names
      BY <1>2, <1>3, <2>3, <3>1 DEF PlaceInv
    <3>3. k \in 1 .. Len(config) /\ 1 .. e' - 1 = {}
      BY <1>2, <2>3, <3>1
    <3> QED
      BY <1>1, <2>3, <3>1, <3>2, <3>3 DEF PlaceInv, Working, Adding
  <2> QED
    BY <1>2, <2>1, <2>2, <2>3
<1>5. CASE InitEndpointsEnd
  BY <1>1, <1>2, <1>5 DEF InitEndpointsEnd, PlaceInv, Working, Adding
<1>6. CASE NewPool
  BY <1>1, <1>2, <1>6 DEF NewPool, PlaceInv, Working, Adding, HasEndpoint
<1>7. CASE NewPoolFails
  BY <1>1, <1>2, <1>7 DEF NewPoolFails, PlaceInv, Working, Adding
<1>8. CASE MakePools
  BY <1>1, <1>2, <1>8 DEF MakePools, PlaceInv, Working, Adding, HasEndpoint
<1>9. CASE MakeProxy
  BY <1>1, <1>2, <1>9 DEF MakeProxy, PlaceInv, Working, Adding, HasEndpoint
<1>10. CASE AddPool
  BY <1>1, <1>2, <1>10 DEF AddPool, PlaceInv, Working, Adding, HasEndpoint
<1>11. CASE SetModel
  <2>1. \A m \in 1 .. e' - 1 : m \in 1 .. e - 1 \/ m = e
    BY <1>2, <1>11 DEF SetModel
  <2>2. \A m \in 1 .. e' - 1 : m \in DOMAIN config[k].endpoints /\ config[k].endpoints[m]
    BY <1>11, <2>1 DEF SetModel, PlaceInv, Working, Adding, HasEndpoint
  <2> QED
    BY <1>1, <1>2, <1>11, <2>2 DEF SetModel, PlaceInv, Working, Adding
<1> QED
  BY <1>4, <1>5, <1>6, <1>7, <1>8, <1>9, <1>10, <1>11 DEF InitGrpcConnPool

\* A step of a handler is nobody else's, and keeps or finds a configured name.
LEMMA RequestPlace ==
  ASSUME TypeOK, PlaceInv, NEW r \in Requests,
         RequestStep(Arrive(r)) \/ RequestStep(HandlerOf(r))
  PROVE  PlaceInv' /\ \A s \in Requests \ {r} : req'[s] = req[s]
<1>0. Types
  BY TypeFacts
<1>1. UNCHANGED <<config, boot, maps, pools, health>>
  OBVIOUS
<1>2. req \in [Requests -> Requesting] /\ req[r] \in Requesting
  BY <1>0 DEF Types
<1> DEFINE Looks(q) == q.at \in {"pools", "model", "balance", "index"} => q.name \in Names
           Step == /\ \A s \in Requests \ {r} : req'[s] = req[s]
                   /\ Looks(req'[r])
<1>3. Looks(req[r])
  BY DEF PlaceInv
<1> SUFFICES Step
  <2>1. Step => \A s \in Requests : Looks(req'[s])
    BY DEF PlaceInv
  <2> QED
    BY <1>1, <2>1 DEF PlaceInv, Working, Adding, HasEndpoint, NameOf
<1>m. ASSUME NEW q, req' = [req EXCEPT ![r] = q], Looks(q)
      PROVE  Step
  BY <1>2, <1>m
<1>4. DirectorError(r) => Step
  <2>1. Looks(Retried(req[r])) /\ Looks(Idle)
    BY <1>2 DEF Retried, Idle, Requesting
  <2> QED
    BY <1>m, <2>1 DEF DirectorError
<1>5. CASE Arrive(r)
  <2>1. PICK n \in Names \cup {NoName, Internal} :
          req' = [req EXCEPT ![r] = [[req[r] EXCEPT !.at = "director"] EXCEPT !.name = n]]
    BY <1>5 DEF Arrive
  <2>2. Looks([[req[r] EXCEPT !.at = "director"] EXCEPT !.name = n])
    BY <1>2 DEF Requesting
  <2> QED
    BY <1>m, <2>1, <2>2
<1>6. CASE Route(r)
  <2>1. CASE defaultProxy /\ req[r].name # Internal
    BY <1>2, <1>6, <2>1 DEF Route, PlaceInv, Requesting
  <2>2. CASE req[r].name = Internal \/ (~defaultProxy /\ req[r].name = NoName)
    BY <1>4, <1>6, <2>2 DEF Route
  <2>3. CASE ~defaultProxy /\ req[r].name \notin {NoName, Internal}
    <3>1. req[r].name \in Names
      BY <1>2, <2>3 DEF Requesting
    <3> QED
      BY <1>2, <1>6, <2>3, <3>1 DEF Route, Requesting
  <2> QED
    BY <2>1, <2>2, <2>3
<1>7. CASE ReadPools(r)
  BY <1>2, <1>3, <1>7 DEF ReadPools, Requesting
<1>8. CASE ReadModel(r)
  BY <1>2, <1>3, <1>8 DEF ReadModel, Requesting
<1>9. CASE Balance(r)
  BY <1>2, <1>3, <1>9 DEF Balance, Requesting
<1>10. CASE Index(r)
  BY <1>2, <1>3, <1>10 DEF Index, Requesting
<1>11. CASE AcquireOk(r)
  BY <1>2, <1>3, <1>11 DEF AcquireOk, Requesting
<1>12. CASE AcquireNil(r) \/ AcquireFails(r)
  BY <1>4, <1>12 DEF AcquireNil, AcquireFails
<1>13. CASE Finish(r)
  BY <1>2, <1>13 DEF Finish, Idle
<1> QED
  BY <1>5, <1>6, <1>7, <1>8, <1>9, <1>10, <1>11, <1>12, <1>13 DEF HandlerOf

\* The health task runs after InitGrpcConnPool.
LEMMA HealthLast ==
  ASSUME PlaceInv, HealthStep(HealthTask)
  PROVE  ipc = "done" /\ hpc' # "off" /\ UNCHANGED <<config, boot, req, crashed>>
<1>1. CASE StartHealthTask
  BY <1>1 DEF StartHealthTask
<1>2. ASSUME NEW p \in Pools, CheckFails(p)
      PROVE  ipc = "done" /\ hpc' # "off"
  BY <1>2 DEF CheckFails, PlaceInv
<1>3. ASSUME NEW net \in Networks, Recheck(net)
      PROVE  ipc = "done" /\ hpc' # "off"
  BY <1>3 DEF Recheck, PlaceInv
<1>4. CASE ReleaseGrpcPool
  BY <1>4 DEF ReleaseGrpcPool, ReleaseClose, ReleaseDelete, ReleaseDeleteKey, PlaceInv
<1> QED
  BY <1>1, <1>2, <1>3, <1>4 DEF HealthTask, HandlesFailure

LEMMA HealthPlace ==
  ASSUME TypeOK, PlaceInv, RegistryInv, HealthStep(HealthTask)
  PROVE  PlaceInv'
<1>1. ipc = "done" /\ UNCHANGED <<config, boot, req>>
  BY HealthLast
<1> USE DEF NameOf
<1>2. hpc' \notin {"off", "check"} => target' \in Pools /\ NameOf(target)' \in Names
  <2>1. CASE StartHealthTask
    BY <2>1 DEF StartHealthTask
  <2>2. ASSUME NEW p \in Pools, CheckFails(p)
        PROVE  target' \in Pools /\ NameOf(target)' \in Names
    <3>1. PICK n \in poolKeys : p \in connPools[n]
      BY <2>2 DEF CheckFails
    <3>2. n \in Names /\ NameOf(p) = n
      BY <3>1, TypeFacts DEF Types, RegistryInv
    <3> QED
      BY <1>1, <2>2, <3>2 DEF CheckFails
  <2>3. ASSUME NEW net \in Networks, Recheck(net)
        PROVE  hpc' \notin {"off", "check"} => target' \in Pools /\ NameOf(target)' \in Names
    BY <1>1, <2>3 DEF Recheck, PlaceInv
  <2>4. CASE ReleaseGrpcPool
    BY <1>1, <2>4 DEF ReleaseGrpcPool, ReleaseClose, ReleaseDelete, ReleaseDeleteKey, PlaceInv
  <2> QED
    BY <2>1, <2>2, <2>3, <2>4 DEF HealthTask, HandlesFailure
<1> QED
  BY <1>1, <1>2 DEF PlaceInv, Working, Adding, HasEndpoint

(***************************************************************************)
(* The registry.                                                           *)
(***************************************************************************)

\* A new pool is one of the proxy that InitGrpcConnPool is at.
LEMMA AtAPool ==
  ASSUME TypeOK, PlaceInv, Working
  PROVE  /\ k \in 1 .. Len(config) /\ config[k].name \in Names /\ config[k].model \in Models
         /\ NameOf(<<k, e>>) = config[k].name
         /\ HasEndpoint => <<k, e>> \in PoolsOf(config) /\ <<k, e>> \in Pools
<1>1. config \in Configs /\ k \in 1 .. Len(config)
  BY TypeFacts DEF Types, PlaceInv
<1>2. HasEndpoint => e \in 1 .. Len(config[k].endpoints)
  BY <1>1, ConfigType DEF HasEndpoint
<1> QED
  BY <1>1, <1>2, ConfigType, PoolsAre DEF NameOf

\* The parts of RegistryInv.
OffersInv ==
  \A n \in Names : \A p \in connPools[n] :
    /\ NameOf(p) = n
    /\ p \in open \cap status \/ (hpc \in {"close", "delete"} /\ p = target)

KeysInv ==
  \A n \in poolKeys :
    connPools[n] = {} => \/ hpc = "deleteKey" /\ n = NameOf(target)
                         \/ ipc \in {"makeProxy", "addPool"} /\ n = Proxy.name
                         \/ ipc = "hung"

LEMMA RegistryParts ==
  /\ RegistryInv <=> /\ OffersInv /\ KeysInv
                     /\ Adding => <<k, e>> \in open \cap status
                     /\ hpc = "deleteKey" => connPools[NameOf(target)] = {}
  /\ RegistryInv' <=> /\ OffersInv' /\ KeysInv'
                      /\ Adding' => <<k', e'>> \in open' \cap status'
                      /\ hpc' = "deleteKey" => connPools'[NameOf(target)'] = {}
  BY Zenon DEF RegistryInv, OffersInv, KeysInv

LEMMA BootRegistry ==
  ASSUME TypeOK, PlaceInv, RegistryInv, InitGrpcConnPool
  PROVE  RegistryInv'
<1>0. Types
  BY TypeFacts
<1>1. hpc = "off" /\ UNCHANGED <<config, req, hpc, target>>
  BY BootFirst
<1>2. /\ OffersInv /\ KeysInv /\ (Adding => <<k, e>> \in open \cap status)
      /\ poolKeys \in SUBSET Names /\ connPools \in [Names -> SUBSET Pools]
  BY <1>0, RegistryParts DEF Types
<1> SUFFICES OffersInv' /\ KeysInv' /\ (Adding' => <<k', e'>> \in open' \cap status')
  BY <1>1, RegistryParts
<1>3. \A p : NameOf(p)' = NameOf(p)
  BY <1>1 DEF NameOf
<1> USE DEF OffersInv, KeysInv, Adding, NameOf
<1>4. CASE InitProxy
  BY <1>1, <1>2, <1>3, <1>4 DEF InitProxy
<1>5. CASE InitEndpointsEnd
  BY <1>1, <1>2, <1>3, <1>5 DEF InitEndpointsEnd
<1>6. CASE NewPool
  BY <1>1, <1>2, <1>3, <1>6 DEF NewPool
<1>7. CASE NewPoolFails
  BY <1>1, <1>2, <1>3, <1>7 DEF NewPoolFails
<1>8. CASE MakePools
  BY <1>1, <1>2, <1>3, <1>8 DEF MakePools
<1>9. CASE MakeProxy
  BY <1>1, <1>2, <1>3, <1>9 DEF MakeProxy
<1>10. CASE AddPool
  <2>1. /\ config[k].name \in Names /\ NameOf(<<k, e>>) = config[k].name
        /\ <<k, e>> \in open \cap status
    BY <1>2, <1>10, AtAPool DEF AddPool, Working
  <2>2. connPools' = [connPools EXCEPT ![config[k].name] = @ \cup {<<k, e>>}]
    BY <1>10 DEF AddPool
  <2>3. \A n \in Names : /\ connPools'[n] = IF n = config[k].name
                                             THEN connPools[n] \cup {<<k, e>>} ELSE connPools[n]
    BY <1>2, <2>1, <2>2
  <2>4. UNCHANGED <<open, status, poolKeys, k, e>> /\ ipc = "addPool" /\ ipc' = "setModel"
    BY <1>10 DEF AddPool
  <2>5. OffersInv'
    <3>1. ASSUME NEW n \in Names, NEW p \in connPools'[n]
          PROVE  config[p[1]].name = n /\ p \in open \cap status
      <4>1. CASE p \in connPools[n]
        BY <1>1, <1>2, <4>1
      <4>2. CASE n = config[k].name /\ p = <<k, e>>
        BY <2>1, <4>2
      <4> QED
        BY <2>3, <4>1, <4>2
    <3> QED
      BY <1>1, <2>4, <3>1
  <2>6. KeysInv'
    <3> SUFFICES ASSUME NEW n \in poolKeys, connPools'[n] = {} PROVE FALSE
      BY <2>4
    <3>1. n \in Names /\ n # config[k].name /\ connPools[n] = {}
      BY <1>2, <2>1, <2>3
    <3>2. hpc = "deleteKey" \/ n = config[k].name \/ ipc = "hung"
      BY <1>2, <3>1
    <3> QED
      BY <1>1, <2>4, <3>1, <3>2
  <2> QED
    BY <2>1, <2>4, <2>5, <2>6
<1>11. CASE SetModel
  BY <1>1, <1>2, <1>3, <1>11 DEF SetModel
<1> QED
  BY <1>4, <1>5, <1>6, <1>7, <1>8, <1>9, <1>10, <1>11 DEF InitGrpcConnPool

LEMMA HealthRegistry ==
  ASSUME TypeOK, PlaceInv, RegistryInv, HealthStep(HealthTask)
  PROVE  RegistryInv'
<1>0. Types
  BY TypeFacts
<1>1. ipc = "done" /\ UNCHANGED <<config, boot>>
  BY HealthLast
<1>2. /\ OffersInv /\ KeysInv /\ (hpc = "deleteKey" => connPools[NameOf(target)] = {})
      /\ poolKeys \in SUBSET Names /\ connPools \in [Names -> SUBSET Pools]
  BY <1>0, RegistryParts DEF Types
<1> SUFFICES OffersInv' /\ KeysInv' /\ (hpc' = "deleteKey" => connPools'[NameOf(target)'] = {})
  BY <1>1, RegistryParts DEF Adding
<1>3. \A p : NameOf(p)' = NameOf(p)
  BY <1>1 DEF NameOf
<1> USE DEF OffersInv, KeysInv, NameOf
<1>4. CASE StartHealthTask
  BY <1>1, <1>2, <1>3, <1>4 DEF StartHealthTask
<1>5. ASSUME NEW p \in Pools, CheckFails(p)
      PROVE  OffersInv' /\ KeysInv' /\ (hpc' = "deleteKey" => connPools'[NameOf(target)'] = {})
  BY <1>1, <1>2, <1>3, <1>5 DEF CheckFails
<1>6. ASSUME NEW net \in Networks, Recheck(net)
      PROVE  OffersInv' /\ KeysInv' /\ (hpc' = "deleteKey" => connPools'[NameOf(target)'] = {})
  BY <1>1, <1>2, <1>3, <1>6 DEF Recheck
<1>7. CASE ReleaseClose
  BY <1>1, <1>2, <1>3, <1>7 DEF ReleaseClose
<1>8. CASE ReleaseDelete
  <2> DEFINE n0 == NameOf(target)
  <2>1. UNCHANGED <<open, status, poolKeys>> /\ hpc = "delete"
    BY <1>8 DEF ReleaseDelete
  <2>2. \A n \in Names :
          connPools'[n] = IF n = n0 THEN connPools[n] \ {target} ELSE connPools[n]
    BY <1>2, <1>8 DEF ReleaseDelete
  <2>3. ASSUME NEW n \in Names, NEW p \in connPools'[n]
        PROVE  p \in connPools[n] /\ p # target
    <3>1. CASE n = n0
      BY <2>2, <3>1
    <3>2. CASE n # n0
      <4>1. p \in connPools[n]
        BY <2>2, <3>2
      <4>2. config[p[1]].name = n
        BY <1>2, <4>1
      <4> QED
        BY <3>2, <4>1, <4>2
    <3> QED
      BY <3>1, <3>2
  <2>4. OffersInv'
    BY <1>2, <1>3, <2>1, <2>3
  <2>5. CASE connPools[n0] = {target}
    <3>1. hpc' = "deleteKey" /\ target' = target
      BY <1>8, <2>5 DEF ReleaseDelete
    <3>2. \A n \in Names \ {n0} : connPools'[n] = connPools[n]
      BY <2>2
    <3>3. KeysInv'
      BY <1>1, <1>2, <1>3, <2>1, <3>1, <3>2
    <3>4. connPools'[n0] = {}
      <4>1. n0 \in Names
        BY <2>1 DEF PlaceInv
      <4> QED
        BY <2>2, <2>5, <4>1
    <3> QED
      BY <1>3, <2>4, <3>1, <3>3, <3>4
  <2>6. CASE connPools[n0] # {target}
    <3>1. hpc' = "check"
      BY <1>8, <2>6 DEF ReleaseDelete
    <3>2. \A n \in poolKeys : connPools[n] # {}
      BY <1>1, <1>2, <2>1
    <3>3. \A n \in poolKeys : connPools'[n] # {}
      <4>1. ASSUME NEW n \in poolKeys PROVE connPools'[n] # {}
        <5>1. CASE n = n0
          <6>1. connPools'[n] = connPools[n] \ {target} /\ connPools[n] # {target}
            BY <1>2, <2>2, <2>6, <5>1
          <6> QED
            BY <3>2, <6>1
        <5>2. CASE n # n0
          BY <1>2, <2>2, <3>2, <5>2
        <5> QED
          BY <5>1, <5>2
      <4> QED
        BY <4>1
    <3>4. KeysInv'
      BY <2>1, <3>3
    <3> QED
      BY <2>4, <3>1, <3>4
  <2> QED
    BY <2>5, <2>6
<1>9. CASE ReleaseDeleteKey
  BY <1>1, <1>2, <1>3, <1>9 DEF ReleaseDeleteKey
<1> QED
  BY <1>4, <1>5, <1>6, <1>7, <1>8, <1>9 DEF HealthTask, HandlesFailure, ReleaseGrpcPool

LEMMA RequestRegistry ==
  ASSUME RegistryInv, UNCHANGED <<config, boot, maps, pools, health>>
  PROVE  RegistryInv'
  BY DEF RegistryInv, NameOf, Adding

(***************************************************************************)
(* The registry before the health task runs.                               *)
(***************************************************************************)

\* A pool that the configuration asks for.
LEMMA WantedIs ==
  ASSUME TypeOK
  PROVE  \A p \in Wanted : /\ p \in Pools /\ p = <<p[1], p[2]>>
                           /\ p[1] \in 1 .. Len(config) /\ p[2] \in Nat \ {0}
                           /\ p[2] <= Len(config[p[1]].endpoints)
                           /\ Len(config[p[1]].endpoints) \in Nat
                           /\ config[p[1]].enabled /\ NameOf(p) \in Names
                           /\ \A m \in 1 .. p[2] : config[p[1]].endpoints[m]
<1>1. config \in Configs
  BY TypeFacts DEF Types
<1> SUFFICES ASSUME NEW p \in Wanted
             PROVE  /\ p \in Pools /\ p = <<p[1], p[2]>>
                    /\ p[1] \in 1 .. Len(config) /\ p[2] \in Nat \ {0}
                    /\ p[2] <= Len(config[p[1]].endpoints)
                    /\ Len(config[p[1]].endpoints) \in Nat
                    /\ config[p[1]].enabled /\ NameOf(p) \in Names
                    /\ \A m \in 1 .. p[2] : config[p[1]].endpoints[m]
  OBVIOUS
<1>2. /\ p \in PoolsOf(config) /\ config[p[1]].enabled
      /\ \A m \in 1 .. p[2] : config[p[1]].endpoints[m]
  BY DEF Wanted
<1>3. PICK j \in 1 .. Len(config) : \E m \in 1 .. Len(config[j].endpoints) : p = <<j, m>>
  BY <1>1, <1>2, PoolsAre
<1>4. PICK m \in 1 .. Len(config[j].endpoints) : p = <<j, m>>
  BY <1>3
<1>5. p \in Pools
  BY <1>1, <1>2, PoolsAre
<1>6. Len(config[j].endpoints) \in Nat /\ config[j].name \in Names
  BY <1>1, ConfigType
<1> QED
  BY <1>2, <1>4, <1>5, <1>6 DEF NameOf

\* Every step of InitGrpcConnPool but SetModel is through with the pools it was.
LEMMA ThroughStays ==
  ASSUME TypeOK, PlaceInv, InitGrpcConnPool
  PROVE  \/ SetModel
         \/ ipc' = "hung"
         \/ Through' = Through
<1>0. Types /\ Len(config) \in Nat
  BY TypeFacts, ConfigType DEF Types
<1>1. Wanted' = Wanted
  BY BootFirst DEF Wanted
<1> DEFINE In(p, kk, ee, w) == p[1] < kk \/ (w /\ p[1] = kk /\ p[2] < ee)
<1>2. /\ Through = {p \in Wanted : In(p, k, e, Working)}
      /\ Through' = {p \in Wanted : In(p, k', e', Working')}
  BY <1>1 DEF Through
<1>3. \A p \in Wanted : p[1] \in 1 .. Len(config) /\ p[2] \in Nat \ {0}
  BY WantedIs
<1>4. ASSUME \A p \in Wanted : In(p, k, e, Working) <=> In(p, k', e', Working')
      PROVE  Through' = Through
  BY <1>2, <1>4
<1>5. k \in Nat \ {0} /\ e \in Nat \ {0}
  BY <1>0 DEF Types
<1>6. CASE InitProxy
  <2>1. CASE k > Len(config)
    BY <1>0, <1>3, <1>4, <1>5, <1>6, <2>1 DEF InitProxy, Working
  <2>2. CASE k <= Len(config) /\ ~config[k].enabled
    <3>1. \A p \in Wanted : p[1] # k
      BY <2>2, WantedIs
    <3> QED
      BY <1>0, <1>3, <1>4, <1>5, <1>6, <2>2, <3>1 DEF InitProxy, Working
  <2>3. CASE k <= Len(config) /\ config[k].enabled
    BY <1>0, <1>3, <1>4, <1>5, <1>6, <2>3 DEF InitProxy, Working
  <2> QED
    BY <1>0, <1>5, <2>1, <2>2, <2>3
<1>7. CASE InitEndpointsEnd
  <2>1. /\ k \in 1 .. Len(config)
        /\ DOMAIN config[k].endpoints = 1 .. Len(config[k].endpoints)
        /\ Len(config[k].endpoints) \in Nat
    BY <1>0, <1>7, ConfigType DEF InitEndpointsEnd, PlaceInv, Working, Types
  <2>2. \A p \in Wanted : p[1] = k => p[2] < e
    <3> SUFFICES ASSUME NEW p \in Wanted, p[1] = k, ~(p[2] < e)
                 PROVE  FALSE
      OBVIOUS
    <3>1. e \in 1 .. p[2] /\ p[2] <= Len(config[k].endpoints)
      BY <1>3, <1>5, WantedIs
    <3>2. e \in DOMAIN config[k].endpoints
      BY <1>3, <1>5, <2>1, <3>1
    <3>3. config[k].endpoints[e]
      BY <3>1, WantedIs
    <3> QED
      BY <1>7, <3>2, <3>3 DEF InitEndpointsEnd, HasEndpoint
  <2> QED
    BY <1>3, <1>4, <1>5, <1>7, <2>2 DEF InitEndpointsEnd, Working
<1>8. CASE NewPool
  BY <1>4, <1>8 DEF NewPool, Working
<1>9. CASE NewPoolFails
  BY <1>9 DEF NewPoolFails
<1>10. CASE MakePools
  BY <1>4, <1>10 DEF MakePools, Working
<1>11. CASE MakeProxy
  BY <1>4, <1>11 DEF MakeProxy, Working
<1>12. CASE AddPool
  BY <1>4, <1>12 DEF AddPool, Working
<1> QED
  BY <1>6, <1>7, <1>8, <1>9, <1>10, <1>11, <1>12 DEF InitGrpcConnPool

\* SetModel is through with one more, the last so far.
LEMMA ThroughGrows ==
  ASSUME TypeOK, PlaceInv, InitGrpcConnPool, SetModel
  PROVE  /\ Through' = Through \cup {<<k, e>>}
         /\ \A p \in Through : p[1] <= k
<1>0. Types /\ k \in Nat \ {0} /\ e \in Nat \ {0}
  BY TypeFacts DEF Types
<1>1. Wanted' = Wanted
  BY BootFirst DEF Wanted
<1>2. k' = k /\ e' = e + 1 /\ Working /\ Working' /\ HasEndpoint
  BY DEF SetModel, PlaceInv, Working, Adding
<1>3. \A p \in Wanted : p = <<p[1], p[2]>> /\ p[1] \in Nat /\ p[2] \in Nat
  BY WantedIs
<1>4. <<k, e>> \in Wanted
  <2>1. config[k].enabled /\ \A m \in 1 .. e - 1 : config[k].endpoints[m]
    BY <1>2 DEF PlaceInv
  <2>2. \A m \in 1 .. e : config[k].endpoints[m]
    BY <1>0, <1>2, <2>1 DEF HasEndpoint
  <2>3. <<k, e>> \in PoolsOf(config)
    BY <1>2, AtAPool
  <2> QED
    BY <2>1, <2>2, <2>3 DEF Wanted
<1>5. Through' = {p \in Wanted : p[1] < k \/ (p[1] = k /\ p[2] < e + 1)}
  BY <1>1, <1>2 DEF Through
<1>6. Through = {p \in Wanted : p[1] < k \/ (p[1] = k /\ p[2] < e)}
  BY <1>2 DEF Through
<1>7. \A p \in Wanted : p[1] = k /\ p[2] = e <=> p = <<k, e>>
  BY <1>3
<1>8. \A p \in Wanted : p[2] < e + 1 <=> p[2] < e \/ p[2] = e
  BY <1>0, <1>3
<1> QED
  BY <1>0, <1>3, <1>4, <1>5, <1>6, <1>7, <1>8

\* The parts of BootInv.
InOpen == /\ open = Through \cup (IF Adding THEN {<<k, e>>} ELSE {})
          /\ status = open

InPools ==
  \A n \in Names :
    connPools[n] = {p \in Through : NameOf(p) = n}
                   \cup (IF ipc = "setModel" /\ Proxy.name = n THEN {<<k, e>>} ELSE {})

InKeys ==
  /\ poolKeys = {NameOf(p) : p \in Through}
                \cup (IF ipc \in {"makeProxy", "addPool", "setModel"} THEN {Proxy.name} ELSE {})
  /\ ipc \in {"makePools", "makeProxy"} => \A p \in Through : NameOf(p) # Proxy.name

InProxy ==
  \A p \in Through :
    \E q \in Through : /\ NameOf(q) = NameOf(p) /\ connProxy[NameOf(p)] = config[q[1]].model
                       /\ \A x \in Through : NameOf(x) = NameOf(p) => x[1] <= q[1]

LEMMA BootParts ==
  /\ BootInv <=> (hpc = "off" /\ ipc # "hung" => InOpen /\ InPools /\ InKeys /\ InProxy)
  /\ BootInv' <=> (hpc' = "off" /\ ipc' # "hung" => InOpen' /\ InPools' /\ InKeys' /\ InProxy')
  BY Zenon DEF BootInv, InOpen, InPools, InKeys, InProxy

LEMMA BootFills ==
  ASSUME TypeOK, PlaceInv, BootInv, InitGrpcConnPool
  PROVE  BootInv'
<1>0. Types
  BY TypeFacts
<1>1. hpc = "off" /\ UNCHANGED <<config, req, hpc, target>>
  BY BootFirst
<1> SUFFICES ASSUME ipc' # "hung"
             PROVE  InOpen' /\ InPools' /\ InKeys' /\ InProxy'
  BY BootParts
<1>2. ipc # "hung"
  BY DEF InitGrpcConnPool, InitProxy, InitEndpointsEnd, NewPool, NewPoolFails, MakePools,
         MakeProxy, AddPool, SetModel
<1>3. InOpen /\ InPools /\ InKeys /\ InProxy
  BY <1>1, <1>2, BootParts
<1>4. SetModel \/ Through' = Through
  BY ThroughStays
<1>5. Working => /\ k \in 1 .. Len(config) /\ config[k].name \in Names
                 /\ NameOf(<<k, e>>) = config[k].name
  BY AtAPool
<1>6. /\ \A p \in Through : NameOf(p) \in Names
      /\ connPools \in [Names -> SUBSET Pools]
      /\ connProxy \in [Names -> {"absent", "empty"} \cup Models]
  BY <1>0, WantedIs DEF Types, Through
<1> USE DEF NameOf
<1>7. CASE InitProxy
  <2>1. Through' = Through /\ ipc' \in {"proxy", "endpoint", "done"} /\ ipc = "proxy"
    BY <1>4, <1>7 DEF InitProxy, SetModel
  <2>2. UNCHANGED <<maps, pools>>
    BY <1>7 DEF InitProxy
  <2>3. InOpen'
    BY <1>3, <2>1, <2>2 DEF InOpen, Adding
  <2>4. InPools'
    BY <1>1, <1>3, <2>1, <2>2 DEF InPools
  <2>5. InKeys'
    BY <1>1, <1>3, <2>1, <2>2 DEF InKeys
  <2>6. InProxy'
    BY <1>1, <1>3, <2>1, <2>2 DEF InProxy
  <2> QED
    BY <2>3, <2>4, <2>5, <2>6
<1>8. CASE InitEndpointsEnd
  <2>1. Through' = Through /\ ipc' = "proxy" /\ ipc = "endpoint" /\ UNCHANGED <<maps, pools>>
    BY <1>4, <1>8 DEF InitEndpointsEnd, SetModel
  <2>3. InOpen'
    BY <1>3, <2>1 DEF InOpen, Adding
  <2>4. InPools'
    BY <1>1, <1>3, <2>1 DEF InPools
  <2>5. InKeys'
    BY <1>1, <1>3, <2>1 DEF InKeys
  <2>6. InProxy'
    BY <1>1, <1>3, <2>1 DEF InProxy
  <2> QED
    BY <2>3, <2>4, <2>5, <2>6
<1>9. CASE NewPool
  <2>1. /\ Through' = Through /\ ipc = "endpoint" /\ UNCHANGED <<maps, k, e>>
        /\ open' = open \cup {<<k, e>>} /\ status' = status \cup {<<k, e>>}
        /\ ipc' = IF config[k].name \in poolKeys THEN "addPool" ELSE "makePools"
    BY <1>4, <1>9 DEF NewPool, SetModel
  <2>3. InOpen'
    BY <1>3, <2>1 DEF InOpen, Adding
  <2>4. InPools'
    BY <1>1, <1>3, <2>1 DEF InPools
  <2>5. InKeys'
    BY <1>1, <1>3, <2>1 DEF InKeys
  <2>6. InProxy'
    BY <1>1, <1>3, <2>1 DEF InProxy
  <2> QED
    BY <2>3, <2>4, <2>5, <2>6
<1>10. CASE NewPoolFails
  BY <1>10 DEF NewPoolFails
<1>11. CASE MakePools
  <2>1. /\ Through' = Through /\ ipc = "makePools" /\ ipc' = "makeProxy"
        /\ UNCHANGED <<k, e, connPools, connProxy, pools>>
        /\ poolKeys' = poolKeys \cup {config[k].name}
    BY <1>4, <1>11 DEF MakePools, SetModel
  <2>3. InOpen'
    BY <1>3, <2>1 DEF InOpen, Adding
  <2>4. InPools'
    BY <1>1, <1>3, <2>1 DEF InPools
  <2>5. InKeys'
    BY <1>1, <1>3, <2>1 DEF InKeys
  <2>6. InProxy'
    BY <1>1, <1>3, <2>1 DEF InProxy
  <2> QED
    BY <2>3, <2>4, <2>5, <2>6
<1>12. CASE MakeProxy
  <2>1. /\ Through' = Through /\ ipc = "makeProxy" /\ ipc' = "addPool"
        /\ UNCHANGED <<k, e, poolKeys, connPools, pools>>
        /\ connProxy' = [connProxy EXCEPT ![config[k].name] = "empty"]
    BY <1>4, <1>12 DEF MakeProxy, SetModel
  <2>2. \A p \in Through : connProxy'[NameOf(p)] = connProxy[NameOf(p)]
    BY <1>3, <1>6, <2>1 DEF InKeys
  <2>3. InOpen'
    BY <1>3, <2>1 DEF InOpen, Adding
  <2>4. InPools'
    BY <1>1, <1>3, <2>1 DEF InPools
  <2>5. InKeys'
    BY <1>1, <1>3, <2>1 DEF InKeys
  <2>6. InProxy'
    BY <1>1, <1>3, <2>1, <2>2 DEF InProxy
  <2> QED
    BY <2>3, <2>4, <2>5, <2>6
<1>13. CASE AddPool
  <2>1. /\ Through' = Through /\ ipc = "addPool" /\ ipc' = "setModel"
        /\ UNCHANGED <<k, e, poolKeys, connProxy, pools>>
        /\ connPools' = [connPools EXCEPT ![config[k].name] = @ \cup {<<k, e>>}]
    BY <1>4, <1>13 DEF AddPool, SetModel
  <2>2. config[k].name \in Names
    BY <1>5, <2>1 DEF Working
  <2>3. InOpen'
    BY <1>3, <2>1 DEF InOpen, Adding
  <2>4. InPools'
    BY <1>1, <1>3, <1>6, <2>1, <2>2 DEF InPools
  <2>5. InKeys'
    BY <1>1, <1>3, <2>1 DEF InKeys
  <2>6. InProxy'
    BY <1>1, <1>3, <2>1 DEF InProxy
  <2> QED
    BY <2>3, <2>4, <2>5, <2>6
<1>14. CASE SetModel
  <2>1. /\ ipc = "setModel" /\ ipc' = "endpoint" /\ k' = k
        /\ UNCHANGED <<poolKeys, connPools, pools>>
        /\ connProxy' = [connProxy EXCEPT ![config[k].name] = config[k].model]
    BY <1>14 DEF SetModel
  <2>2. Through' = Through \cup {<<k, e>>} /\ \A p \in Through : p[1] <= k
    BY <1>14, ThroughGrows
  <2>3. config[k].name \in Names /\ NameOf(<<k, e>>) = config[k].name /\ k \in Nat
    BY <1>0, <1>5, <2>1 DEF Working, Types
  <2>4. InOpen'
    BY <1>3, <2>1, <2>2 DEF InOpen, Adding
  <2>5. InPools'
    <3>1. ASSUME NEW n \in Names
          PROVE  connPools'[n] = {p \in Through' : NameOf(p) = n}
      BY <1>3, <2>1, <2>2, <2>3 DEF InPools
    <3> QED
      BY <1>1, <2>1, <3>1 DEF InPools
  <2>6. InKeys'
    <3>1. {NameOf(p) : p \in Through'} = {NameOf(p) : p \in Through} \cup {config[k].name}
      BY <2>2, <2>3
    <3> QED
      BY <1>1, <1>3, <2>1, <3>1 DEF InKeys
  <2>7. ASSUME NEW p \in Through'
        PROVE  \E q \in Through' :
                 /\ NameOf(q) = NameOf(p) /\ connProxy'[NameOf(p)] = config[q[1]].model
                 /\ \A x \in Through' : NameOf(x) = NameOf(p) => x[1] <= q[1]
    <3>1. CASE NameOf(p) = config[k].name
      <4>1. connProxy'[NameOf(p)] = config[k].model
        BY <1>6, <2>1, <2>3, <3>1
      <4>2. \A x \in Through' : x[1] <= k
        BY <2>2, <2>3
      <4>3. <<k, e>> \in Through'
        BY <2>2
      <4> QED
        BY <2>3, <3>1, <4>1, <4>2, <4>3
    <3>2. CASE NameOf(p) # config[k].name
      <4>1. p \in Through
        BY <2>2, <2>3, <3>2
      <4>2. connProxy'[NameOf(p)] = connProxy[NameOf(p)]
        BY <1>6, <2>1, <2>3, <3>2, <4>1
      <4>3. PICK q \in Through :
              /\ NameOf(q) = NameOf(p) /\ connProxy[NameOf(p)] = config[q[1]].model
              /\ \A x \in Through : NameOf(x) = NameOf(p) => x[1] <= q[1]
        BY <1>3, <4>1 DEF InProxy
      <4> QED
        BY <2>2, <2>3, <3>2, <4>2, <4>3
    <3> QED
      BY <3>1, <3>2
  <2>8. InProxy'
    BY <1>1, <2>7 DEF InProxy
  <2> QED
    BY <2>4, <2>5, <2>6, <2>8
<1> QED
  BY <1>7, <1>8, <1>9, <1>10, <1>11, <1>12, <1>13, <1>14 DEF InitGrpcConnPool

(***************************************************************************)
(* The pool that a request has picked.                                     *)
(***************************************************************************)

\* What the steps of a handler do when they do not only move it on.
LEMMA Picks ==
  ASSUME TypeOK, PlaceInv, NEW r \in Requests,
         RequestStep(Arrive(r)) \/ RequestStep(HandlerOf(r)),
         ~crashed', req'[r].at = "index"
  PROVE  req'[r].picked \in connPools[req'[r].name]
<1>1. req \in [Requests -> Requesting] /\ req[r] \in Requesting
  BY TypeFacts DEF Types
<1> DEFINE Goal == req'[r].picked \in connPools[req'[r].name]
<1>2. ~DirectorError(r)
  <2>1. ASSUME NEW q, req' = [req EXCEPT ![r] = q], q.at # "index" PROVE FALSE
    BY <1>1, <2>1
  <2>2. Retried(req[r]).at = "director" /\ Idle.at = "idle"
    BY <1>1 DEF Retried, Idle, Requesting
  <2> QED
    BY <2>1, <2>2 DEF DirectorError
<1>3. ~Arrive(r)
  <2> SUFFICES ASSUME Arrive(r) PROVE FALSE
    OBVIOUS
  <2>1. PICK n \in Names \cup {NoName, Internal} :
          req' = [req EXCEPT ![r].at = "director", ![r].name = n]
    BY DEF Arrive
  <2>2. req'[r].at = "director"
    BY <1>1, <2>1 DEF Requesting
  <2> QED
    BY <2>2
<1>4. ~Route(r)
  <2> SUFFICES ASSUME Route(r) PROVE FALSE
    OBVIOUS
  <2>1. \/ req' = [req EXCEPT ![r].at = "pools", ![r].name = DEFAULT_PROXY]
        \/ req' = [req EXCEPT ![r].at = "pools"]
    BY <1>2 DEF Route
  <2>2. req'[r].at = "pools"
    BY <1>1, <2>1 DEF Requesting
  <2> QED
    BY <2>2
<1>5. ~ReadPools(r) /\ ~ReadModel(r) /\ ~Index(r) /\ ~AcquireOk(r)
  BY <1>1 DEF ReadPools, ReadModel, Index, AcquireOk, Requesting
<1>6. ~AcquireNil(r) /\ ~AcquireFails(r) /\ ~Finish(r)
  BY <1>1, <1>2 DEF AcquireNil, AcquireFails, Finish, Idle, Requesting
<1>7. Balance(r)
  BY <1>3, <1>4, <1>5, <1>6 DEF HandlerOf
<1>8. PICK p \in Eligible(req[r]) : req' = [req EXCEPT ![r].at = "index", ![r].picked = p]
  <2>1. ~(~req[r].seen \/ connPools[req[r].name] = {})
    BY <1>1, <1>7 DEF Balance, Requesting
  <2>2. Eligible(req[r]) # {}
    BY <1>7, <2>1 DEF Balance
  <2> QED
    BY <1>7, <2>1, <2>2 DEF Balance
<1>9. p \in connPools[req[r].name]
  BY DEF Eligible
<1>10. req'[r].picked = p /\ req'[r].name = req[r].name
  BY <1>1, <1>8 DEF Requesting
<1> QED
  BY <1>9, <1>10

LEMMA RequestPicked ==
  ASSUME TypeOK, PlaceInv, PickedInv, ~crashed, NEW r \in Requests,
         RequestStep(Arrive(r)) \/ RequestStep(HandlerOf(r))
  PROVE  PickedInv'
<1>1. UNCHANGED <<connPools, hpc>> /\ \A s \in Requests \ {r} : req'[s] = req[s]
  BY RequestPlace
<1> SUFFICES ASSUME hpc = "off", ~crashed', NEW s \in Requests, req'[s].at = "index"
             PROVE  req'[s].picked \in connPools[req'[s].name]
  BY <1>1 DEF PickedInv
<1>2. CASE s = r
  BY <1>2, Picks
<1>3. CASE s # r
  BY <1>1, <1>3 DEF PickedInv
<1> QED
  BY <1>2, <1>3

LEMMA BootPicked ==
  ASSUME TypeOK, PlaceInv, PickedInv, ~crashed, InitGrpcConnPool
  PROVE  PickedInv'
<1>1. hpc = "off" /\ UNCHANGED <<req, hpc, crashed>>
  BY BootFirst
<1>2. connPools \in [Names -> SUBSET Pools]
  BY TypeFacts DEF Types
<1>3. \A n \in Names : connPools[n] \subseteq connPools'[n]
  <2>1. CASE AddPool
    BY <1>2, <2>1 DEF AddPool
  <2>2. CASE ~AddPool
    BY <2>2 DEF InitGrpcConnPool, InitProxy, InitEndpointsEnd, NewPool, NewPoolFails, MakePools,
                MakeProxy, SetModel
  <2> QED
    BY <2>1, <2>2
<1>4. \A r \in Requests : req[r].at = "index" => req[r].name \in Names
  BY DEF PlaceInv
<1> QED
  BY <1>1, <1>3, <1>4 DEF PickedInv

(***************************************************************************)
(* The theorems.                                                           *)
(***************************************************************************)

LEMMA InitInv == Init => IInv
<1> SUFFICES ASSUME Init PROVE IInv
  OBVIOUS
<1>1. TypeOK
  BY InitType
<1>2. PlaceInv
  BY DEF Init, PlaceInv, Working, Adding, Idle
<1>3. RegistryInv
  BY DEF Init, RegistryInv, Adding
<1>4. Through = {}
  <2>1. \A p \in Wanted : p[1] \in Nat \ {0}
    BY <1>1, WantedIs, PoolIsPair
  <2> QED
    BY <2>1 DEF Through, Working, Init
<1>5. BootInv
  BY <1>4 DEF Init, BootInv, Adding
<1>6. PickedInv
  BY DEF Init, PickedInv, Idle
<1> QED
  BY <1>1, <1>2, <1>3, <1>5, <1>6 DEF IInv

LEMMA NextInv == IInv /\ [Next]_vars => IInv'
<1> SUFFICES ASSUME IInv, [Next]_vars PROVE IInv'
  OBVIOUS
<1>0. TypeOK /\ PlaceInv /\ RegistryInv /\ BootInv /\ PickedInv
  BY DEF IInv
<1>1. CASE ~crashed /\ InitGrpcConnPool
  BY <1>0, <1>1, BootType, BootPlace, BootRegistry, BootFills, BootPicked DEF IInv
<1>2. ASSUME ~crashed, NEW r \in Requests,
             RequestStep(Arrive(r)) \/ RequestStep(HandlerOf(r))
      PROVE  IInv'
  <2>1. UNCHANGED <<config, boot, maps, pools, health>>
    BY <1>2
  <2>2. RegistryInv'
    BY <1>0, <2>1, RequestRegistry
  <2>3. Through' = Through
    BY <2>1 DEF Through, Wanted, Working
  <2>4. BootInv'
    BY <1>0, <2>1, <2>3 DEF BootInv, Adding, NameOf
  <2> QED
    BY <1>0, <1>2, <2>2, <2>4, RequestType, RequestPlace, RequestPicked DEF IInv
<1>3. CASE HealthStep(HealthTask)
  <2>1. hpc' # "off"
    BY <1>0, <1>3, HealthLast
  <2>2. BootInv' /\ PickedInv'
    BY <2>1 DEF BootInv, PickedInv
  <2> QED
    BY <1>0, <1>3, <2>2, HealthType, HealthPlace, HealthRegistry DEF IInv
<1>4. CASE MapRaceNoticed \/ NoPortPanics \/ UNCHANGED vars
  <2>1. UNCHANGED <<config, boot, maps, pools, req, health>> /\ (crashed' \/ crashed' = crashed)
    BY <1>4 DEF MapRaceNoticed, NoPortPanics, vars
  <2>2. TypeOK'
    <3>1. crashed' \in BOOLEAN
      BY <1>0, <1>4, TypeFacts DEF MapRaceNoticed, NoPortPanics, vars, Types
    <3> QED
      BY <1>0, <2>1, <3>1, TypeFacts DEF Types
  <2>3. PlaceInv'
    BY <1>0, <2>1 DEF PlaceInv, Working, Adding, HasEndpoint, NameOf
  <2>4. RegistryInv'
    BY <1>0, <2>1, RequestRegistry
  <2>5. Through' = Through
    BY <2>1 DEF Through, Wanted, Working
  <2>6. BootInv'
    BY <1>0, <2>1, <2>5 DEF BootInv, Adding, NameOf
  <2>7. PickedInv'
    BY <1>0, <2>1 DEF PickedInv
  <2> QED
    BY <2>2, <2>3, <2>4, <2>6, <2>7 DEF IInv
<1> QED
  BY <1>1, <1>2, <1>3, <1>4 DEF Next

\* Everything above, in every reachable state.
THEOREM Invariance == Spec => []IInv
  BY InitInv, NextInv, PTL DEF Spec

\* Every variable keeps to its type, whatever the proxy list is: the loops of
\* InitGrpcConnPool (pool_instance.go:52-118) leave no pool without its proxy, the
\* retries of a handler stay within RetryTimes.
THEOREM TypeCorrect == Spec => []TypeOK
<1>1. IInv => TypeOK
  BY DEF IInv
<1> QED
  BY <1>1, Invariance, PTL

\* Between two releases the registry offers open pools only, for every proxy list
\* and any number of requests in flight (ReleaseGrpcPool, pool_instance.go:138-148).
THEOREM OffersOnlyOpenPools == Spec => []RegistryOffersOpenPools
<1>1. IInv => RegistryOffersOpenPools
  <2> SUFFICES ASSUME IInv, hpc \in {"off", "check", "recheck"}
               PROVE  OffersOpenPools
    BY DEF RegistryOffersOpenPools
  <2>1. \A n \in Names : connPools[n] \subseteq open \cap status
    BY DEF IInv, RegistryInv
  <2>2. ipc \in {"proxy", "done"} => \A n \in poolKeys : connPools[n] # {}
    BY DEF IInv, RegistryInv
  <2> QED
    BY <2>1, <2>2 DEF OffersOpenPools
<1> QED
  BY <1>1, Invariance, PTL

\* Once the loops are through, everything Wanted is in the registry.
LEMMA UpIsFull ==
  ASSUME IInv, Up
  PROVE  /\ open = Wanted /\ status = Wanted
         /\ \A n \in Names : /\ connPools[n] = {p \in Wanted : NameOf(p) = n}
                             /\ Configured(n) = {p \in Wanted : NameOf(p) = n}
         /\ poolKeys = {NameOf(p) : p \in Wanted}
         /\ \A p \in Wanted :
              \E q \in Wanted : /\ NameOf(q) = NameOf(p)
                                /\ connProxy[NameOf(p)] = config[q[1]].model
                                /\ \A x \in Wanted : NameOf(x) = NameOf(p) => x[1] <= q[1]
<1>0. TypeOK /\ Types
  BY TypeFacts DEF IInv
<1>1. ipc = "done" /\ hpc = "off" /\ k > Len(config)
  BY DEF Up, IInv, PlaceInv
<1>2. InOpen /\ InPools /\ InKeys /\ InProxy
  BY <1>1, BootParts DEF IInv
<1>3. Through = Wanted
  <2>1. \A p \in Wanted : p[1] < k
    <3>1. Len(config) \in Nat /\ k \in Nat
      BY <1>0, ConfigType DEF Types
    <3>2. \A p \in Wanted : p[1] \in 1 .. Len(config)
      BY <1>0, WantedIs
    <3> QED
      BY <1>1, <3>1, <3>2
  <2> QED
    BY <2>1 DEF Through
<1>4. ASSUME NEW n \in Names
      PROVE  Configured(n) = {p \in Wanted : NameOf(p) = n}
  <2>1. ASSUME NEW p \in Wanted, NameOf(p) = n
        PROVE  p \in Configured(n)
    <3>1. /\ p \in Pools /\ p[1] \in 1 .. Len(config) /\ config[p[1]].enabled
          /\ p[2] <= Len(config[p[1]].endpoints)
          /\ \A m \in 1 .. p[2] : config[p[1]].endpoints[m]
      BY <1>0, WantedIs
    <3>2. p[1] <= Len(config)
      BY <3>1
    <3> QED
      BY <2>1, <3>1, <3>2 DEF Configured, NameOf
  <2>2. ASSUME NEW p \in Configured(n)
        PROVE  p \in Wanted /\ NameOf(p) = n
    <3>1. /\ p \in Pools /\ p[1] <= Len(config) /\ config[p[1]].enabled /\ config[p[1]].name = n
          /\ p[2] <= Len(config[p[1]].endpoints)
          /\ \A m \in 1 .. p[2] : config[p[1]].endpoints[m]
      BY DEF Configured
    <3>2. p = <<p[1], p[2]>> /\ p[1] \in Nat \ {0} /\ p[2] \in Nat \ {0}
      BY <3>1, PoolIsPair
    <3>3. Len(config) \in Nat /\ config \in Configs
      BY <1>0, ConfigType DEF Types
    <3>4. p[1] \in 1 .. Len(config)
      BY <3>1, <3>2, <3>3
    <3>5. p[2] \in 1 .. Len(config[p[1]].endpoints)
      BY <3>1, <3>2, <3>3, <3>4, ConfigType
    <3>6. p \in PoolsOf(config)
      BY <3>2, <3>3, <3>4, <3>5, PoolsAre
    <3> QED
      BY <3>1, <3>6 DEF Wanted, NameOf
  <2> QED
    BY <2>1, <2>2
<1>5. open = Wanted /\ status = Wanted
  BY <1>1, <1>2, <1>3 DEF InOpen, Adding
<1>6. \A n \in Names : connPools[n] = {p \in Wanted : NameOf(p) = n}
  BY <1>1, <1>2, <1>3 DEF InPools
<1>7. poolKeys = {NameOf(p) : p \in Wanted}
  BY <1>1, <1>2, <1>3 DEF InKeys
<1> QED
  BY <1>2, <1>3, <1>4, <1>5, <1>6, <1>7, Zenon DEF InProxy

\* When InitGrpcConnPool is through, the registry is what the proxy list says, for
\* every proxy list: also with proxies of the same name, disabled ones, and ones
\* whose endpoints are cut off at a malformed entry (pool_instance.go:150-190).
THEOREM RegistryIsTheConfiguration == Spec => []RegistryMatchesConfig
<1>1. IInv => RegistryMatchesConfig
  <2> SUFFICES ASSUME IInv, Up
               PROVE  /\ poolKeys = {n \in Names : Configured(n) # {}}
                      /\ \A n \in Names : connPools[n] = Configured(n)
                      /\ UNION {connPools[n] : n \in Names} = open /\ status = open
                      /\ \A n \in poolKeys :
                           \E p \in Configured(n) : /\ connProxy[n] = config[p[1]].model
                                                    /\ \A q \in Configured(n) : q[1] <= p[1]
    BY DEF RegistryMatchesConfig
  <2>1. \A p \in Wanted : NameOf(p) \in Names
    BY WantedIs DEF IInv
  <2>2. /\ open = Wanted /\ status = Wanted
        /\ poolKeys = {NameOf(p) : p \in Wanted}
        /\ \A n \in Names : connPools[n] = Configured(n)
        /\ \A n \in Names : Configured(n) = {p \in Wanted : NameOf(p) = n}
    BY UpIsFull
  <2>3. poolKeys = {n \in Names : Configured(n) # {}}
    BY <2>1, <2>2
  <2>4. UNION {connPools[n] : n \in Names} = open
    BY <2>1, <2>2
  <2>5. ASSUME NEW n \in poolKeys
        PROVE  \E p \in Configured(n) : /\ connProxy[n] = config[p[1]].model
                                        /\ \A q \in Configured(n) : q[1] <= p[1]
    <3>1. PICK p \in Wanted : n = NameOf(p)
      BY <2>2
    <3>2. PICK q \in Wanted : /\ NameOf(q) = NameOf(p)
                              /\ connProxy[NameOf(p)] = config[q[1]].model
                              /\ \A x \in Wanted : NameOf(x) = NameOf(p) => x[1] <= q[1]
      BY UpIsFull
    <3>3. Configured(n) = {x \in Wanted : NameOf(x) = n}
      BY <2>1, <2>2, <3>1
    <3> QED
      BY <3>1, <3>2, <3>3
  <2> QED
    BY <2>2, <2>3, <2>4, <2>5
<1> QED
  BY <1>1, Invariance, PTL

\* While the registry is full and nothing is released, no map is being written.
LEMMA NoRaceWhenUp == ASSUME Up PROVE ~MapRace
  BY DEF Up, MapRace, GetConnPoolMetricsDataRaces, WritesPools, WritesPoolsOf, WritesProxyOf

\* A request for a configured proxy finds the proxy's model and its pools.
LEMMA ConfiguredIsThere ==
  ASSUME IInv, Up, NEW n \in Names, Configured(n) # {}
  PROVE  connProxy[n] \in Models
<1>1. PICK p \in Wanted : NameOf(p) = n
  BY UpIsFull
<1>2. PICK q \in Wanted : connProxy[n] = config[q[1]].model
  BY <1>1, UpIsFull
<1>3. q[1] \in 1 .. Len(config) /\ config \in Configs
  BY WantedIs, TypeFacts DEF IInv, Types
<1> QED
  BY <1>2, <1>3, ConfigType

\* A step of a handler ends the process, once the registry is full and while nothing
\* is released, only where it reads the model of a proxy that is not configured.
LEMMA OnlyUnconfigured ==
  ASSUME IInv, Up, ~crashed, NEW r \in Requests,
         RequestStep(Arrive(r)) \/ RequestStep(HandlerOf(r)), crashed'
  PROVE  req[r].at = "model" /\ req'[r] # req[r] /\ Configured(req[r].name) = {}
<1>0. TypeOK /\ PlaceInv /\ RegistryInv /\ PickedInv /\ hpc = "off"
  BY DEF IInv, Up
<1>1. req \in [Requests -> Requesting] /\ req[r] \in Requesting
  BY <1>0, TypeFacts DEF Types
<1>2. CASE ReadModel(r)
  <2>1. req[r].at = "model" /\ connProxy[req[r].name] \notin Models
    BY <1>2 DEF ReadModel
  <2>2. req[r].name \in Names
    BY <1>0, <2>1 DEF PlaceInv
  <2>3. Configured(req[r].name) = {}
    BY <2>1, <2>2, ConfiguredIsThere
  <2>4. req'[r].at = "balance"
    BY <1>1, <1>2, <2>1 DEF ReadModel, Requesting
  <2> QED
    BY <2>1, <2>3, <2>4
<1>3. ~Balance(r)
  <2> SUFFICES ASSUME Balance(r) PROVE FALSE
    OBVIOUS
  <2>1. req[r].at = "balance" /\ req[r].name \in Names
    BY <1>0 DEF Balance, PlaceInv
  <2>2. connPools[req[r].name] \subseteq status
    BY <1>0, <2>1 DEF RegistryInv
  <2>3. Eligible(req[r]) = connPools[req[r].name]
    BY <2>2 DEF Eligible
  <2> QED
    BY <2>3 DEF Balance
<1>4. ~Index(r)
  BY <1>0 DEF Index, PickedInv
<1>5. UNCHANGED crashed \/ ReadModel(r) \/ Balance(r) \/ Index(r)
  BY DEF Arrive, HandlerOf, Route, ReadPools, AcquireNil, AcquireOk, AcquireFails,
         Finish
<1> QED
  BY <1>2, <1>3, <1>4, <1>5

\* Once InitGrpcConnPool is through and while nothing is released, a request for a
\* configured proxy never ends the process: not in the type assertion on the proxy's
\* model, not in the random choice of a pool, not at the pool it has chosen, and no
\* map is written under it (director.go:40-116).
THEOREM ConfiguredAreSafe == Spec => ConfiguredRequestsAreSafe
<1>1. IInv /\ [Next]_vars =>
        [Up /\ crashed' =>
           \E r \in Requests :
             req[r].at = "model" /\ req'[r] # req[r] /\ Configured(req[r].name) = {}]_vars
  <2> SUFFICES ASSUME IInv, Next, Up, crashed'
               PROVE  \E r \in Requests :
                        req[r].at = "model" /\ req'[r] # req[r] /\ Configured(req[r].name) = {}
    OBVIOUS
  <2>0. ~crashed
    BY DEF Next
  <2>1. ~MapRaceNoticed /\ ~NoPortPanics
    BY NoRaceWhenUp DEF MapRaceNoticed, NoPortPanics, Up
  <2>2. ~InitGrpcConnPool
    BY <2>0 DEF InitGrpcConnPool
  <2>3. ~HealthStep(HealthTask)
    BY <2>0
  <2>4. PICK r \in Requests : RequestStep(Arrive(r)) \/ RequestStep(HandlerOf(r))
    BY <2>1, <2>2, <2>3 DEF Next
  <2> QED
    BY <2>0, <2>4, OnlyUnconfigured
<1> QED
  BY <1>1, Invariance, PTL DEF Spec, ConfiguredRequestsAreSafe
==============================================================================
