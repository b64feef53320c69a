------------------------------- MODULE Gateway -------------------------------
(***************************************************************************)
(* The gateway process around the connection pools: the plugins main       *)
(* starts (src/server.go, src/pkg/plugins/proxy), the registry of pools    *)
(* that InitGrpcConnPool fills and the health task empties                 *)
(* (src/pkg/plugins/pool/grpc/pool_instance.go), and the director that     *)
(* picks a pool for a request (director.go).                               *)
(*                                                                         *)
(* connPools, connProxy and defaultProxy are package variables without a   *)
(* lock: the gRPC server accepts requests while they are being filled.  A  *)
(* panic in a request handler, and the runtime's detection of a map read   *)
(* during a map write, end the process (crashed).  A panic in a plugin     *)
(* does not: its deferred send on a nil channel blocks first (hung).       *)
(* What Acquire does with the picked pool is ClientPool's matter; here it  *)
(* returns a connection or an error, or it does not return (pool.go:142).  *)
(*                                                                         *)
(* Nothing in the repository starts checkGRPCSererHealthTask.  The model   *)
(* covers the process as it is (hpc off) and the process in which the task *)
(* is started after InitGrpcConnPool.                                      *)
(***************************************************************************)
EXTENDS Integers, Sequences, FiniteSets

CONSTANTS
  Configs,       \* values of proxy_list: sequences of records with the fields
                 \* name, enabled, model, endpoints (TRUE: well formed)
  Requests,      \* request handlers
  RetryTimes,    \* grpcRetryTimesInt
  PoolMayFail,   \* may newGrpcPool fail?
  CheckType,     \* GRPC_DIAL_CHECK_SVC_TYPE
  Rechecks       \* bound on the checks after a failed one, 5 in the code

DEFAULT_PROXY == "default"

Names == UNION {{cfg[j].name : j \in 1 .. Len(cfg)} : cfg \in Configs}

Models == {"minConn", "randomWeight"}

ASSUME GatewayAssumption ==
  /\ Configs \subseteq Seq([name : Names, enabled : BOOLEAN, model : Models,
                            endpoints : Seq(BOOLEAN)])
  /\ RetryTimes \in Nat /\ PoolMayFail \in BOOLEAN /\ Rechecks \in Nat \ {0}

VARIABLES
  config,        \* routerViper's proxy_list
  defaultProxy,
  poolKeys,      \* the keys of connPools
  connPools,     \* the pools in connPools[name]
  connProxy,     \* connProxy[name]["proxyModel"], or what there is of it
  open,          \* pools with pool.clients # nil
  status,        \* pools with pool.status
  ipc, k, e,     \* InitGrpcConnPool: next statement, proxy and endpoint index
  req,           \* each request handler: at (its next statement), name (the proxy
                 \* it is for), seen (connPools[name], as the director read it, is
                 \* not nil), model (as the director read it), picked (the pool
                 \* balancePool returned), tries (calls of the director it retried)
  hpc, target,   \* the health task: next statement, the pool it is at and
  i,             \* its loop counter
  crashed        \* the process has ended

boot == <<defaultProxy, ipc, k, e>>
maps == <<poolKeys, connPools, connProxy>>
pools == <<open, status>>
health == <<hpc, target, i>>
vars == <<config, boot, maps, pools, req, health, crashed>>

\* A pool is named by the positions of its proxy and its endpoint in the
\* configuration; its map key is a fresh xid.
PoolsOf(cfg) == UNION {{<<j, m>> : m \in 1 .. Len(cfg[j].endpoints)} : j \in 1 .. Len(cfg)}

Pools == UNION {PoolsOf(cfg) : cfg \in Configs}

NoPool == <<0, 0>>

NoName == "none"

\* The name of a request for one of the gateway's own methods, whatever proxy it
\* asks for.
Internal == "/ivc.v1.internal"

TypeOK ==
  /\ config \in Configs /\ {defaultProxy, crashed} \subseteq BOOLEAN
  /\ poolKeys \subseteq Names
  /\ connPools \in [Names -> SUBSET Pools]
  /\ connProxy \in [Names -> {"absent", "empty"} \cup Models]
  /\ open \subseteq Pools /\ status \subseteq Pools
  /\ ipc \in {"proxy", "endpoint", "makePools", "makeProxy", "addPool", "setModel",
              "done", "hung"}
  /\ k \in Nat \ {0} /\ e \in Nat \ {0}
  /\ req \in [Requests -> [at : {"idle", "director", "pools", "model", "balance", "index",
                                "acquire", "stream"},
                          name : Names \cup {NoName, Internal}, seen : BOOLEAN,
                          model : {"none"} \cup Models, picked : Pools \cup {NoPool},
                          tries : 0 .. RetryTimes]]
  /\ hpc \in {"off", "check", "recheck", "close", "delete", "deleteKey"}
  /\ target \in Pools \cup {NoPool} /\ i \in 0 .. Rechecks - 1

------------------------------------------------------------------------------
(* InitGrpcConnPool, run by the plugin VsServer.                           *)

Proxy == config[k]

\* There is a next endpoint and it has a weight.
HasEndpoint == e \in DOMAIN Proxy.endpoints /\ Proxy.endpoints[e]

NameOf(p) == config[p[1]].name

\* The next proxy; the only one, if it has the default name, gets every request.
InitProxy ==
  /\ ipc = "proxy"
  /\ IF k > Len(config)
       THEN ipc' = "done" /\ UNCHANGED <<k, e, defaultProxy>>
       ELSE IF ~Proxy.enabled
         THEN k' = k + 1 /\ UNCHANGED <<ipc, e, defaultProxy>>
         ELSE /\ ipc' = "endpoint" /\ e' = 1 /\ UNCHANGED k
              /\ defaultProxy' = (defaultProxy \/
                                    (Len(config) = 1 /\ Proxy.name = DEFAULT_PROXY))
  /\ UNCHANGED <<maps, pools>>

\* Variant: `continue' for `break' at an endpoint without a weight.
SkipEndpoint ==
  IF e > Len(Proxy.endpoints) THEN ipc' = "proxy" /\ k' = k + 1 /\ UNCHANGED e
                              ELSE e' = e + 1 /\ UNCHANGED <<ipc, k>>

LeaveEndpoints == ipc' = "proxy" /\ k' = k + 1 /\ UNCHANGED e

\* The endpoints of a proxy are read until one has no weight.
InitEndpointsEnd ==
  /\ ipc = "endpoint" /\ ~HasEndpoint
  /\ LeaveEndpoints
  /\ UNCHANGED <<defaultProxy, maps, pools>>

\* newGrpcPool succeeds; the proxy may be in connPools already.
NewPool ==
  /\ ipc = "endpoint" /\ HasEndpoint
  /\ open' = open \cup {<<k, e>>} /\ status' = status \cup {<<k, e>>}
  /\ ipc' = IF Proxy.name \in poolKeys THEN "addPool" ELSE "makePools"
  /\ UNCHANGED <<defaultProxy, k, e, maps>>

\* newGrpcPool fails: the error is logged, the nil pool dereferenced, and the
\* panicking goroutine blocks in the deferred send of VsServer.
NewPoolFails ==
  /\ ipc = "endpoint" /\ HasEndpoint /\ PoolMayFail
  /\ ipc' = "hung"
  /\ UNCHANGED <<defaultProxy, k, e, maps, pools>>

MakePools ==
  /\ ipc = "makePools" /\ ipc' = "makeProxy"
  /\ poolKeys' = poolKeys \cup {Proxy.name}
  /\ UNCHANGED <<defaultProxy, k, e, connPools, connProxy, pools>>

MakeProxy ==
  /\ ipc = "makeProxy" /\ ipc' = "addPool"
  /\ connProxy' = [connProxy EXCEPT ![Proxy.name] = "empty"]
  /\ UNCHANGED <<defaultProxy, k, e, poolKeys, connPools, pools>>

\* connPools[proxyName][pool.name] = pool, in the map that is there now.
AddPool ==
  /\ ipc = "addPool" /\ ipc' = "setModel"
  /\ connPools' = [connPools EXCEPT ![Proxy.name] = @ \cup {<<k, e>>}]
  /\ UNCHANGED <<defaultProxy, k, e, poolKeys, connProxy, pools>>

\* Variant: the model is not stored for the last endpoint of a proxy.
SetModelForgotten ==
  /\ ipc = "setModel" /\ ipc' = "endpoint" /\ e' = e + 1
  /\ connProxy' = [connProxy EXCEPT ![Proxy.name] =
                     IF e = Len(Proxy.endpoints) THEN @ ELSE Proxy.model]
  /\ UNCHANGED <<defaultProxy, k, poolKeys, connPools, pools>>

SetModel ==
  /\ ipc = "setModel" /\ ipc' = "endpoint" /\ e' = e + 1
  /\ connProxy' = [connProxy EXCEPT ![Proxy.name] = Proxy.model]
  /\ UNCHANGED <<defaultProxy, k, poolKeys, connPools, pools>>

InitGrpcConnPool ==
  /\ \/ InitProxy \/ InitEndpointsEnd \/ NewPool \/ NewPoolFails
     \/ MakePools \/ MakeProxy \/ AddPool \/ SetModel
  /\ UNCHANGED <<config, req, health, crashed>>

------------------------------------------------------------------------------
(* A request: GrpcProxyTransport, balancePool and the retry loop of the    *)
(* handler.                                                                *)

Idle == [at |-> "idle", name |-> NoName, seen |-> FALSE, model |-> "none",
         picked |-> NoPool, tries |-> 0]

Goto(r, label) == req' = [req EXCEPT ![r].at = label]

\* The request ends, and with it what its handler knew.
EndRequest(r) == req' = [req EXCEPT ![r] = Idle]

\* Variant: `c <= grpcRetryTimesInt' in the retry loop.
MayRetryOnceMore(q) == q.tries <= RetryTimes

MayRetry(q) == q.tries < RetryTimes

\* Variant: the handler does not count its retries.
RetriedForEver(q) == [q EXCEPT !.at = "director"]

Retried(q) == [q EXCEPT !.at = "director", !.tries = @ + 1]

\* A call of the director returned an error: it is called again, RetryTimes
\* times at most.
DirectorError(r) ==
  IF MayRetry(req[r]) THEN req' = [req EXCEPT ![r] = Retried(@)] ELSE EndRequest(r)

\* A request arrives, with a "proxy" in its metadata or without, for a method
\* of the backend or of the gateway.
Arrive(r) ==
  /\ req[r].at = "idle"
  /\ \E n \in Names \cup {NoName, Internal} :
       req' = [req EXCEPT ![r].at = "director", ![r].name = n]
  /\ UNCHANGED crashed

\* The director rejects the gateway's own methods, and then reads defaultProxy;
\* without it a request for no proxy is an error.
Route(r) ==
  /\ req[r].at = "director"
  /\ IF req[r].name = Internal THEN DirectorError(r)
     ELSE IF defaultProxy
       THEN req' = [req EXCEPT ![r].at = "pools", ![r].name = DEFAULT_PROXY]
     ELSE IF req[r].name = NoName THEN DirectorError(r)
     ELSE Goto(r, "pools")
  /\ UNCHANGED crashed

\* The first argument of balancePool: connPools[name], a reference to a map.
ReadPools(r) ==
  /\ req[r].at = "pools"
  /\ req' = [req EXCEPT ![r].at = "model", ![r].seen = req[r].name \in poolKeys]
  /\ UNCHANGED crashed

\* The second: connProxy[name]["proxyModel"].(string), which panics on nil.
ReadModel(r) ==
  LET stored == connProxy[req[r].name]
  IN /\ req[r].at = "model"
     /\ crashed' = (stored \notin Models)
     /\ req' = [req EXCEPT ![r].at = "balance",
                           ![r].model = IF stored \in Models THEN stored ELSE @]

\* The pools the balancing function of the model may choose: minConnBalance
\* leaves out those with a false status and prefers large idle sizes, which
\* may be anyone's; the weights of the other are capacities.
Eligible(q) ==
  IF q.model = "minConn" THEN connPools[q.name] \cap status ELSE connPools[q.name]

\* balancePool: nil without pools, otherwise the index of one; the random
\* choice among no eligible pools panics.
Balance(r) ==
  /\ req[r].at = "balance"
  /\ IF ~req[r].seen \/ connPools[req[r].name] = {}
       THEN req' = [req EXCEPT ![r].at = "acquire", ![r].picked = NoPool] /\ UNCHANGED crashed
       ELSE IF Eligible(req[r]) = {}
         THEN Goto(r, "index") /\ crashed' = TRUE
         ELSE /\ UNCHANGED crashed
              /\ \E p \in Eligible(req[r]) :
                   req' = [req EXCEPT ![r].at = "index", ![r].picked = p]

\* pools[index].sumRequestTimes += 1, a second look at the map.
Index(r) ==
  /\ req[r].at = "index"
  /\ Goto(r, "acquire")
  /\ crashed' = (req[r].picked \notin connPools[req[r].name])

\* (*Pool)(nil).Acquire(ctx) finds the pool closed and returns an error.
AcquireNil(r) ==
  req[r].at = "acquire" /\ req[r].picked = NoPool /\ DirectorError(r) /\ UNCHANGED crashed

\* pool.Acquire(ctx) on an open pool returns a client, if it returns.
AcquireOk(r) ==
  req[r].at = "acquire" /\ req[r].picked \in open /\ Goto(r, "stream") /\ UNCHANGED crashed

\* It returns none or an error: the pool is closed, a dial fails or the context
\* is done.
AcquireFails(r) ==
  req[r].at = "acquire" /\ req[r].picked # NoPool /\ DirectorError(r) /\ UNCHANGED crashed

\* The stream has been proxied.
Finish(r) == req[r].at = "stream" /\ EndRequest(r) /\ UNCHANGED crashed

\* What waits for nobody: no lock, no channel and no network.
Directs(r) ==
  \/ Route(r) \/ ReadPools(r) \/ ReadModel(r) \/ Balance(r) \/ Index(r) \/ AcquireNil(r)

HandlerOf(r) == Directs(r) \/ AcquireOk(r) \/ AcquireFails(r) \/ Finish(r)

------------------------------------------------------------------------------
(* checkGRPCSererHealthTask, with CheckGRPCSerer of                        *)
(* src/pkg/core/common/common.go.  A pool whose backend answers keeps its  *)
(* status TRUE, which is no step; one whose backend does not, six times in *)
(* a row, is released.                                                     *)

\* The network at the time of a check: whether a dial of the service's name
\* succeeds, whether the name resolves to an address, and whether a dial of
\* that address succeeds.
Networks == [name : BOOLEAN, resolves : BOOLEAN, address : BOOLEAN]

CheckGRPCSerer(net) ==
  CASE CheckType = "svcIP" -> net.resolves /\ net.address
    [] CheckType = "svcNameAndsvcIP" -> net.name \/ (net.resolves /\ net.address)
    [] OTHER -> net.name

StartHealthTask ==
  /\ ipc = "done" /\ hpc = "off" /\ hpc' = "check"
  /\ UNCHANGED <<maps, pools, target, i>>

NextPool == hpc' = "check" /\ target' = NoPool /\ i' = 0

\* The first check of pool p, which the loops over the maps have come to, fails.
CheckFails(p) ==
  /\ hpc = "check" /\ p \in UNION {connPools[n] : n \in poolKeys}
  /\ \E net \in Networks : ~CheckGRPCSerer(net)
  /\ hpc' = "recheck" /\ target' = p
  /\ UNCHANGED <<maps, pools, i>>

\* An endpoint that is dialled by its IP address is split at the colon.  One
\* without a port, which any may be as far as Configs goes, panics there.
NoPortPanics ==
  /\ CheckType \in {"svcIP", "svcNameAndsvcIP"}
  /\ \/ hpc = "check" /\ UNION {connPools[n] : n \in poolKeys} # {}
     \/ hpc = "recheck"
  /\ crashed' = TRUE /\ UNCHANGED <<config, boot, maps, pools, req, health>>

\* A second later it is checked again, until one check succeeds or the last one
\* has failed.
Recheck(net) ==
  /\ hpc = "recheck"
  /\ IF CheckGRPCSerer(net) THEN NextPool /\ UNCHANGED status
     ELSE IF i + 1 < Rechecks THEN i' = i + 1 /\ UNCHANGED <<hpc, target, status>>
     ELSE hpc' = "close" /\ status' = status \ {target} /\ UNCHANGED <<target, i>>
  /\ UNCHANGED <<maps, open>>

\* Variant: the pool is closed and stays in the registry.
ReleaseOnlyCloses ==
  hpc = "close" /\ open' = open \ {target} /\ NextPool /\ UNCHANGED <<maps, status>>

\* ReleaseGrpcPool: Close(), which the pool's lock makes one step here.
ReleaseClose ==
  /\ hpc = "close" /\ hpc' = "delete"
  /\ open' = open \ {target}
  /\ UNCHANGED <<maps, status, target, i>>

\* delete(connPools[proxyName], poolName)
ReleaseDelete ==
  /\ hpc = "delete"
  /\ connPools' = [connPools EXCEPT ![NameOf(target)] = @ \ {target}]
  /\ IF connPools[NameOf(target)] = {target}
       THEN hpc' = "deleteKey" /\ UNCHANGED <<target, i>> ELSE NextPool
  /\ UNCHANGED <<poolKeys, connProxy, pools>>

\* delete(connPools, proxyName); connProxy keeps its entry.
ReleaseDeleteKey ==
  /\ hpc = "deleteKey"
  /\ poolKeys' = poolKeys \ {NameOf(target)}
  /\ NextPool
  /\ UNCHANGED <<connPools, connProxy, pools>>

ReleaseGrpcPool == ReleaseClose \/ ReleaseDelete \/ ReleaseDeleteKey

\* What the task does once a check has failed.
HandlesFailure == (\E net \in Networks : Recheck(net)) \/ ReleaseGrpcPool

HealthTask == StartHealthTask \/ (\E p \in Pools : CheckFails(p)) \/ HandlesFailure

------------------------------------------------------------------------------
(* The maps.  A goroutine at one of these statements may be in the middle  *)
(* of the map operation; the runtime ends the process when it notices that *)
(* another one writes the same map, which it need not.                     *)

WritesPools == ipc = "makePools" \/ hpc = "deleteKey"

WritesPoolsOf(n) ==
  (ipc = "addPool" /\ Proxy.name = n) \/ (hpc = "delete" /\ NameOf(target) = n)

WritesProxyOf(n) == ipc = "makeProxy" \/ (ipc = "setModel" /\ Proxy.name = n)

\* GetConnPoolMetricsData, which the HTTP server may call at any time, ranges
\* over connPools and the maps in it.
GetConnPoolMetricsDataRaces == WritesPools \/ \E n \in poolKeys : WritesPoolsOf(n)

MapRace ==
  \/ GetConnPoolMetricsDataRaces
  \/ \E r \in Requests :
       \/ req[r].at = "pools" /\ WritesPools
       \/ req[r].at = "model" /\ WritesProxyOf(req[r].name)
       \/ req[r].at \in {"balance", "index"} /\ req[r].seen /\ WritesPoolsOf(req[r].name)

MapRaceNoticed ==
  MapRace /\ crashed' = TRUE /\ UNCHANGED <<config, boot, maps, pools, req, health>>

------------------------------------------------------------------------------

Init ==
  /\ config \in Configs /\ defaultProxy = FALSE /\ crashed = FALSE
  /\ poolKeys = {}
  /\ connPools = [n \in Names |-> {}]
  /\ connProxy = [n \in Names |-> "absent"]
  /\ open = {} /\ status = {}
  /\ ipc = "proxy" /\ k = 1 /\ e = 1
  /\ req = [r \in Requests |-> Idle]
  /\ hpc = "off" /\ target = NoPool /\ i = 0

RequestStep(A) == A /\ UNCHANGED <<config, boot, maps, pools, health>>

HealthStep(A) == A /\ UNCHANGED <<config, boot, req, crashed>>

Next ==
  /\ ~crashed
  /\ \/ InitGrpcConnPool
     \/ \E r \in Requests : RequestStep(Arrive(r)) \/ RequestStep(HandlerOf(r))
     \/ HealthStep(HealthTask)
     \/ MapRaceNoticed \/ NoPortPanics

Spec == Init /\ [][Next]_vars

\* Goroutines run.  Nobody has to send a request, no backend has to fail, Acquire
\* does not have to return from a pool and no stream has to end.
Fairness ==
  /\ WF_vars(~crashed /\ InitGrpcConnPool)
  /\ \A r \in Requests : WF_vars(~crashed /\ RequestStep(Directs(r)))
  /\ WF_vars(~crashed /\ HealthStep(HandlesFailure))

FairSpec == Spec /\ Fairness

------------------------------------------------------------------------------
(* Properties.                                                             *)

\* What a configuration asks for: the endpoints of the enabled proxies of a
\* name, up to the first malformed one of each.
Configured(n) ==
  {p \in Pools : /\ p[1] <= Len(config)
                 /\ config[p[1]].enabled /\ config[p[1]].name = n
                 /\ p[2] <= Len(config[p[1]].endpoints)
                 /\ \A m \in 1 .. p[2] : config[p[1]].endpoints[m]}

Up == ipc = "done" /\ hpc = "off"

\* The registry that InitGrpcConnPool leaves is the configuration's: a key for
\* the proxies with a pool, all their pools, open and with a true status, and
\* the model of the last entry of that name.
RegistryMatchesConfig ==
  Up => /\ poolKeys = {n \in Names : Configured(n) # {}}
        /\ \A n \in Names : connPools[n] = Configured(n)
        /\ UNION {connPools[n] : n \in Names} = open /\ status = open
        /\ \A n \in poolKeys :
             \E p \in Configured(n) : /\ connProxy[n] = config[p[1]].model
                                      /\ \A q \in Configured(n) : q[1] <= p[1]

OffersOpenPools ==
  /\ \A n \in Names : connPools[n] \subseteq open \cap status
  /\ ipc \in {"proxy", "done"} => \A n \in poolKeys : connPools[n] # {}

\* Unless the health task is releasing a pool, the registry offers only open pools,
\* and no key without a pool: what is released is gone from the maps, whatever
\* the requests saw while the task was at it (pool_instance.go:138-145).
RegistryOffersOpenPools == hpc \in {"off", "check", "recheck"} => OffersOpenPools

\* A pool that is being released does not stay in the registry, half closed or
\* half removed: requests are offered open pools again in the end, unless a race
\* on the maps ends the process first (pool_instance.go:249-254).
RegistryRecovers == ~OffersOpenPools ~> OffersOpenPools \/ crashed

\* Once InitGrpcConnPool is through and while no pool is released, a request
\* for a configured proxy does not bring the process down: the maps it reads
\* have all the entries it takes for granted.
ConfiguredRequestsAreSafe ==
  [][Up /\ crashed' =>
       \E r \in Requests :
         req[r].at = "model" /\ req'[r] # req[r] /\ Configured(req[r].name) = {}]_vars

\* The director decides: a request that is rejected, or whose proxy has no pool,
\* goes back to its caller with an error after a counted number of retries, and
\* any other one is in Acquire of a pool, or has a connection, in the end, unless
\* the process ends.  Acquire may keep it for ever (handler.go:145, director.go:40-67).
DirectorDecides ==
  \A r \in Requests :
    req[r].at # "idle" ~> \/ req[r].at \in {"idle", "stream"}
                          \/ req[r].at = "acquire" /\ req[r].picked # NoPool
                          \/ crashed
==============================================================================
