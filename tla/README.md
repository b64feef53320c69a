# A verification project for synapsor

synapsor is a gRPC gateway: it accepts any gRPC stream, chooses a backend by the
`proxy` of the request's metadata, takes a connection from that backend's pool
and copies messages both ways.  This directory holds TLA+ models of it, the TLC
runs that check them and the proofs that TLAPS checks.  Every definition is
translated from the Go source; `PROJECT.json` maps definitions to lines.

## The system

| component | state | operations | talks to |
|---|---|---|---|
| connection pool (`pool/grpc/pool.go`) | channel of idle clients, `timeUsed` per client, open or closed | `NewPool`, `Acquire`, `Client.Close` (asynchronous), `Pool.Close` (asynchronous drain), `Size`, `GetConnCurrent` | called by the director and the handler |
| stream handler (`handler.go`) | two streams, one context, two buffered error channels | `handler`, `forwardClientToServer`, `forwardServerToClient` | the director, gRPC, the pool (`conn.Close`) |
| director (`director.go`) | none of its own | `GrpcProxyTransport`, `balancePool`, `minConnBalance`, `randomWeightBalance` | reads the registry, calls `Acquire` |
| registry (`pool_instance.go`) | package variables `connPools`, `connProxy`, `defaultProxy`, without a lock | `InitGrpcConnPool`, `ReleaseGrpcPool`, `checkGRPCSererHealthTask`, `GetConnPoolMetricsData` | written by the VS plugin, read by requests and the metrics API |
| plugins (`server.go`, `proxy/`, `metrics/`) | one status channel each | `registerPlugins`, the four factories | main waits for them |
| HTTP server (`proxy/http.go`, `httpserver/`) | gin contexts, a buffer and a channel per request | `TimeoutHandler`, `Recover`, `runProxy`, the metrics route | `GetConnPoolMetricsData` |
| the rest | | database, logging, HTTP client, tracing, session and CORS helpers | not on the path of a request |

What is hard about it: every request is a goroutine, and so is every return of
a connection (`Client.Close`) and the drain of a closed pool; they meet in an
unlocked field (`pool.clients`) and a bounded channel.  A dial may fail after the
connection it was to replace is gone.  A request may be cancelled while it
waits.  Two forwarders and a handler share a stream that either side may end at
any time.  The gRPC server accepts requests while the registry is being filled,
without a lock.  An HTTP handler that is late for its timeout goes on in a gin context
that serves another request by then.

What makes each part correct:

- pool: a connection has one owner at a time; it is neither lost nor multiplied;
  returns do not block; a request that waits gets an answer; a closed pool ends
  up without connections.
- handler: messages are neither lost, repeated nor reordered; the caller gets
  the backend's status; half-close is passed on when it should be; the handler ends
  with the call, and the forwarders with the handler.
- registry and director: after start-up the registry is what the configuration
  says; closed pools are not offered; the director decides every request; the choice
  among pools is the one the names of the algorithms promise.
- plugins: main learns that a plugin has ended.
- HTTP server: a client receives the answer to its own request; a request ends even
  if its handler does not.

## The modules

**ConnLease** is the abstract specification: a connection is absent, owned by the
pool, or leased to one request; only its lessee gives it back; at most `Size`
exist.  There is no channel, clock or goroutine in it.

**ClientPool** is one pool with all the goroutines that touch it.  `pc[r]` is the
handler of a request inside `Acquire`, `loc[c]` says where a `*Client` is,
including inside the goroutine of `Client.Close`, and `drain` is the goroutine of
`Pool.Close`.  A step is what one goroutine does between two accesses to shared
state: `IsClose`, the evaluation of `pool.clients` as the operand of a channel
operation, the operation itself and the dial are steps of their own, so that a
close between the check and the use (pool.go:212 and 226) is a behaviour of the
model.  The three modes of `Acquire` are the value of `Mode`; the retry loop of
the handler (handler.go:142-155) is `DirectorError`, with `MayRetry` and `Counted` for its
condition and its counter.  A client is abstracted to
its identity and `timeUsed`; an identity is reused once its connection is
destroyed.  `leaseOf` is the refinement mapping to ConnLease.

**ProxiedCall** is the abstract specification of a proxied call: what the caller and
the backend do, and what each may receive of the other.  Messages arrive in order,
one at a time; the header comes before the first message to the caller; the backend
hears of the half-close after the caller's last message; the status is the last
thing the caller gets, and it is the backend's unless the caller has cancelled, has
sent a message too large to be passed on, or the backend was never reached.  It has no
forwarder, channel, retry or context.

**StreamProxy** is one proxied stream after a connection was obtained: the handler
(`hpc`, `result`), the two forwarders (`fpc[d]`), their error channels (`ret[d]`)
and the two gRPC streams (`queue`, `backend`, `callerClosed`, `cancelled`), which are
external and modelled by what `RecvMsg` and `SendMsg` return to the forwarders.  A
message is its number.  An error of a gRPC stream is sticky, so that a repeated
call fails again: the retry loops only delay the error.  The raw codec keeps the bytes
of a message in the forwarder's frame, which each `RecvMsg` overwrites (`Unmarshal`) and
`SendMsg` reads (`Marshal`).  `SendMsg` succeeds when its reader makes room, which may
be never (flow control); it fails when the context is done.  A message of the caller may
be over the 4 MB that a server without `MaxRecvMsgSize` allows (`RecvTooLarge`;
grpc.go:62): `RecvMsg` fails, and gRPC itself sends the caller a status and ends the
stream (`aborted`).  The limit of the pools' clients, set at pool_instance.go:201, is one no message
reaches.  What the repeated `RecvMsg` calls might still find of the bytes of such a message is left
out: gRPC documents the stream as over.  The variables include those of ProxiedCall under
the same names; the refinement mapping of `CallSpec` is the identity on them but for the
result, which is the `status` that reaches the caller.

**Gateway** is the registry, the director and the health task: `InitGrpcConnPool`
statement by statement, since requests run at the same time; the reads a request
makes in the order of `GrpcProxyTransport`; and the three steps of
`ReleaseGrpcPool`.  Two accesses to one map, one of them a write, may end the
process (`MapRaceNoticed`), and so may a panic in a request (`ReadModel`, `Balance`,
`Index`).  A request for one of the gateway's own methods (`Internal`) is rejected before
anything is looked up.  A panic in the plugin that runs `InitGrpcConnPool` hangs it: its deferred
send goes to a nil channel.  A pool is open or closed here, and `Acquire` returns a
connection (`AcquireOk`) or an error (`AcquireFails`), or does not return: what it does
inside is ClientPool's matter.  Nothing in
the repository starts the health task, `checkGRPCSererHealthTask`; the action `StartHealthTask` starts it once
the registry is filled, and the properties say which of them hold without it.  A pool
whose backend fails a check is checked again, once a second and up to five times
(`Recheck`), and is released only when all of them fail.  Each check asks a network that
may answer differently every time (`Networks`); `CheckGRPCSerer` says, for each value of
`GRPC_DIAL_CHECK_SVC_TYPE`, which of the dials and lookups decide.  An endpoint without a
port panics in the modes that dial an IP address (`NoPortPanics`).

**Balance** is the choice among the pools of a proxy.  `minConnBalance` ranges over a
map in any order and reads each pool's status once and its size twice, while
connections move; `weightedRandomIndex` and `randomWeightBalance` are functions.
The random number is its whole part (the sums it is compared with are whole), and
a number rounded up to the sum is the last index, as in the code.

**HttpTimeout** is the HTTP server: each request has the goroutine of net/http and the
one `TimeoutHandler` starts (`pc`, `frame`), a gin context (`ctx`; the context's own
fields are `context[c]`: `holder`, `index`, `writer`, `status`) and a pooled buffer.  `c.Next()` moves
the index of the context, whoever holds it by then: a handler that is late after a
timeout answers into another request, or runs a handler of that request's chain, as
it does in gin.  The index is incremented atomically here; gin's `c.index++` is not,
so that the model has the outcomes of one order or the other and not those of a lost
increment.  A late handler that sets a header while net/http copies the headers may
end the process (`HeaderRaceNoticed`).  gin and buffpool are external: a context is
free when `ServeHTTP` has returned, and a buffer is empty when it is taken.
`route` says what a request is for: the metrics API, an unknown path, or a proxied
route, whose handler is `runProxy`.  That one has a third goroutine, `fetch`, which calls
the other server (`Request`) and sends first an error, then a result, on unbuffered
channels (`AfterSend`), and a timer beside the one of the middleware (`ProxyReturns`).
`addRoute` registers such routes; the repository has the code and never calls it, so
that the process as it is has the other two kinds.

**Plugins** is main, the plugins it registers and the channels they report on.

The **MC** modules give TLC what a configuration file cannot: permutations for
symmetry, and the configurations of Gateway.  The **Proofs** modules have the theorems.
Definitions marked "Variant" are plausible mistakes in the code beside them; no
specification uses them.

## The runs

| run | instance | what it shows |
|---|---|---|
| `pool_loose` | 3 requests, 3 clients, size 2, dials fail | type, ownership, number of connections, room for returns, metrics, refinement of ConnLease in LOOSE_MODE |
| `pool_loose_live` | 3 requests, size 1, dials succeed | no slot is lost; whoever waits gets a connection |
| `pool_strict_close` | 2 requests, init 2 cut to size 1, one retry, `Pool.Close` at any time | the same in STRICT_MODE with a pool that is closed; a cancelled request returns; connections in use at the close are destroyed |
| `stream` | 3 messages each way, 2 retries | messages, status, half-close, refinement of ProxiedCall; the end of the handler after a cancellation, or after the backend if the caller reads; the end of the forwarders after it |
| `gateway` | 2 requests, 4 configurations, 1 retry, 2 checks after a failed one | the registry after start-up and under the health task, its recovery from a release, safety of configured requests, the director decides every request |
| `balance` | 3 pools, capacities 1 and 2 | the two balancing algorithms |
| `http_timeout` | 2 requests, one proxied or unknown, 2 contexts, 2 buffers, timers at any time | own answers until a context is shared after a timeout, no answer twice, end of requests, of handler goroutines and of those of `runProxy` |
| `pool_loose_stuck` | size 1, dials fail | violated: a cancelled request blocks for ever (pool.go:142) |
| `pool_no_growth` | size 1 | violated: the pool never grows (pool.go:138) |
| `pool_close_leak` | size 1, `Pool.Close` | violated: a return that races with the close keeps its connection (pool.go:226) |
| `balance_weight` | 2 pools, weights 1 and 2 | violated: configured weights are not used (director.go:143) |
| `plugin_status` | 1 listener | violated: main never learns that a plugin ended (server.go:37) |

Bounds.  Two requests contend for one connection, three let a third one in
between a return and the next receive; size 2 has a connection to spare and size
1 none.  Three client identities are one more than can be alive, so that a pool
that dials too much can show it.  The clock has two or three values: a client is
fresh or idle, before or after the instant `Acquire` read.  One and no retry of the
director cover the loop's two exits.  Two messages are the fewest that can be
lost at one end, repeated or swapped; of three, one is in the middle, behind a message
delivered and before one that waits.  Two checks after a failed one have a first that
goes on and a last that gives up, as five do.  `CheckType` is "svcNameAndsvcIP", the mode
that asks the network everything; the others are special cases of its two halves.  The configurations of Gateway have a
default proxy alone, a malformed endpoint between good ones, a disabled and an
empty proxy, and one name twice with two models.  Three pools make the order of a
range matter.  Two HTTP requests are the one that times out and the one that meets its
late handler, on the same context or on another one; one of them is for the metrics
API, the other for each of the other kinds of route in turn.  `CHECK_DEADLOCK FALSE` stands where the system really may stop: the
streams end, the process ends, and in `pool_loose` and `pool_loose_stuck` every slot
may be lost and every request blocked.

What some properties do not say.  `RegistryMatchesConfig` takes the `break` at an endpoint
without a weight (pool_instance.go:90) as what is wanted and speaks of an initialisation
that is through.  `NoConnLost` is stated for dials that succeed: a failed dial loses its slot
(pool.go:157), which `pool_loose_stuck` shows.  `MetricsCoverInUse` is a lower bound; the report
is too high once slots are lost.  `LeaseSpec` is a safety property, so that a drainer that
blocks for ever satisfies it.  `ChoiceIsIdlest` is about a range during which nothing moves.
`RegistryOffersOpenPools` leaves out the steps of a release, `AnswersAreOwn` what follows
after a context is shared.

Fairness.  The Go scheduler runs every runnable goroutine, which is weak fairness
of each goroutine's steps.  A goroutine that blocks in a channel receive stands in
the channel's first-in first-out queue, so that it is served if clients keep
coming: strong fairness of `Receive(r)`.  A proxied stream ends and gives its
connection back (`Finish`); without that a pool of long streams may be exhausted for
good.  No fairness is assumed of callers, of backends, of cancellation, of
`Pool.Close` or of the clock.

In StreamProxy a forwarder goes on where it does not depend on the reader of its
destination (`Advance`), and a `SendMsg` that can fail fails; that one succeeds is not
assumed, since the caller and the backend need not read.  So the handler ends after the
backend only on the condition that the caller reads, which `ProxyEnds` states as the premise
`CallerReads`; after a cancellation it ends in any case.  `NewClientStream` returns in the end
only when the context is done.  In Gateway the steps of the director go on (`Directs`), which
wait for nobody; neither `Acquire` nor a stream has to end, so that `DirectorDecides`
promises a connection or an error only to those the director itself rejects, and to the
others that they reach `Acquire`.  The health task
goes on once a check has failed; no fairness is assumed of a failure.  In HttpTimeout
the timers fire and the HTTP client of `runProxy` answers or gives up (`DoTimeout`); no
fairness is assumed of the other handlers: they may take for ever.

## The proofs

Every invariant, action property and refinement that a passing run checks is also a
theorem, for all values of the constants that the assumptions of the modules allow
(`LeaseSpec` for the two documented modes of the pool).
What is left to TLC alone is liveness: `AcquireEnds`, `DoneRequestReturns`,
`HeldAtCloseIsDestroyed`, `ProxyEnds`, `ForwardersEnd`, `DirectorDecides`,
`RegistryRecovers`, `TimeoutEndsRequest`, `HandlerGoroutineEnds` and `FetchEnds`, which rest on
fairness and ENABLED and are beyond the prover.  The recursive choice among weights is
proved as well, see Balance.

| module | theorems | property |
|---|---|---|
| `ClientPoolProofs` | `TypeCorrect`, `ConnsHaveOneOwner`, `ConnsAreHeldBySomeone`, `PoolNeverGrows`, `ReturnsDoNotBlock`, `MetricsAreSafe`, `SlotsAreKept`, `PoolIsALease`, `GrowthUnreachable` | `TypeOK`, `OneOwner`, `HeldHasOwner`, `ConnsBounded`, `ReturnNeverBlocks`, `MetricsCoverInUse`, `NoConnLost`, `LeaseSpec`, the state in which the pool would grow |
| `StreamProxyProofs` | `TypeCorrect`, `MessagesArrive`, `StatusIsTheBackends`, `HalfCloseIsLast`, `EndUnreachable`, `Transparent` | `TypeOK`, `NothingLost`, `StatusFaithful`, `HalfCloseFaithful`, `NeverReachesEnd`, `CallSpec` |
| `GatewayProofs` | `TypeCorrect`, `OffersOnlyOpenPools`, `RegistryIsTheConfiguration`, `ConfiguredAreSafe` | `TypeOK`, `RegistryOffersOpenPools`, `RegistryMatchesConfig`, `ConfiguredRequestsAreSafe` |
| `BalanceProofs`, `BalanceShareProofs` | `TypeCorrect`, `ChoosesAPool`, `ChoosesTheIdlest`, `PanicsOnlyWithoutPools`, `SharesAreCapacities` | `TypeOK`, `ChoiceIsAPool`, `ChoiceIsIdlest`, `PanicOnlyWithoutPools`, `ShareIsCapacity` |
| `HttpTimeoutProofs`, `HttpTimeoutOwnProofs` | `TypeCorrect`, `NoAnswerTwice`, `AnswersReachTheirClients` | `TypeOK`, `EachAnswerOnce`, `AnswersAreOwn` |

For each component `Invariance` (for ClientPool, `InductiveInvariant`) says that `IInv` is
an invariant, by induction.  Its lemmas go action by action, and part by part where an
action disturbs a part.  BalanceShareProofs and HttpTimeoutOwnProofs extend the module
named before them.

**ClientPool**, from `PoolAssumption` (which `initPool` enforces for sizes and durations,
and which makes the sets finite), for every size, mode, number of retries and bound on
the clock.  `OneOwner` is inductive only together with `HeldHasOwner` and the type
invariant: a `Finish` that gives back a connection somebody else holds would break the
queue later.  `PoolNeverGrows`: every step either moves a client, or destroys one and
enters `create`, or leaves `create` with or without a client; `GrowthUnreachable` removes
the one action that would add a client without having destroyed one.
`ReturnsDoNotBlock` and `MetricsAreSafe` follow by counting: clients on their way back
are live and not in the channel.  `SlotsAreKept` needs the same count as an equality:
without failing dials and before a close every step keeps the slots, replaces a live
client by a replacement under way, or the reverse.  `PoolIsALease`: every step is a step
of ConnLease or a stutter.  `Acquire` has a third way out for a `Mode` that is neither 0
nor 1 (`CtxDoneOther`), which no run reaches: the proofs cover it, since they hold for
every `Mode`, except that the bounds are claimed for the two documented modes alone.

**StreamProxy**, from `ProxyAssumption`, for every number of messages and retries.
`NothingLost` needs little more than that a forwarder has a message in its frame
(`FrameInv`); the status and the half-close need more, since what the handler returns was decided by a forwarder long
before.  `ErrorInv` says what an error stands for while a forwarder retries and after it
has posted it (`Means`): that the context is cancelled, or that the backend ended with this
status and everything was passed on, or that the caller closed its side and everything
was passed on.  `AbortInv` says that an aborted stream has a message of the caller that
will not be delivered.  What an error means stays true, so that the handler may act on it at
any later time.  `ControlInv` has the receives: the second one of the loop finds the channel
of the first empty and its forwarder gone, whence `EndUnreachable`.
`Transparent` proves `CallSpec`, the refinement of ProxiedCall, with one step for each
action of StreamProxy: `HeaderInv` gives the order of header and messages,
`CloseInv` and `StatusInv` the guards of the abstract half-close and status.

**Gateway**, from `GatewayAssumption`, for any set of configurations with any number of
proxies and endpoints, any requests and retries.  The pools are those the configurations
name (`PoolsOf`), so that no bound on endpoints is assumed.  `RegistryInv` gives
`OffersOnlyOpenPools`: what is offered is open unless it is the target of the release, and
a key without a pool is one that is about to get a pool, or to go.  `BootInv` is the
loop invariant of `InitGrpcConnPool`: the registry is the configuration's up to proxy `k`
and endpoint `e` (`Through`), statement by statement, with the last entry of a name
deciding its model.  With `PickedInv` (the pool a request has picked is still in the
registry) it makes the lookups of a configured request succeed.

**Balance**, from `BalanceAssumption`, for any finite set of pools.  `SeenInv` relates the
range to what it has seen, `IndexInv` says why `index` is set as soon as anything was
read (`0 <= pSize`), and `QuietInv` is the loop invariant of the maximum.
`SharesAreCapacities` takes an induction over the weights, which no installed prover can
instantiate from the library's induction theorem; it goes through least elements
instead (`Least`, from the well-foundedness of the numbers, and `SetInduction`, about a set
and not a predicate).  `SumsAre` gives the recursive function of the sums its values,
`IndexIs` says that the index is `i` exactly for the numbers between two successive sums,
and `SumCounts` that the last sum counts the units of all weights (`Places`) whatever the
order: so the numbers that choose a pool are as many as its capacity.

**HttpTimeout**, from `HttpAssumption`, for any number of requests, contexts and buffers.
`NoAnswerTwice` holds even when contexts are shared.  An answer is in one place at a time:
its handler has not been called (`UncalledInv`), one goroutine is at it (`OneHandler`,
`AtWorkInv`), a buffer that can still be flushed has it (`HeldInv`), or a client has
received it (`ReceivedInv`).  The index of a context only grows while a request holds it, and
this is why the handler of a request is called once, by whichever goroutine.
`AnswersReachTheirClients` adds what holds as long as no context is shared after a
timeout: each request is in one of six phases, which relate its three goroutines, its
context, its buffer and its response (`Phase`, `OwnInv`), and a step of one request leaves
the phases of the others alone.  `AloneInv` is inductive on top of `IInv`: once a context
is shared it stays so.

The inductive invariants were checked by TLC on instances like those of the runs
(Gateway with one request) before they were proved.  Names for tuples of variables and for parts of actions (`channel`,
`TakeHead`, `EndRequest`, ...) are expanded throughout a module by one `USE DEF`.

## Not modelled

The reload of HTTP routes (`watchRouter`, `getRouterTask`): nothing calls it, and it would
panic on variables that are never set; `Recover`, which passes every request through as
long as no handler panics, and none does; the building of URLs and query strings;
`requestJob` of Duration.go, the session and CORS middleware, database, logging, HTTP
client and tracing helpers, which nothing on the way of a request calls; `maxLifeDur`,
whose check is commented out in the source; the counter `sumRequestTimes`, which nothing
reads; the connections a failed `initPool` leaves behind, which no goroutine can reach;
process configuration and deployment files.

## Plan

1. Done: ConnLease and ClientPool; ProxiedCall and StreamProxy, which implements it;
   Gateway with the health task; Balance; HttpTimeout with the proxied routes; Plugins.
2. Done: the proofs of all safety properties of the runs and of the two refinements.
3. Left: what Plugins promises of main and the listeners short of liveness; the leads-to
   properties stay with TLC.
