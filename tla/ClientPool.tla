----------------------------- MODULE ClientPool -----------------------------
(***************************************************************************)
(* The pool of gRPC client connections to one backend:                     *)
(* src/pkg/plugins/pool/grpc/pool.go, with the request loop of             *)
(* handler.go that calls Acquire (through the director) and Client.Close.  *)
(*                                                                         *)
(* Every goroutine that touches a pool is a process here: the handler of   *)
(* a request (pc[r]), the goroutine Client.Close starts for the client it  *)
(* returns (loc[c] in closing .. sending) and the goroutine Pool.Close     *)
(* starts to empty the channel (drain).  A step is what one goroutine does *)
(* between two reads or writes of shared state: IsClose, the evaluation of *)
(* pool.clients as a channel operand, the channel operation itself and the *)
(* dial are steps of their own.                                            *)
(***************************************************************************)
EXTENDS Integers, Sequences, FiniteSets

CONSTANTS
  Requests,        \* request handlers that may run at the same time
  Clients,         \* identities of *Client objects, reused once destroyed
  NoClient,        \* the nil *Client
  InitNum,         \* NewPool's init, number of connections dialled at the start
  PoolSize,        \* NewPool's size: the channel's capacity, pool.size, pool.capacity
  IdleDur,         \* pool.idleDur
  Mode,            \* pool.mode
  RetryTimes,      \* grpcRetryTimesInt: calls of the director after the first one
  FactoryMayFail,  \* may the dial return an error?
  MayClose,        \* may Pool.Close be called?
  MaxTime          \* bound on the clock

STRICT_MODE == 0
LOOSE_MODE == 1

\* initPool rejects size <= 0, negative init and negative idleDur.
ASSUME PoolAssumption ==
  /\ IsFiniteSet(Requests) /\ IsFiniteSet(Clients)
  /\ NoClient \notin Clients
  /\ "absent" \notin Requests /\ "pooled" \notin Requests
  /\ InitNum \in Nat /\ PoolSize \in Nat \ {0} /\ IdleDur \in Nat
  /\ Mode \in Nat /\ RetryTimes \in Nat /\ MaxTime \in Nat
  /\ FactoryMayFail \in BOOLEAN /\ MayClose \in BOOLEAN

VARIABLES
  now,        \* time.Now()
  clients,    \* contents of the channel made by initPool
  poolOpen,   \* pool.clients # nil
  drain,      \* goroutine of Pool.Close
  loc,        \* where each *Client is
  timeUsed,   \* client.timeUsed
  pc,         \* program counter of each request handler
  conn,       \* the *Client a handler holds
  ctxDone,    \* <-ctx.Done() of a request is ready
  started,    \* the `now' Acquire read before its select
  tries       \* calls of the director the handler has retried

channel == <<clients, poolOpen, drain>>
objects == <<loc, timeUsed>>
handlers == <<pc, conn, ctxDone, started, tries>>
vars == <<now, channel, objects, handlers>>

\* free: no such object; queued: in the channel; held: a handler has it;
\* closing, returning, sending: in the goroutine of Client.Close, before
\* IsClose, before `client.pool.clients' is read again, before the send;
\* stuck: sending to a nil channel, which blocks for ever.
ClientLocs == {"free", "queued", "held", "closing", "returning", "sending", "stuck"}

\* wait and loose: blocked on the channel in the select or in the receive of
\* line 142; waitNil and looseNil: the same on a nil channel.
HandlerPcs == {"idle", "enter", "select", "wait", "waitNil",
               "loose", "looseNil", "create", "have"}

TypeOK ==
  /\ now \in Nat
  /\ clients \in Seq(Clients)
  /\ poolOpen \in BOOLEAN
  /\ drain \in {"off", "test", "recv", "done"}
  /\ loc \in [Clients -> ClientLocs]
  /\ timeUsed \in [Clients -> Nat]
  /\ pc \in [Requests -> HandlerPcs]
  /\ conn \in [Requests -> Clients \cup {NoClient}]
  /\ ctxDone \in [Requests -> BOOLEAN]
  /\ started \in [Requests -> Nat]
  /\ tries \in [Requests -> 0 .. RetryTimes]

------------------------------------------------------------------------------
(* Pool and client operations.                                             *)

\* initPool: init is cut to size.
StartNum == IF InitNum > PoolSize THEN PoolSize ELSE InitNum

\* Size() is len(pool.clients), 0 for a nil channel.
Size == IF poolOpen THEN Len(clients) ELSE 0

\* Variant: the number of idle connections is reported as the number in use.
CurrentIsIdle == Size

GetConnCurrent == PoolSize - Size

\* Variant: `>=' for `>' in the condition below.
MayGrowEarly == GetConnCurrent >= PoolSize /\ GetConnCurrent <= 5 * PoolSize

\* The condition under which Acquire dials beyond the initial connections.
MayGrow == GetConnCurrent > PoolSize /\ GetConnCurrent <= 5 * PoolSize

\* Variant: a closed pool is not recognised.
NeverClosed == FALSE

IsClose == ~poolOpen

\* client.timeUsed.Add(pool.idleDur).After(now)
Fresh(r, c) == IdleDur > 0 /\ timeUsed[c] + IdleDur > started[r]

\* Variant: the client is forgotten, its connection stays open.
DestoryLeaks(c) == loc' = [loc EXCEPT ![c] = "stuck"] /\ UNCHANGED timeUsed

\* client.Destory(): the connection is closed and the object forgotten.
Destory(c) ==
  /\ loc' = [loc EXCEPT ![c] = "free"]
  /\ timeUsed' = [timeUsed EXCEPT ![c] = 0]

\* createClient() when the dial succeeds; `where' says who gets the client.
createClient(c, where) ==
  /\ loc[c] = "free"
  /\ loc' = [loc EXCEPT ![c] = where]
  /\ timeUsed' = [timeUsed EXCEPT ![c] = now]

\* Variants: the handler forgets conn.Close(), or closes the connection itself.
ConnForgotten(c) == UNCHANGED objects

ConnDestroyed(c) == Destory(c)

\* conn.Close(), deferred by the handler, starts a goroutine for the client.
ConnClose(c) == loc' = [loc EXCEPT ![c] = "closing"] /\ UNCHANGED timeUsed

Goto(r, label) == pc' = [pc EXCEPT ![r] = label]

EndRequest(r) ==
  /\ Goto(r, "idle")
  /\ ctxDone' = [ctxDone EXCEPT ![r] = FALSE]
  /\ tries' = [tries EXCEPT ![r] = 0]

\* Variants: `c <= grpcRetryTimesInt' in the retry loop; a loop that does not count.
MayRetryOnceMore(r) == tries[r] <= RetryTimes

CountForgotten(r) == tries[r]

MayRetry(r) == tries[r] < RetryTimes

Counted(r) == tries[r] + 1

\* A call of the director that returned an error: the handler calls it again,
\* RetryTimes times at most, then the request ends with that error.
DirectorError(r) ==
  /\ IF MayRetry(r)
       THEN /\ Goto(r, "enter")
            /\ tries' = [tries EXCEPT ![r] = Counted(r)]
            /\ UNCHANGED ctxDone
       ELSE EndRequest(r)
  /\ started' = [started EXCEPT ![r] = 0]

------------------------------------------------------------------------------
(* Acquire, called by the handler of request r.                            *)

\* A request arrives and its handler calls the director.
Arrive(r) ==
  /\ pc[r] = "idle"
  /\ Goto(r, "enter")
  /\ UNCHANGED <<now, channel, objects, conn, ctxDone, started, tries>>

\* IsClose() is false and Acquire reads the clock.
CheckOpen(r) ==
  /\ pc[r] = "enter"
  /\ ~IsClose
  /\ Goto(r, "select")
  /\ started' = [started EXCEPT ![r] = now]
  /\ UNCHANGED <<now, channel, objects, conn, ctxDone, tries>>

\* IsClose() is true: "Pool is closed".
CheckClosed(r) ==
  /\ pc[r] = "enter"
  /\ IsClose
  /\ DirectorError(r)
  /\ UNCHANGED <<now, channel, objects, conn>>

\* The select evaluates its channel operand once, before it blocks.
EnterSelect(r) ==
  /\ pc[r] = "select"
  /\ Goto(r, IF poolOpen THEN "wait" ELSE "waitNil")
  /\ UNCHANGED <<now, channel, objects, conn, ctxDone, started, tries>>

\* case <-ctx.Done()
CtxReady(r) == pc[r] \in {"wait", "waitNil"} /\ ctxDone[r]

\* In STRICT_MODE: no client and no error, which the director turns into
\* "unknown method".
CtxDoneStrict(r) ==
  /\ CtxReady(r)
  /\ DirectorError(r)
  /\ UNCHANGED <<now, channel, objects, conn>>

\* In LOOSE_MODE: perhaps a new connection goes into the channel, and then the
\* handler receives, without looking at ctx any more.
CtxDoneLoose(r) ==
  /\ CtxReady(r)
  /\ Goto(r, IF poolOpen THEN "loose" ELSE "looseNil")
  /\ IF MayGrow
       THEN \E c \in Clients : createClient(c, "queued") /\ clients' = Append(clients, c)
       ELSE UNCHANGED <<clients, objects>>
  /\ UNCHANGED <<now, poolOpen, drain, conn, ctxDone, started, tries>>

\* In any other mode: the select ends without a client.
CtxDoneOther(r) ==
  /\ CtxReady(r)
  /\ Goto(r, "create")
  /\ UNCHANGED <<now, channel, objects, conn, ctxDone, started, tries>>

CtxDone(r) ==
  IF Mode = STRICT_MODE THEN CtxDoneStrict(r)
  ELSE IF Mode = LOOSE_MODE THEN CtxDoneLoose(r)
  ELSE CtxDoneOther(r)

\* The client received from the channel becomes the handler's.
TakeHead(r) ==
  /\ clients # <<>>
  /\ clients' = Tail(clients)
  /\ conn' = [conn EXCEPT ![r] = Head(clients)]
  /\ loc' = [loc EXCEPT ![Head(clients)] = "held"]
  /\ Goto(r, "have")

\* return <-pool.clients in LOOSE_MODE: whatever comes, without the idle test.
ReceiveLoose(r) ==
  /\ pc[r] = "loose"
  /\ TakeHead(r)
  /\ UNCHANGED <<now, poolOpen, drain, timeUsed, ctxDone, started, tries>>

\* case client = <-pool.clients, a client that was used recently enough.
ReceiveFresh(r) ==
  /\ pc[r] = "wait"
  /\ TakeHead(r)
  /\ Fresh(r, Head(clients))
  /\ timeUsed' = [timeUsed EXCEPT ![Head(clients)] = started[r]]
  /\ UNCHANGED <<now, poolOpen, drain, ctxDone, started, tries>>

\* case client = <-pool.clients, an idle client: it is destroyed.
ReceiveIdle(r) ==
  /\ pc[r] = "wait"
  /\ clients # <<>>
  /\ ~Fresh(r, Head(clients))
  /\ Destory(Head(clients))
  /\ clients' = Tail(clients)
  /\ Goto(r, "create")
  /\ UNCHANGED <<now, poolOpen, drain, conn, ctxDone, started, tries>>

\* Variant: the new client is put into the channel and returned as well.
CreateShared(r, c) ==
  /\ pc[r] = "create"
  /\ createClient(c, "held")
  /\ clients' = Append(clients, c)
  /\ conn' = [conn EXCEPT ![r] = c]
  /\ Goto(r, "have")
  /\ UNCHANGED <<now, poolOpen, drain, ctxDone, started, tries>>

\* createClient() at the end of Acquire.
CreateOk(r, c) ==
  /\ pc[r] = "create"
  /\ createClient(c, "held")
  /\ conn' = [conn EXCEPT ![r] = c]
  /\ Goto(r, "have")
  /\ UNCHANGED <<now, channel, ctxDone, started, tries>>

CreateFail(r) ==
  /\ pc[r] = "create"
  /\ FactoryMayFail
  /\ DirectorError(r)
  /\ UNCHANGED <<now, channel, objects, conn>>

\* The handler returns, its deferred conn.Close() runs.
Finish(r) ==
  /\ pc[r] = "have"
  /\ ConnClose(conn[r])
  /\ conn' = [conn EXCEPT ![r] = NoClient]
  /\ started' = [started EXCEPT ![r] = 0]
  /\ EndRequest(r)
  /\ UNCHANGED <<now, channel>>

------------------------------------------------------------------------------
(* The goroutine of Client.Close for client c.                             *)

\* pool.IsClose(): the client is destroyed.
CloseDestroys(c) ==
  /\ loc[c] = "closing"
  /\ IsClose
  /\ Destory(c)
  /\ UNCHANGED <<now, channel, handlers>>

\* The pool is open: the client has just been used.
CloseStamps(c) ==
  /\ loc[c] = "closing"
  /\ ~IsClose
  /\ loc' = [loc EXCEPT ![c] = "returning"]
  /\ timeUsed' = [timeUsed EXCEPT ![c] = now]
  /\ UNCHANGED <<now, channel, handlers>>

\* client.pool.clients is read a second time, as the channel to send to.
CloseEvaluates(c) ==
  /\ loc[c] = "returning"
  /\ loc' = [loc EXCEPT ![c] = IF poolOpen THEN "sending" ELSE "stuck"]
  /\ UNCHANGED <<now, channel, timeUsed, handlers>>

\* client.pool.clients <- client
CloseSends(c) ==
  /\ loc[c] = "sending"
  /\ Len(clients) < PoolSize
  /\ loc' = [loc EXCEPT ![c] = "queued"]
  /\ clients' = Append(clients, c)
  /\ UNCHANGED <<now, poolOpen, drain, timeUsed, handlers>>

------------------------------------------------------------------------------
(* Pool.Close and the goroutine it starts.                                 *)

PoolClose ==
  /\ MayClose
  /\ poolOpen
  /\ poolOpen' = FALSE
  /\ drain' = "test"
  /\ UNCHANGED <<now, clients, objects, handlers>>

\* for len(clients) > 0
DrainTest ==
  /\ drain = "test"
  /\ drain' = IF clients # <<>> THEN "recv" ELSE "done"
  /\ UNCHANGED <<now, clients, poolOpen, objects, handlers>>

\* client := <-clients; client.Destory()
DrainDestroys ==
  /\ drain = "recv"
  /\ clients # <<>>
  /\ Destory(Head(clients))
  /\ clients' = Tail(clients)
  /\ drain' = "test"
  /\ UNCHANGED <<now, poolOpen, handlers>>

------------------------------------------------------------------------------
(* Environment.                                                            *)

\* The caller cancels the request or its deadline passes; once the handler
\* has its connection the pool does not look at ctx any more.
Cancel(r) ==
  /\ pc[r] \notin {"idle", "have"}
  /\ ~ctxDone[r]
  /\ ctxDone' = [ctxDone EXCEPT ![r] = TRUE]
  /\ UNCHANGED <<now, channel, objects, pc, conn, started, tries>>

Tick ==
  /\ now < MaxTime
  /\ now' = now + 1
  /\ UNCHANGED <<channel, objects, handlers>>

------------------------------------------------------------------------------

\* initPool has dialled StartNum connections and NewPool has returned.
Init ==
  /\ now = 0
  /\ clients \in [1 .. StartNum -> Clients]
  /\ \A i, j \in 1 .. StartNum : clients[i] = clients[j] => i = j
  /\ poolOpen = TRUE
  /\ drain = "off"
  /\ loc = [c \in Clients |-> IF \E i \in 1 .. StartNum : clients[i] = c
                                THEN "queued" ELSE "free"]
  /\ timeUsed = [c \in Clients |-> 0]
  /\ pc = [r \in Requests |-> "idle"]
  /\ conn = [r \in Requests |-> NoClient]
  /\ ctxDone = [r \in Requests |-> FALSE]
  /\ started = [r \in Requests |-> 0]
  /\ tries = [r \in Requests |-> 0]

Acquire(r) ==
  \/ CheckOpen(r) \/ CheckClosed(r) \/ EnterSelect(r)
  \/ CtxDone(r)
  \/ ReceiveLoose(r) \/ ReceiveFresh(r) \/ ReceiveIdle(r)
  \/ CreateFail(r) \/ \E c \in Clients : CreateOk(r, c)

Close(c) == CloseDestroys(c) \/ CloseStamps(c) \/ CloseEvaluates(c) \/ CloseSends(c)

Drain == DrainTest \/ DrainDestroys

Next ==
  \/ \E r \in Requests : Arrive(r) \/ Acquire(r) \/ Finish(r) \/ Cancel(r)
  \/ \E c \in Clients : Close(c)
  \/ PoolClose \/ Drain
  \/ Tick

Spec == Init /\ [][Next]_vars

\* Scheduling.  Goroutines run (WF); a receiver blocked on a channel is in the
\* channel's FIFO wait queue, so it is served if clients keep coming (SF); a
\* proxied stream ends (WF on Finish).  Nothing makes a caller cancel.
Receive(r) == ReceiveLoose(r) \/ ReceiveFresh(r) \/ ReceiveIdle(r)

Fairness ==
  /\ \A r \in Requests : /\ WF_vars(Acquire(r))
                         /\ SF_vars(Receive(r))
                         /\ WF_vars(Finish(r))
  /\ \A c \in Clients : WF_vars(Close(c))
  /\ WF_vars(Drain)

FairSpec == Spec /\ Fairness

------------------------------------------------------------------------------
(* Safety.                                                                 *)

Live == {c \in Clients : loc[c] # "free"}

Creating == {r \in Requests : pc[r] = "create"}

InUse == {c \in Clients : loc[c] \notin {"free", "queued"}}

DocumentedMode == Mode \in {STRICT_MODE, LOOSE_MODE}

\* A connection has one owner: no two handlers hold it, no handler holds one
\* that is also in the channel, and none is in the channel twice.  Acquire
\* and the asynchronous Client.Close hand clients over without a lock.
OneOwner ==
  /\ \A r, s \in Requests :
       pc[r] = "have" /\ pc[s] = "have" /\ conn[r] = conn[s] => r = s
  /\ \A r \in Requests : pc[r] = "have" => conn[r] \in Clients /\ loc[conn[r]] = "held"
  /\ \A i, j \in 1 .. Len(clients) : clients[i] = clients[j] => i = j
  /\ \A i \in 1 .. Len(clients) : loc[clients[i]] = "queued"

\* A connection that is handed out has a handler that will give it back: none
\* is lost between the channel, the handlers and the closing goroutines.
HeldHasOwner ==
  \A c \in Clients : loc[c] = "held" => \E r \in Requests : pc[r] = "have" /\ conn[r] = c

\* Acquire dials only to replace a client it has destroyed, so the clients
\* alive and the replacements under way never exceed the initial number,
\* whatever fails and whenever the pool is closed.
ConnsBounded == DocumentedMode => Cardinality(Live) + Cardinality(Creating) <= StartNum

\* The goroutine of Client.Close never blocks on a full channel: it runs
\* detached, nobody would notice that it and its connection are lost.
ReturnNeverBlocks ==
  DocumentedMode => \A c \in Clients : loc[c] = "sending" => Len(clients) < PoolSize

\* GetConnCurrent, the number the metrics API reports for the pool, is never
\* below the number of connections in use or being returned.
MetricsCoverInUse == DocumentedMode /\ poolOpen => Cardinality(InUse) <= GetConnCurrent

\* With no dial failing, an open pool neither loses a connection nor gains one:
\* every slot of the start is a live client or a replacement being dialled,
\* although clients are destroyed and dialled again one by one.
NoConnLost ==
  DocumentedMode /\ poolOpen /\ ~FactoryMayFail =>
    Cardinality(Live) + Cardinality(Creating) = StartNum

\* The inductive invariant behind the safety properties.
IInv == TypeOK /\ OneOwner /\ HeldHasOwner /\ ConnsBounded

\* The pool implements a lease of connections to requests.
Lessee(c) == CHOOSE r \in Requests : pc[r] = "have" /\ conn[r] = c

leaseOf == [c \in Clients |-> IF loc[c] = "free" THEN "absent"
                              ELSE IF loc[c] = "held" THEN Lessee(c)
                              ELSE "pooled"]

Lease == INSTANCE ConnLease WITH Size <- PoolSize, lease <- leaseOf,
                                 absent <- "absent", pooled <- "pooled"

LeaseSpec == Lease!LeaseSpec

------------------------------------------------------------------------------
(* Liveness, under FairSpec.                                               *)

InAcquire(r) == pc[r] \notin {"idle", "have"}

\* A request that waits for a connection ends up with one, or with an error,
\* even when nobody cancels it: connections circulate.
AcquireEnds == \A r \in Requests : InAcquire(r) ~> ~InAcquire(r)

\* A request that is cancelled, or whose deadline has passed, while it waits
\* does not wait for ever: it gets a connection, dialled if need be ("or none
\* was obtained in the non-strict mode: create a new connection"), or an error.
DoneRequestReturns ==
  \A r \in Requests : (InAcquire(r) /\ ctxDone[r]) ~> ~InAcquire(r)

\* A connection that a handler still has when the pool is closed is destroyed
\* when the handler gives it back.
HeldAtCloseIsDestroyed ==
  \A c \in Clients : (loc[c] = "held" /\ ~poolOpen) ~> loc[c] = "free"

\* "If the connection pool is closed, destroy directly": every connection of
\* a closed pool is destroyed in the end, the ones on their way back included.
ClosedPoolEmpties ==
  \A c \in Clients : (loc[c] # "free" /\ ~poolOpen) ~> loc[c] = "free"

\* "Default number of connections (grows automatically)": a pool that is
\* exhausted again and again, with requests whose deadline has passed waiting
\* for a connection, dials more connections than it was started with.
Exhausted == Size = 0 /\ \E r \in Requests : pc[r] = "loose"

GrowsUnderLoad == []<>Exhausted => <>(Cardinality(Live) > StartNum)
==============================================================================
