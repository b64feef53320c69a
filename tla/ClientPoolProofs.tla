-------------------------- MODULE ClientPoolProofs --------------------------
(***************************************************************************)
(* Theorems about ClientPool, for every number of requests, connections    *)
(* and retries, every pool size and both documented modes.                 *)
(***************************************************************************)
EXTENDS ClientPool, FiniteSetTheorems, SequenceTheorems, TLAPS

\* Names for tuples of variables and for parts of actions, expanded throughout.
USE DEF channel, objects, handlers, IsClose, CtxReady, TakeHead, ConnClose,
        EndRequest, MayRetry, Counted

(***************************************************************************)
(* Type correctness.                                                       *)
(***************************************************************************)

\* The channel made by initPool holds the initial clients.
LEMMA StartNumType == StartNum \in Nat /\ StartNum <= PoolSize
  BY PoolAssumption DEF StartNum

LEMMA InitType == Init => TypeOK
<1> SUFFICES ASSUME Init PROVE TypeOK
  OBVIOUS
<1>1. clients \in Seq(Clients)
  BY StartNumType, SeqDef DEF Init
<1> QED
  BY <1>1, PoolAssumption DEF Init, TypeOK, ClientLocs, HandlerPcs

\* The director's error path keeps the handler's variables typed.
LEMMA DirectorErrorType ==
  ASSUME TypeOK, NEW r \in Requests, DirectorError(r)
  PROVE  /\ pc' \in [Requests -> HandlerPcs]
         /\ ctxDone' \in [Requests -> BOOLEAN]
         /\ started' \in [Requests -> Nat]
         /\ tries' \in [Requests -> 0 .. RetryTimes]
<1>1. pc' \in [Requests -> HandlerPcs]
  BY DEF TypeOK, DirectorError, Goto, HandlerPcs
<1>2. ctxDone' \in [Requests -> BOOLEAN] /\ started' \in [Requests -> Nat]
  BY DEF TypeOK, DirectorError
<1>3. tries' \in [Requests -> 0 .. RetryTimes]
  <2>1. RetryTimes \in Nat /\ tries \in [Requests -> 0 .. RetryTimes]
    BY PoolAssumption DEF TypeOK
  <2>2. CASE tries[r] < RetryTimes
    <3>1. tries[r] + 1 \in 0 .. RetryTimes
      BY <2>1, <2>2
    <3> QED
      BY <2>1, <2>2, <3>1 DEF DirectorError
  <2>3. CASE ~(tries[r] < RetryTimes)
    BY <2>1, <2>3 DEF DirectorError
  <2> QED
    BY <2>2, <2>3
<1> QED
  BY <1>1, <1>2, <1>3

\* Receiving the head of the channel.
LEMMA HeadTail ==
  ASSUME TypeOK, clients # <<>>
  PROVE  /\ Len(clients) \in Nat \ {0}
         /\ Head(clients) \in Clients
         /\ Head(clients) = clients[1]
         /\ Tail(clients) \in Seq(Clients)
         /\ Len(Tail(clients)) = Len(clients) - 1
         /\ \A i \in 1 .. Len(Tail(clients)) : Tail(clients)[i] = clients[i + 1]
  BY HeadTailProperties, EmptySeq DEF TypeOK

\* Sending to the channel.
LEMMA AppendOne ==
  ASSUME TypeOK, NEW c \in Clients
  PROVE  /\ Append(clients, c) \in Seq(Clients)
         /\ Len(Append(clients, c)) = Len(clients) + 1
         /\ \A i \in 1 .. Len(clients) : Append(clients, c)[i] = clients[i]
         /\ Append(clients, c)[Len(clients) + 1] = c
  BY DEF TypeOK

\* The branch of Acquire that dials more connections than the pool was
\* started with (pool.go:138) is never taken: GetConnCurrent is the capacity
\* minus the length of the channel, so it does not exceed the capacity.
THEOREM GrowthUnreachable == TypeOK => ~MayGrow
<1> SUFFICES ASSUME TypeOK PROVE ~MayGrow
  OBVIOUS
<1>1. Size \in Nat
  BY DEF TypeOK, Size
<1>2. PoolSize \in Nat
  BY PoolAssumption
<1> QED
  BY <1>1, <1>2 DEF MayGrow, GetConnCurrent

LEMMA NextType == TypeOK /\ [Next]_vars => TypeOK'
<1> SUFFICES ASSUME TypeOK, [Next]_vars PROVE TypeOK'
  OBVIOUS
<1> USE DEF Goto, ClientLocs, HandlerPcs
<1>1. ASSUME NEW r \in Requests, Arrive(r) PROVE TypeOK'
  BY <1>1 DEF TypeOK, Arrive
<1>2. ASSUME NEW r \in Requests, Acquire(r) PROVE TypeOK'
  <2>1. CASE CheckOpen(r)
    BY <2>1 DEF TypeOK, CheckOpen
  <2>2. CASE CheckClosed(r)
    BY <2>2, DirectorErrorType DEF TypeOK, CheckClosed
  <2>3. CASE EnterSelect(r)
    BY <2>3 DEF TypeOK, EnterSelect
  <2>4. CASE Mode = STRICT_MODE /\ CtxDoneStrict(r)
    BY <2>4, DirectorErrorType DEF TypeOK, CtxDoneStrict
  <2>5. CASE Mode = LOOSE_MODE /\ CtxDoneLoose(r)
    BY <2>5, GrowthUnreachable DEF TypeOK, CtxDoneLoose
  <2>6. CASE Mode \notin {STRICT_MODE, LOOSE_MODE} /\ CtxDoneOther(r)
    BY <2>6 DEF TypeOK, CtxDoneOther
  <2>7. CASE ReceiveLoose(r)
    BY <2>7, HeadTail DEF TypeOK, ReceiveLoose
  <2>8. CASE ReceiveFresh(r)
    BY <2>8, HeadTail DEF TypeOK, ReceiveFresh
  <2>9. CASE ReceiveIdle(r)
    BY <2>9, HeadTail DEF TypeOK, ReceiveIdle, Destory
  <2>10. CASE CreateFail(r)
    BY <2>10, DirectorErrorType DEF TypeOK, CreateFail
  <2>11. ASSUME NEW c \in Clients, CreateOk(r, c) PROVE TypeOK'
    BY <2>11 DEF TypeOK, CreateOk, createClient
  <2> QED
    BY <1>2, <2>1, <2>2, <2>3, <2>4, <2>5, <2>6, <2>7, <2>8, <2>9, <2>10, <2>11
    DEF Acquire, CtxDone
<1>3. ASSUME NEW r \in Requests, Finish(r) PROVE TypeOK'
  <2>1. tries' \in [Requests -> 0 .. RetryTimes]
    BY <1>3, PoolAssumption DEF TypeOK, Finish
  <2>2. loc' \in [Clients -> ClientLocs] /\ pc' \in [Requests -> HandlerPcs]
    BY <1>3 DEF TypeOK, Finish
  <2> QED
    BY <1>3, <2>1, <2>2 DEF TypeOK, Finish
<1>4. ASSUME NEW r \in Requests, Cancel(r) PROVE TypeOK'
  BY <1>4 DEF TypeOK, Cancel
<1>5. ASSUME NEW c \in Clients, Close(c) PROVE TypeOK'
  <2>1. CASE CloseDestroys(c)
    BY <2>1 DEF TypeOK, CloseDestroys, Destory
  <2>2. CASE CloseStamps(c)
    BY <2>2 DEF TypeOK, CloseStamps
  <2>3. CASE CloseEvaluates(c)
    BY <2>3 DEF TypeOK, CloseEvaluates
  <2>4. CASE CloseSends(c)
    BY <2>4, AppendOne DEF TypeOK, CloseSends
  <2> QED
    BY <1>5, <2>1, <2>2, <2>3, <2>4 DEF Close
<1>6. CASE PoolClose
  BY <1>6 DEF TypeOK, PoolClose
<1>7. CASE Drain
  <2>1. CASE DrainTest
    BY <2>1 DEF TypeOK, DrainTest
  <2>2. CASE DrainDestroys
    BY <2>2, HeadTail DEF TypeOK, DrainDestroys, Destory
  <2> QED
    BY <1>7, <2>1, <2>2 DEF Drain
<1>8. CASE Tick
  BY <1>8 DEF TypeOK, Tick
<1>9. CASE UNCHANGED vars
  BY <1>9 DEF TypeOK, vars
<1> QED
  BY <1>1, <1>2, <1>3, <1>4, <1>5, <1>6, <1>7, <1>8, <1>9 DEF Next

\* Every variable keeps its type, whatever the goroutines do.
THEOREM TypeCorrect == Spec => []TypeOK
  BY InitType, NextType, PTL DEF Spec

(***************************************************************************)
(* Ownership.  The two parts of IInv about who owns a connection, without  *)
(* the counting, form an inductive invariant of their own.                 *)
(***************************************************************************)

Owned == OneOwner /\ HeldHasOwner

LEMMA InitOwned == Init => Owned
<1> SUFFICES ASSUME Init PROVE Owned
  OBVIOUS
<1>1. clients \in [1 .. StartNum -> Clients] /\ Len(clients) = StartNum
  BY StartNumType DEF Init
<1>2. \A i \in 1 .. Len(clients) : loc[clients[i]] = "queued"
  BY <1>1 DEF Init
<1>3. \A c \in Clients : loc[c] # "held"
  BY DEF Init
<1> QED
  BY <1>1, <1>2, <1>3 DEF Owned, OneOwner, HeldHasOwner, Init

\* A step that gives the head of the channel to request r.
LEMMA GiveHead ==
  ASSUME TypeOK, Owned, NEW r \in Requests, clients # <<>>, pc[r] # "have",
         clients' = Tail(clients),
         loc' = [loc EXCEPT ![Head(clients)] = "held"],
         conn' = [conn EXCEPT ![r] = Head(clients)],
         pc' = [pc EXCEPT ![r] = "have"]
  PROVE  Owned'
<1> DEFINE h == Head(clients)
<1>1. h \in Clients /\ h = clients[1] /\ loc[h] = "queued"
  BY HeadTail DEF Owned, OneOwner
<1>2. \A i \in 1 .. Len(clients') : clients'[i] = clients[i + 1] /\ i + 1 \in 1 .. Len(clients)
  BY HeadTail
<1>3. \A i \in 1 .. Len(clients') : clients'[i] # h /\ clients'[i] \in Clients
  BY <1>1, <1>2, HeadTail DEF Owned, OneOwner, TypeOK
<1>4. \A i, j \in 1 .. Len(clients') : clients'[i] = clients'[j] => i = j
  <2> SUFFICES ASSUME NEW i \in 1 .. Len(clients'), NEW j \in 1 .. Len(clients'),
                      clients'[i] = clients'[j]
               PROVE  i = j
    OBVIOUS
  <2>1. i + 1 = j + 1
    BY <1>2 DEF Owned, OneOwner
  <2> QED
    BY <2>1
<1>5. \A i \in 1 .. Len(clients') : loc'[clients'[i]] = "queued"
  BY <1>2, <1>3 DEF Owned, OneOwner, TypeOK
<1>6. \A s \in Requests : pc'[s] = "have" =>
        /\ conn'[s] \in Clients /\ loc'[conn'[s]] = "held"
        /\ s # r => pc[s] = "have" /\ conn'[s] = conn[s] /\ conn[s] # h
        /\ s = r => conn'[s] = h
  BY <1>1 DEF Owned, OneOwner, TypeOK
<1>7. HeldHasOwner'
  BY <1>1 DEF Owned, HeldHasOwner, TypeOK
<1> QED
  BY <1>4, <1>5, <1>6, <1>7 DEF Owned, OneOwner

\* A step that moves one client nobody holds to another place that is neither
\* the channel nor a handler, and leaves the channel and the holders alone.
LEMMA MoveAside ==
  ASSUME TypeOK, Owned, NEW c \in Clients, NEW place \in ClientLocs \ {"queued", "held"},
         loc[c] \notin {"queued", "held"},
         loc' = [loc EXCEPT ![c] = place],
         UNCHANGED <<clients, conn, pc>>
  PROVE  Owned'
<1>1. \A d \in Clients : loc[d] \in {"queued", "held"} => loc'[d] = loc[d]
  BY DEF TypeOK
<1>2. \A d \in Clients : loc'[d] = "held" => loc[d] = "held"
  BY DEF TypeOK
<1>3. \A i \in 1 .. Len(clients) : clients[i] \in Clients
  BY DEF TypeOK
<1> QED
  BY <1>1, <1>2, <1>3 DEF Owned, OneOwner, HeldHasOwner

\* A step that destroys the head of the channel.
LEMMA DropHead ==
  ASSUME TypeOK, Owned, clients # <<>>,
         clients' = Tail(clients),
         loc' = [loc EXCEPT ![Head(clients)] = "free"],
         conn' = conn,
         \A r \in Requests : pc'[r] = "have" <=> pc[r] = "have"
  PROVE  Owned'
<1> DEFINE h == Head(clients)
<1>1. h \in Clients /\ h = clients[1] /\ loc[h] = "queued"
  BY HeadTail DEF Owned, OneOwner
<1>2. \A i \in 1 .. Len(clients') : clients'[i] = clients[i + 1] /\ i + 1 \in 1 .. Len(clients)
  BY HeadTail
<1>3. \A i \in 1 .. Len(clients') : clients'[i] # h /\ clients'[i] \in Clients
  BY <1>1, <1>2, HeadTail DEF Owned, OneOwner, TypeOK
<1>4. \A i, j \in 1 .. Len(clients') : clients'[i] = clients'[j] => i = j
  <2> SUFFICES ASSUME NEW i \in 1 .. Len(clients'), NEW j \in 1 .. Len(clients'),
                      clients'[i] = clients'[j]
               PROVE  i = j
    OBVIOUS
  <2>1. i + 1 = j + 1
    BY <1>2 DEF Owned, OneOwner
  <2> QED
    BY <2>1
<1>5. \A i \in 1 .. Len(clients') : loc'[clients'[i]] = "queued"
  BY <1>2, <1>3 DEF Owned, OneOwner, TypeOK
<1>6. \A r \in Requests : pc'[r] = "have" => conn[r] # h /\ loc'[conn[r]] = "held"
  BY <1>1 DEF Owned, OneOwner, TypeOK
<1>7. HeldHasOwner'
  BY <1>1 DEF Owned, HeldHasOwner, TypeOK
<1> QED
  BY <1>4, <1>5, <1>6, <1>7 DEF Owned, OneOwner

\* A step of a handler that neither has nor gets a connection.
LEMMA OwnersSame ==
  ASSUME Owned, UNCHANGED <<clients, loc, conn>>,
         \A r \in Requests : pc'[r] = "have" <=> pc[r] = "have"
  PROVE  Owned'
  BY DEF Owned, OneOwner, HeldHasOwner

LEMMA DirectorErrorOwners ==
  ASSUME TypeOK, NEW r \in Requests, pc[r] # "have", DirectorError(r)
  PROVE  \A s \in Requests : pc'[s] = "have" <=> pc[s] = "have"
  BY DEF TypeOK, DirectorError, Goto

LEMMA CreateOkOwned ==
  ASSUME TypeOK, Owned, NEW r \in Requests, NEW c \in Clients, CreateOk(r, c)
  PROVE  Owned'
<1> USE DEF CreateOk, createClient, Goto
<1>1. \A i \in 1 .. Len(clients) : clients[i] # c /\ loc'[clients[i]] = "queued"
  BY DEF Owned, OneOwner, TypeOK
<1>2. \A s \in Requests : pc'[s] = "have" =>
        /\ conn'[s] \in Clients /\ loc'[conn'[s]] = "held"
        /\ s # r => pc[s] = "have" /\ conn'[s] = conn[s] /\ conn[s] # c
        /\ s = r => conn'[s] = c
  BY DEF Owned, OneOwner, TypeOK
<1>3. HeldHasOwner'
  BY DEF Owned, HeldHasOwner, TypeOK
<1> QED
  BY <1>1, <1>2, <1>3 DEF Owned, OneOwner

LEMMA FinishOwned ==
  ASSUME TypeOK, Owned, NEW r \in Requests, Finish(r)
  PROVE  Owned'
<1> USE DEF Finish, Goto
<1>1. conn[r] \in Clients /\ loc[conn[r]] = "held"
  BY DEF Owned, OneOwner
<1>2. \A i \in 1 .. Len(clients) : loc'[clients[i]] = "queued"
  BY <1>1 DEF Owned, OneOwner, TypeOK
<1>3. \A s \in Requests : pc'[s] = "have" =>
        /\ s # r /\ pc[s] = "have" /\ conn'[s] = conn[s] /\ conn[s] # conn[r]
        /\ conn'[s] \in Clients /\ loc'[conn'[s]] = "held"
  BY <1>1 DEF Owned, OneOwner, TypeOK
<1>4. HeldHasOwner'
  <2> SUFFICES ASSUME NEW c \in Clients, loc'[c] = "held"
               PROVE  \E s \in Requests : pc'[s] = "have" /\ conn'[s] = c
    BY DEF HeldHasOwner
  <2>1. c # conn[r] /\ loc[c] = "held"
    BY <1>1 DEF TypeOK
  <2>2. PICK s \in Requests : pc[s] = "have" /\ conn[s] = c
    BY <2>1 DEF Owned, HeldHasOwner
  <2> QED
    BY <2>1, <2>2 DEF TypeOK
<1> QED
  BY <1>2, <1>3, <1>4 DEF Owned, OneOwner

LEMMA CloseSendsOwned ==
  ASSUME TypeOK, Owned, NEW c \in Clients, CloseSends(c)
  PROVE  Owned'
<1> USE DEF CloseSends
<1> DEFINE n == Len(clients)
<1>1. n \in Nat /\ \A i \in 1 .. n : clients[i] \in Clients /\ clients[i] # c
  BY DEF Owned, OneOwner, TypeOK
<1>2. \A i \in 1 .. Len(clients') :
        (i \in 1 .. n /\ clients'[i] = clients[i]) \/ (i = n + 1 /\ clients'[i] = c)
  BY <1>1, AppendOne
<1>3. \A i, j \in 1 .. Len(clients') : clients'[i] = clients'[j] => i = j
  BY <1>1, <1>2 DEF Owned, OneOwner
<1>4. \A i \in 1 .. Len(clients') : loc'[clients'[i]] = "queued"
  BY <1>1, <1>2 DEF Owned, OneOwner, TypeOK
<1>5. \A r \in Requests : pc[r] = "have" => conn[r] # c /\ loc'[conn[r]] = "held"
  BY DEF Owned, OneOwner, TypeOK
<1>6. HeldHasOwner'
  BY DEF Owned, HeldHasOwner, TypeOK
<1> QED
  BY <1>3, <1>4, <1>5, <1>6 DEF Owned, OneOwner

LEMMA NextOwned == TypeOK /\ Owned /\ [Next]_vars => Owned'
<1> SUFFICES ASSUME TypeOK, Owned, [Next]_vars PROVE Owned'
  OBVIOUS
<1> USE DEF Goto
<1>1. ASSUME NEW r \in Requests, Arrive(r) PROVE Owned'
  BY <1>1, OwnersSame DEF TypeOK, Arrive
<1>2. ASSUME NEW r \in Requests, Acquire(r) PROVE Owned'
  <2>1. CASE CheckOpen(r)
    BY <2>1, OwnersSame DEF TypeOK, CheckOpen
  <2>2. CASE CheckClosed(r)
    BY <2>2, OwnersSame, DirectorErrorOwners DEF CheckClosed
  <2>3. CASE EnterSelect(r)
    BY <2>3, OwnersSame DEF TypeOK, EnterSelect
  <2>4. CASE Mode = STRICT_MODE /\ CtxDoneStrict(r)
    BY <2>4, OwnersSame, DirectorErrorOwners DEF CtxDoneStrict
  <2>5. CASE Mode = LOOSE_MODE /\ CtxDoneLoose(r)
    BY <2>5, OwnersSame, GrowthUnreachable DEF TypeOK, CtxDoneLoose
  <2>6. CASE Mode \notin {STRICT_MODE, LOOSE_MODE} /\ CtxDoneOther(r)
    BY <2>6, OwnersSame DEF TypeOK, CtxDoneOther
  <2>7. CASE ReceiveLoose(r)
    BY <2>7, GiveHead DEF ReceiveLoose
  <2>8. CASE ReceiveFresh(r)
    BY <2>8, GiveHead DEF ReceiveFresh
  <2>9. CASE ReceiveIdle(r)
    BY <2>9, DropHead DEF TypeOK, ReceiveIdle, Destory
  <2>10. CASE CreateFail(r)
    BY <2>10, OwnersSame, DirectorErrorOwners DEF CreateFail
  <2>11. ASSUME NEW c \in Clients, CreateOk(r, c) PROVE Owned'
    BY <2>11, CreateOkOwned
  <2> QED
    BY <1>2, <2>1, <2>2, <2>3, <2>4, <2>5, <2>6, <2>7, <2>8, <2>9, <2>10, <2>11
    DEF Acquire, CtxDone
<1>3. ASSUME NEW r \in Requests, Finish(r) PROVE Owned'
  BY <1>3, FinishOwned
<1>4. ASSUME NEW r \in Requests, Cancel(r) PROVE Owned'
  BY <1>4, OwnersSame DEF Cancel
<1>5. ASSUME NEW c \in Clients, Close(c) PROVE Owned'
  <2> USE DEF ClientLocs
  <2>1. CASE CloseDestroys(c)
    BY <2>1, MoveAside DEF CloseDestroys, Destory
  <2>2. CASE CloseStamps(c)
    BY <2>2, MoveAside DEF CloseStamps
  <2>3. CASE CloseEvaluates(c)
    BY <2>3, MoveAside DEF CloseEvaluates
  <2>4. CASE CloseSends(c)
    BY <2>4, CloseSendsOwned
  <2> QED
    BY <1>5, <2>1, <2>2, <2>3, <2>4 DEF Close
<1>6. CASE PoolClose
  BY <1>6, OwnersSame DEF PoolClose
<1>7. CASE Drain
  <2>1. CASE DrainTest
    BY <2>1, OwnersSame DEF DrainTest
  <2>2. CASE DrainDestroys
    BY <2>2, DropHead DEF DrainDestroys, Destory
  <2> QED
    BY <1>7, <2>1, <2>2 DEF Drain
<1>8. CASE Tick
  BY <1>8, OwnersSame DEF Tick
<1>9. CASE UNCHANGED vars
  BY <1>9, OwnersSame DEF vars
<1> QED
  BY <1>1, <1>2, <1>3, <1>4, <1>5, <1>6, <1>7, <1>8, <1>9 DEF Next

\* A connection has one owner at any time: one handler, one place in the
\* channel or one goroutine, in either mode and whatever is closed.
THEOREM ConnsHaveOneOwner == Spec => []OneOwner
<1>1. Spec => [](TypeOK /\ Owned)
  <2>1. Init => TypeOK /\ Owned
    BY InitType, InitOwned
  <2>2. (TypeOK /\ Owned) /\ [Next]_vars => (TypeOK /\ Owned)'
    BY NextType, NextOwned
  <2> QED
    BY <2>1, <2>2, PTL DEF Spec
<1>2. TypeOK /\ Owned => OneOwner
  BY DEF Owned
<1> QED
  BY <1>1, <1>2, PTL

(***************************************************************************)
(* Counting.  A connection is dialled only by a request that has destroyed *)
(* one, so |Live| + |Creating| never grows.                                *)
(***************************************************************************)

LEMMA Finite == IsFiniteSet(Live) /\ IsFiniteSet(Creating)
<1>1. Live \subseteq Clients /\ Creating \subseteq Requests
  BY DEF Live, Creating
<1> QED
  BY <1>1, PoolAssumption, FS_Subset

LEMMA CountsAreNat == Cardinality(Live) \in Nat /\ Cardinality(Creating) \in Nat
  BY Finite, FS_CardinalityType

LEMMA CountsAreNatNext == Cardinality(Live') \in Nat /\ Cardinality(Creating') \in Nat
<1>1. Live' \subseteq Clients /\ Creating' \subseteq Requests
  BY DEF Live, Creating
<1>2. IsFiniteSet(Live') /\ IsFiniteSet(Creating')
  BY <1>1, PoolAssumption, FS_Subset
<1> QED
  BY <1>2, FS_CardinalityType

\* No step of this kind adds a connection or a pending dial.
LEMMA CountShrinks ==
  ASSUME ConnsBounded, Live' \subseteq Live, Creating' \subseteq Creating
  PROVE  ConnsBounded'
<1>1. Cardinality(Live') <= Cardinality(Live)
  BY Finite, FS_Subset
<1>2. Cardinality(Creating') <= Cardinality(Creating)
  BY Finite, FS_Subset
<1> QED
  BY <1>1, <1>2, CountsAreNat, CountsAreNatNext, StartNumType
  DEF ConnsBounded, DocumentedMode, StartNum

\* A client is destroyed and its receiver goes on to dial its replacement.
LEMMA CountReplace ==
  ASSUME ConnsBounded, NEW c \in Live, NEW r, r \notin Creating,
         Live' = Live \ {c}, Creating' = Creating \cup {r}
  PROVE  ConnsBounded'
<1>1. Cardinality(Live') = Cardinality(Live) - 1
  BY Finite, FS_RemoveElement
<1>2. Cardinality(Creating') = Cardinality(Creating) + 1
  BY Finite, FS_AddElement
<1> QED
  BY <1>1, <1>2, CountsAreNat, CountsAreNatNext, StartNumType
  DEF ConnsBounded, DocumentedMode, StartNum

\* The replacement is dialled.
LEMMA CountCreate ==
  ASSUME ConnsBounded, NEW c, c \notin Live, NEW r \in Creating,
         Live' = Live \cup {c}, Creating' = Creating \ {r}
  PROVE  ConnsBounded'
<1>1. Cardinality(Live') = Cardinality(Live) + 1
  BY Finite, FS_AddElement
<1>2. Cardinality(Creating') = Cardinality(Creating) - 1
  BY Finite, FS_RemoveElement
<1> QED
  BY <1>1, <1>2, CountsAreNat, CountsAreNatNext, StartNumType
  DEF ConnsBounded, DocumentedMode, StartNum

LEMMA InitCounted == Init => ConnsBounded
<1> SUFFICES ASSUME Init PROVE ConnsBounded
  OBVIOUS
<1>1. Cardinality(Live) <= StartNum
  <2>1. clients \in Surjection(1 .. StartNum, Live)
    BY StartNumType DEF Init, Live, Surjection
  <2> QED
    BY <2>1, StartNumType, FS_SurjCardinalityBound DEF ExistsSurjection
<1>2. Creating = {}
  BY DEF Init, Creating
<1>3. Cardinality(Creating) = 0
  BY <1>2, FS_EmptySet
<1> QED
  BY <1>1, <1>3, CountsAreNat, StartNumType DEF ConnsBounded

LEMMA DirectorErrorCounts ==
  ASSUME TypeOK, NEW r \in Requests, DirectorError(r)
  PROVE  Creating' \subseteq Creating
  BY DEF TypeOK, DirectorError, Goto, Creating

LEMMA NextCounted == TypeOK /\ Owned /\ ConnsBounded /\ [Next]_vars => ConnsBounded'
<1> SUFFICES ASSUME TypeOK, Owned, ConnsBounded, [Next]_vars PROVE ConnsBounded'
  OBVIOUS
<1> USE DEF Goto, Live, Creating
<1>1. ASSUME NEW r \in Requests, Arrive(r) PROVE ConnsBounded'
  BY <1>1, CountShrinks DEF TypeOK, Arrive
<1>2. ASSUME NEW r \in Requests, Acquire(r) PROVE ConnsBounded'
  <2>1. CASE CheckOpen(r)
    BY <2>1, CountShrinks DEF TypeOK, CheckOpen
  <2>2. CASE CheckClosed(r)
    BY <2>2, CountShrinks, DirectorErrorCounts DEF CheckClosed
  <2>3. CASE EnterSelect(r)
    BY <2>3, CountShrinks DEF TypeOK, EnterSelect
  <2>4. CASE Mode = STRICT_MODE /\ CtxDoneStrict(r)
    BY <2>4, CountShrinks, DirectorErrorCounts DEF CtxDoneStrict
  <2>5. CASE Mode = LOOSE_MODE /\ CtxDoneLoose(r)
    BY <2>5, CountShrinks, GrowthUnreachable DEF TypeOK, CtxDoneLoose
  <2>6. CASE Mode \notin {STRICT_MODE, LOOSE_MODE} /\ CtxDoneOther(r)
    BY <2>6 DEF ConnsBounded, DocumentedMode, CtxDoneOther
  <2>7. CASE ReceiveLoose(r)
    <3>1. Head(clients) \in Live
      BY <2>7, HeadTail DEF ReceiveLoose, Owned, OneOwner
    <3> QED
      BY <2>7, <3>1, CountShrinks DEF TypeOK, ReceiveLoose
  <2>8. CASE ReceiveFresh(r)
    <3>1. Head(clients) \in Live
      BY <2>8, HeadTail DEF ReceiveFresh, Owned, OneOwner
    <3> QED
      BY <2>8, <3>1, CountShrinks DEF TypeOK, ReceiveFresh
  <2>9. CASE ReceiveIdle(r)
    <3>1. Head(clients) \in Live
      BY <2>9, HeadTail DEF ReceiveIdle, Owned, OneOwner
    <3>2. r \notin Creating /\ Creating' = Creating \cup {r}
      BY <2>9 DEF TypeOK, ReceiveIdle
    <3>3. Live' = Live \ {Head(clients)}
      BY <2>9, <3>1 DEF TypeOK, ReceiveIdle, Destory
    <3> QED
      BY <3>1, <3>2, <3>3, CountReplace
  <2>10. CASE CreateFail(r)
    BY <2>10, CountShrinks, DirectorErrorCounts DEF CreateFail
  <2>11. ASSUME NEW c \in Clients, CreateOk(r, c) PROVE ConnsBounded'
    <3>1. c \notin Live /\ Live' = Live \cup {c}
      BY <2>11 DEF TypeOK, CreateOk, createClient
    <3>2. r \in Creating /\ Creating' = Creating \ {r}
      BY <2>11 DEF TypeOK, CreateOk
    <3> QED
      BY <3>1, <3>2, CountCreate
  <2> QED
    BY <1>2, <2>1, <2>2, <2>3, <2>4, <2>5, <2>6, <2>7, <2>8, <2>9, <2>10, <2>11
    DEF Acquire, CtxDone
<1>3. ASSUME NEW r \in Requests, Finish(r) PROVE ConnsBounded'
  BY <1>3, CountShrinks DEF TypeOK, Finish, Owned, OneOwner
<1>4. ASSUME NEW r \in Requests, Cancel(r) PROVE ConnsBounded'
  BY <1>4, CountShrinks DEF Cancel
<1>5. ASSUME NEW c \in Clients, Close(c) PROVE ConnsBounded'
  <2>1. Live' \subseteq Live
    BY <1>5
    DEF TypeOK, Close, CloseDestroys, CloseStamps, CloseEvaluates, CloseSends, Destory
  <2>2. Creating' = Creating
    BY <1>5 DEF Close, CloseDestroys, CloseStamps, CloseEvaluates, CloseSends
  <2> QED
    BY <2>1, <2>2, CountShrinks
<1>6. CASE PoolClose
  BY <1>6, CountShrinks DEF PoolClose
<1>7. CASE Drain
  <2>1. CASE DrainTest
    BY <2>1, CountShrinks DEF DrainTest
  <2>2. CASE DrainDestroys
    <3>1. Live' \subseteq Live /\ Creating' = Creating
      BY <2>2, HeadTail DEF TypeOK, DrainDestroys, Destory
    <3> QED
      BY <3>1, CountShrinks
  <2> QED
    BY <1>7, <2>1, <2>2 DEF Drain
<1>8. CASE Tick
  BY <1>8, CountShrinks DEF Tick
<1>9. CASE UNCHANGED vars
  BY <1>9, CountShrinks DEF vars
<1> QED
  BY <1>1, <1>2, <1>3, <1>4, <1>5, <1>6, <1>7, <1>8, <1>9 DEF Next

\* IInv is an inductive invariant of the pool.
THEOREM InductiveInvariant == Spec => []IInv
<1>1. Init => IInv
  BY InitType, InitOwned, InitCounted DEF IInv, Owned
<1>2. IInv /\ [Next]_vars => IInv'
  BY NextType, NextOwned, NextCounted DEF IInv, Owned
<1> QED
  BY <1>1, <1>2, PTL DEF Spec

\* In the documented modes a pool never has more connections, alive or being
\* dialled, than it was started with.
THEOREM PoolNeverGrows == Spec => []ConnsBounded
  BY InductiveInvariant, PTL DEF IInv

\* A connection that was handed out has a handler that will give it back, at
\* every moment between Acquire and the deferred conn.Close().
THEOREM ConnsAreHeldBySomeone == Spec => []HeldHasOwner
  BY InductiveInvariant, PTL DEF IInv

(***************************************************************************)
(* No slot is lost.  While the pool is open and dials succeed, a client    *)
(* that is destroyed has a request that dials its replacement, and nothing *)
(* else destroys a client: the goroutine of Pool.Close does not run yet.   *)
(***************************************************************************)

DrainAfterClose == poolOpen => drain = "off"

\* No step of this kind changes the number of slots.
LEMMA SlotsSame ==
  ASSUME NoConnLost, poolOpen' => poolOpen, Live' = Live, Creating' = Creating
  PROVE  NoConnLost'
<1> DEFINE n == Cardinality(Live)
           k == Cardinality(Creating)
<1>1. Cardinality(Live') = n /\ Cardinality(Creating') = k
  OBVIOUS
<1>2. DocumentedMode /\ poolOpen /\ ~FactoryMayFail => n + k = StartNum
  BY DEF NoConnLost
<1> QED
  BY <1>1, <1>2 DEF NoConnLost, DocumentedMode, StartNum

LEMMA SlotReplaced ==
  ASSUME NoConnLost, poolOpen' => poolOpen, NEW c \in Live, NEW r, r \notin Creating,
         Live' = Live \ {c}, Creating' = Creating \cup {r}
  PROVE  NoConnLost'
<1>1. Cardinality(Live') = Cardinality(Live) - 1
  BY Finite, FS_RemoveElement
<1>2. Cardinality(Creating') = Cardinality(Creating) + 1
  BY Finite, FS_AddElement
<1> QED
  BY <1>1, <1>2, CountsAreNat DEF NoConnLost, DocumentedMode, StartNum

LEMMA SlotDialled ==
  ASSUME NoConnLost, poolOpen' => poolOpen, NEW c, c \notin Live, NEW r \in Creating,
         Live' = Live \cup {c}, Creating' = Creating \ {r}
  PROVE  NoConnLost'
<1>1. Cardinality(Live') = Cardinality(Live) + 1
  BY Finite, FS_AddElement
<1>2. Cardinality(Creating') = Cardinality(Creating) - 1
  BY Finite, FS_RemoveElement
<1> QED
  BY <1>1, <1>2, CountsAreNat DEF NoConnLost, DocumentedMode, StartNum

LEMMA InitSlots == Init => NoConnLost /\ DrainAfterClose
<1> SUFFICES ASSUME Init PROVE NoConnLost /\ DrainAfterClose
  OBVIOUS
<1>1. clients \in Bijection(1 .. StartNum, Live)
  <2>1. clients \in Surjection(1 .. StartNum, Live)
    BY StartNumType DEF Init, Live, Surjection
  <2>2. clients \in Injection(1 .. StartNum, Live)
    <3>1. clients \in [1 .. StartNum -> Live]
      BY <2>1 DEF Surjection
    <3>2. \A i, j \in 1 .. StartNum : clients[i] = clients[j] => i = j
      BY DEF Init
    <3> QED
      BY <3>1, <3>2 DEF Injection, IsInjective
  <2> QED
    BY <2>1, <2>2 DEF Bijection
<1>2. Cardinality(Live) = StartNum
  BY <1>1, StartNumType, FS_CountingElements DEF ExistsBijection
<1>3. Creating = {}
  BY DEF Init, Creating
<1>4. Cardinality(Creating) = 0
  BY <1>3, FS_EmptySet
<1> QED
  BY <1>2, <1>4, StartNumType DEF NoConnLost, DrainAfterClose, Init

LEMMA DirectorErrorSlots ==
  ASSUME TypeOK, NEW r \in Requests, DirectorError(r), pc[r] # "create"
  PROVE  Creating' = Creating
  BY DEF TypeOK, DirectorError, Goto, Creating

LEMMA NextSlots ==
  ASSUME TypeOK, Owned, NoConnLost, DrainAfterClose, [Next]_vars
  PROVE  NoConnLost' /\ DrainAfterClose'
<1>1. DrainAfterClose' /\ (poolOpen' => poolOpen)
  BY DEF DrainAfterClose, Next, Arrive, Acquire, CheckOpen, CheckClosed, EnterSelect, CtxDone,
         CtxDoneStrict, CtxDoneLoose, CtxDoneOther, ReceiveLoose, ReceiveFresh, ReceiveIdle,
         CreateFail, CreateOk, Finish, Cancel, Close, CloseDestroys, CloseStamps, CloseEvaluates,
         CloseSends, PoolClose, Drain, DrainTest, DrainDestroys, Tick, vars
<1>2. CASE ~(DocumentedMode /\ poolOpen' /\ ~FactoryMayFail)
  BY <1>1, <1>2 DEF NoConnLost, DocumentedMode
<1>3. CASE DocumentedMode /\ poolOpen' /\ ~FactoryMayFail
  <2> SUFFICES NoConnLost'
    BY <1>1
  <2> USE DEF Goto, Live, Creating
  <2>1. poolOpen /\ drain = "off"
    BY <1>1, <1>3 DEF DrainAfterClose
  <2>2. ASSUME NEW r \in Requests, Acquire(r)
        PROVE  NoConnLost'
    <3>1. CASE CheckOpen(r)
      BY <3>1, <1>1, SlotsSame DEF TypeOK, CheckOpen
    <3>2. CASE CheckClosed(r)
      BY <3>2, <2>1 DEF CheckClosed
    <3>3. CASE EnterSelect(r)
      BY <3>3, <1>1, SlotsSame DEF TypeOK, EnterSelect
    <3>4. CASE Mode = STRICT_MODE /\ CtxDoneStrict(r)
      <4>1. Creating' = Creating /\ Live' = Live
        BY <3>4, DirectorErrorSlots DEF CtxDoneStrict
      <4> QED
        BY <4>1, <1>1, SlotsSame
    <3>5. CASE Mode = LOOSE_MODE /\ CtxDoneLoose(r)
      BY <3>5, <1>1, SlotsSame, GrowthUnreachable DEF TypeOK, CtxDoneLoose
    <3>6. CASE Mode \notin {STRICT_MODE, LOOSE_MODE} /\ CtxDoneOther(r)
      BY <3>6, <1>3 DEF DocumentedMode
    <3>7. CASE ReceiveLoose(r) \/ ReceiveFresh(r)
      <4>1. Head(clients) \in Live
        BY <3>7, HeadTail DEF ReceiveLoose, ReceiveFresh, Owned, OneOwner
      <4>2. Live' = Live /\ Creating' = Creating
        BY <3>7, <4>1 DEF TypeOK, ReceiveLoose, ReceiveFresh
      <4> QED
        BY <4>2, <1>1, SlotsSame
    <3>8. CASE ReceiveIdle(r)
      <4>1. Head(clients) \in Live
        BY <3>8, HeadTail DEF ReceiveIdle, Owned, OneOwner
      <4>2. r \notin Creating /\ Creating' = Creating \cup {r}
        BY <3>8 DEF TypeOK, ReceiveIdle
      <4>3. Live' = Live \ {Head(clients)}
        BY <3>8, <4>1 DEF TypeOK, ReceiveIdle, Destory
      <4> QED
        BY <1>1, <4>1, <4>2, <4>3, SlotReplaced
    <3>9. CASE CreateFail(r)
      BY <3>9, <1>3 DEF CreateFail
    <3>10. ASSUME NEW c \in Clients, CreateOk(r, c)
           PROVE  NoConnLost'
      <4>1. c \notin Live /\ Live' = Live \cup {c}
        BY <3>10 DEF TypeOK, CreateOk, createClient
      <4>2. r \in Creating /\ Creating' = Creating \ {r}
        BY <3>10 DEF TypeOK, CreateOk
      <4> QED
        BY <1>1, <4>1, <4>2, SlotDialled
    <3> QED
      BY <2>2, <3>1, <3>2, <3>3, <3>4, <3>5, <3>6, <3>7, <3>8, <3>9, <3>10 DEF Acquire, CtxDone
  <2>3. ASSUME NEW r \in Requests, Arrive(r) \/ Finish(r) \/ Cancel(r)
        PROVE  NoConnLost'
    <3>1. Live' = Live /\ Creating' = Creating
      BY <2>3 DEF TypeOK, Arrive, Finish, Cancel, Owned, OneOwner
    <3> QED
      BY <3>1, <1>1, SlotsSame
  <2>4. ASSUME NEW c \in Clients, Close(c)
        PROVE  NoConnLost'
    <3>1. Live' = Live /\ Creating' = Creating
      BY <2>4, <2>1 DEF TypeOK, Close, CloseDestroys, CloseStamps, CloseEvaluates, CloseSends
    <3> QED
      BY <3>1, <1>1, SlotsSame
  <2>5. CASE PoolClose \/ Drain
    BY <2>5, <2>1, <1>3 DEF PoolClose, Drain, DrainTest, DrainDestroys
  <2>6. CASE Tick \/ UNCHANGED vars
    BY <2>6, <1>1, SlotsSame DEF Tick, vars
  <2> QED
    BY <2>2, <2>3, <2>4, <2>5, <2>6 DEF Next
<1> QED
  BY <1>2, <1>3

\* An open pool whose dials succeed keeps every slot it was started with, for any
\* number of requests: each is a live client or a replacement that a request is
\* dialling (pool.go:142-158, 207-229).
THEOREM SlotsAreKept == Spec => []NoConnLost
<1>1. Init => NoConnLost /\ DrainAfterClose
  BY InitSlots
<1>2. IInv /\ NoConnLost /\ DrainAfterClose /\ [Next]_vars => NoConnLost' /\ DrainAfterClose'
  BY NextSlots DEF IInv, Owned
<1> QED
  BY <1>1, <1>2, InductiveInvariant, PTL DEF Spec

\* The channel holds as many clients as have the place "queued", at most.
LEMMA QueueCount ==
  ASSUME TypeOK, OneOwner, NEW T \in SUBSET Live, \A c \in T : loc[c] # "queued"
  PROVE  Len(clients) + Cardinality(T) <= Cardinality(Live)
<1> DEFINE Q == {c \in Clients : loc[c] = "queued"}
<1>1. Q \subseteq Live /\ IsFiniteSet(Q) /\ IsFiniteSet(T)
  BY Finite, FS_Subset DEF Live
<1>2. Len(clients) <= Cardinality(Q) /\ Cardinality(Q) \in Nat
  <2>1. Len(clients) \in Nat /\ DOMAIN clients = 1 .. Len(clients)
    BY DEF TypeOK
  <2>2. \A i \in 1 .. Len(clients) : clients[i] \in Q
    BY DEF TypeOK, OneOwner
  <2>3. clients \in [1 .. Len(clients) -> Q]
    BY <2>2, LenProperties DEF TypeOK
  <2>4. clients \in Injection(1 .. Len(clients), Q)
    BY <2>1, <2>3 DEF OneOwner, Injection, IsInjective
  <2>5. Cardinality(1 .. Len(clients)) <= Cardinality(Q)
    BY <1>1, <2>4, FS_Injection
  <2>6. Cardinality(1 .. Len(clients)) = IF 1 > Len(clients) THEN 0 ELSE Len(clients) - 1 + 1
    BY <2>1, FS_Interval
  <2>7. Cardinality(Q) \in Nat
    BY <1>1, FS_CardinalityType
  <2> QED
    BY <2>1, <2>5, <2>6, <2>7
<1>3. Cardinality(Q \cup T) = Cardinality(Q) + Cardinality(T)
  <2>1. Q \cap T = {}
    OBVIOUS
  <2>2. Cardinality(Q \cap T) = 0
    BY <2>1, FS_EmptySet
  <2>3. Cardinality(Q \cup T) = Cardinality(Q) + Cardinality(T) - Cardinality(Q \cap T)
    BY <1>1, FS_Union
  <2>4. Cardinality(Q) \in Nat /\ Cardinality(T) \in Nat
    BY <1>1, FS_CardinalityType
  <2> QED
    BY <2>2, <2>3, <2>4
<1>4. Cardinality(Q \cup T) <= Cardinality(Live)
  BY <1>1, Finite, FS_Subset
<1> QED
  BY <1>1, <1>2, <1>3, <1>4, Finite, FS_CardinalityType DEF TypeOK

\* A closing goroutine that is about to send finds room in the channel.
THEOREM ReturnsDoNotBlock == Spec => []ReturnNeverBlocks
<1>1. IInv => ReturnNeverBlocks
  <2> SUFFICES ASSUME IInv, DocumentedMode, NEW c \in Clients, loc[c] = "sending"
               PROVE  Len(clients) < PoolSize
    BY DEF ReturnNeverBlocks
  <2>1. {c} \in SUBSET Live /\ \A d \in {c} : loc[d] # "queued"
    BY DEF Live
  <2>2. Cardinality({c}) = 1
    BY FS_Singleton
  <2>3. Len(clients) + 1 <= Cardinality(Live)
    BY <2>1, <2>2, QueueCount DEF IInv
  <2>4. Cardinality(Live) <= PoolSize
    BY CountsAreNat, StartNumType, PoolAssumption DEF IInv, ConnsBounded
  <2> QED
    BY <2>3, <2>4, CountsAreNat, PoolAssumption DEF IInv, TypeOK
<1> QED
  BY <1>1, InductiveInvariant, PTL

\* The metrics API never reports fewer connections than there are in use.
THEOREM MetricsAreSafe == Spec => []MetricsCoverInUse
<1>1. IInv => MetricsCoverInUse
  <2> SUFFICES ASSUME IInv, DocumentedMode, poolOpen
               PROVE  Cardinality(InUse) <= GetConnCurrent
    BY DEF MetricsCoverInUse
  <2>1. InUse \in SUBSET Live /\ \A d \in InUse : loc[d] # "queued"
    BY DEF Live, InUse
  <2>2. Len(clients) + Cardinality(InUse) <= Cardinality(Live)
    BY <2>1, QueueCount DEF IInv
  <2>3. Cardinality(Live) <= PoolSize
    BY CountsAreNat, StartNumType, PoolAssumption DEF IInv, ConnsBounded
  <2>4. Cardinality(InUse) \in Nat
    BY <2>1, Finite, FS_Subset, FS_CardinalityType
  <2>5. Len(clients) \in Nat /\ Size = Len(clients)
    BY DEF IInv, TypeOK, Size
  <2> QED
    BY <2>2, <2>3, <2>4, <2>5, CountsAreNat, PoolAssumption DEF GetConnCurrent
<1> QED
  BY <1>1, InductiveInvariant, PTL

(***************************************************************************)
(* The pool implements the lease.                                          *)
(***************************************************************************)

\* What the refinement mapping says of each client.
LeaseMeaning ==
  /\ leaseOf \in [Clients -> Requests \cup {"absent", "pooled"}]
  /\ \A c \in Clients :
       /\ loc[c] = "free" <=> leaseOf[c] = "absent"
       /\ loc[c] \notin {"free", "held"} <=> leaseOf[c] = "pooled"
       /\ \A r \in Requests : leaseOf[c] = r <=> pc[r] = "have" /\ conn[r] = c

LEMMA LeaseMeans == TypeOK /\ Owned => LeaseMeaning
<1> SUFFICES ASSUME TypeOK, Owned PROVE LeaseMeaning
  OBVIOUS
<1>1. \A c \in Clients : loc[c] = "held" =>
        Lessee(c) \in Requests /\ pc[Lessee(c)] = "have" /\ conn[Lessee(c)] = c
  BY DEF Owned, HeldHasOwner, Lessee
<1>2. \A c \in Clients : \A r \in Requests :
        pc[r] = "have" /\ conn[r] = c => loc[c] = "held" /\ Lessee(c) = r
  BY <1>1 DEF Owned, OneOwner
<1>3. leaseOf \in [Clients -> Requests \cup {"absent", "pooled"}]
  BY <1>1 DEF leaseOf
<1>4. \A c \in Clients : leaseOf[c] = IF loc[c] = "free" THEN "absent"
                                      ELSE IF loc[c] = "held" THEN Lessee(c)
                                      ELSE "pooled"
  BY DEF leaseOf
<1>5. \A r \in Requests : r # "absent" /\ r # "pooled"
  BY PoolAssumption
<1>6. ASSUME NEW c \in Clients
      PROVE  /\ loc[c] = "free" <=> leaseOf[c] = "absent"
             /\ loc[c] \notin {"free", "held"} <=> leaseOf[c] = "pooled"
             /\ \A r \in Requests : leaseOf[c] = r <=> pc[r] = "have" /\ conn[r] = c
  <2>1. CASE loc[c] = "free"
    BY <2>1, <1>2, <1>4, <1>5
  <2>2. CASE loc[c] = "held"
    BY <2>2, <1>1, <1>2, <1>4, <1>5
  <2>3. CASE loc[c] \notin {"free", "held"}
    BY <2>3, <1>2, <1>4, <1>5
  <2> QED
    BY <2>1, <2>2, <2>3
<1> QED
  BY <1>3, <1>6 DEF LeaseMeaning

\* The same of the state after a step.
LEMMA LeaseMeansNext == TypeOK' /\ Owned' => LeaseMeaning'
  BY LeaseMeans, PTL

\* The instance has its own name for the cardinality of FiniteSets.
LEMMA SameCardinality == \A S : Lease!Cardinality(S) = Cardinality(S)
  BY DEF Lease!Cardinality, Cardinality

LEMMA ExistingIsLive == LeaseMeaning => Lease!Existing = Live
  BY DEF LeaseMeaning, Lease!Existing, Live

LEMMA InitLease == DocumentedMode /\ Init => Lease!LeaseInit
<1> SUFFICES ASSUME DocumentedMode, Init PROVE Lease!LeaseInit
  OBVIOUS
<1>1. leaseOf \in [Clients -> {"absent", "pooled"}]
  BY DEF Init, leaseOf
<1>2. Lease!Existing = Live
  BY InitType, InitOwned, LeaseMeans, ExistingIsLive
<1>3. Cardinality(Live) <= PoolSize
  BY InitCounted, CountsAreNat, StartNumType, PoolAssumption DEF ConnsBounded
<1> QED
  BY <1>1, <1>2, <1>3, SameCardinality DEF Lease!LeaseInit

\* A step that moves no connection in or out of a handler or of existence.
LEMMA LeaseStutter ==
  ASSUME LeaseMeaning, LeaseMeaning', UNCHANGED conn,
         \A r \in Requests : pc'[r] = "have" <=> pc[r] = "have",
         \A c \in Clients : /\ loc'[c] = "free" <=> loc[c] = "free"
                            /\ loc'[c] = "held" <=> loc[c] = "held"
  PROVE  UNCHANGED leaseOf
<1> SUFFICES ASSUME NEW c \in Clients PROVE leaseOf'[c] = leaseOf[c]
  BY DEF LeaseMeaning
<1>1. CASE loc[c] = "free"
  BY <1>1 DEF LeaseMeaning
<1>2. CASE loc[c] = "held"
  BY <1>2 DEF LeaseMeaning
<1>3. CASE loc[c] \notin {"free", "held"}
  BY <1>3 DEF LeaseMeaning
<1> QED
  BY <1>1, <1>2, <1>3

\* A step that changes the place or the holder of client c only.
LEMMA LeaseMove ==
  ASSUME LeaseMeaning, LeaseMeaning', NEW c \in Clients,
         \A d \in Clients \ {c} :
           /\ loc'[d] = loc[d]
           /\ \A r \in Requests : pc'[r] = "have" /\ conn'[r] = d
                                    <=> pc[r] = "have" /\ conn[r] = d
  PROVE  leaseOf' = [leaseOf EXCEPT ![c] = leaseOf'[c]]
<1>1. ASSUME NEW d \in Clients \ {c} PROVE leaseOf'[d] = leaseOf[d]
  <2>1. CASE loc[d] = "free"
    BY <2>1 DEF LeaseMeaning
  <2>2. CASE loc[d] = "held"
    BY <2>2 DEF LeaseMeaning
  <2>3. CASE loc[d] \notin {"free", "held"}
    BY <2>3 DEF LeaseMeaning
  <2> QED
    BY <2>1, <2>2, <2>3
<1> QED
  BY <1>1 DEF LeaseMeaning

LEMMA NoLease ==
  ASSUME LeaseMeaning, NEW r \in Requests, pc[r] # "have"
  PROVE  ~Lease!HasLease(r)
  BY DEF LeaseMeaning, Lease!HasLease

\* The pool destroys a client that it owns.
LEMMA RetireStep ==
  ASSUME TypeOK, LeaseMeaning, LeaseMeaning', NEW c \in Clients,
         loc[c] \notin {"free", "held"},
         loc' = [loc EXCEPT ![c] = "free"],
         UNCHANGED conn,
         \A r \in Requests : pc'[r] = "have" <=> pc[r] = "have"
  PROVE  Lease!Retire(c)
<1>1. leaseOf' = [leaseOf EXCEPT ![c] = leaseOf'[c]]
  BY LeaseMove DEF TypeOK
<1>2. leaseOf[c] = "pooled" /\ leaseOf'[c] = "absent"
  BY DEF LeaseMeaning, TypeOK
<1> QED
  BY <1>1, <1>2 DEF Lease!Retire

\* The pool hands a client to request r.
LEMMA GrantStep ==
  ASSUME TypeOK, Owned, LeaseMeaning, LeaseMeaning', NEW r \in Requests,
         clients # <<>>, pc[r] # "have",
         loc' = [loc EXCEPT ![Head(clients)] = "held"],
         conn' = [conn EXCEPT ![r] = Head(clients)],
         pc' = [pc EXCEPT ![r] = "have"]
  PROVE  Head(clients) \in Clients /\ Lease!Grant(r, Head(clients))
<1> DEFINE h == Head(clients)
<1>1. h \in Clients /\ loc[h] = "queued"
  BY HeadTail DEF Owned, OneOwner
<1>2. leaseOf' = [leaseOf EXCEPT ![h] = leaseOf'[h]]
  <2>1. \A d \in Clients \ {h} :
           /\ loc'[d] = loc[d]
           /\ \A s \in Requests : pc'[s] = "have" /\ conn'[s] = d
                                    <=> pc[s] = "have" /\ conn[s] = d
    BY <1>1 DEF TypeOK
  <2> QED
    BY <1>1, <2>1, LeaseMove
<1>3. leaseOf[h] = "pooled"
  BY <1>1 DEF LeaseMeaning
<1>4. pc'[r] = "have" /\ conn'[r] = h
  BY DEF TypeOK
<1>5. leaseOf'[h] = r
  BY <1>1, <1>4 DEF LeaseMeaning
<1> QED
  BY <1>1, <1>2, <1>3, <1>5, NoLease DEF Lease!Grant

LEMMA OpenStep ==
  ASSUME DocumentedMode, IInv, LeaseMeaning, LeaseMeaning',
         NEW r \in Requests, NEW c \in Clients, CreateOk(r, c)
  PROVE  Lease!Open(r, c)
<1> USE DEF CreateOk, createClient, Goto
<1>1. leaseOf' = [leaseOf EXCEPT ![c] = leaseOf'[c]]
  <2>1. \A d \in Clients \ {c} :
           /\ loc'[d] = loc[d]
           /\ \A s \in Requests : pc'[s] = "have" /\ conn'[s] = d
                                    <=> pc[s] = "have" /\ conn[s] = d
    BY DEF IInv, TypeOK
  <2> QED
    BY <2>1, LeaseMove
<1>2. leaseOf[c] = "absent" /\ leaseOf'[c] = r
  BY DEF LeaseMeaning, IInv, TypeOK
<1>3. Cardinality(Lease!Existing) < PoolSize
  <2>1. Creating # {}
    BY DEF Creating
  <2>2. Cardinality(Creating) # 0
    BY <2>1, Finite, FS_EmptySet
  <2>3. Cardinality(Live) + Cardinality(Creating) <= StartNum
    BY DEF IInv, ConnsBounded
  <2> QED
    BY <2>2, <2>3, CountsAreNat, StartNumType, ExistingIsLive, PoolAssumption
<1> QED
  BY <1>1, <1>2, <1>3, NoLease, SameCardinality DEF Lease!Open

LEMMA GiveBackStep ==
  ASSUME IInv, LeaseMeaning, LeaseMeaning', NEW r \in Requests, Finish(r)
  PROVE  conn[r] \in Clients /\ Lease!GiveBack(r, conn[r])
<1> USE DEF Finish, Goto
<1>1. conn[r] \in Clients
  BY DEF IInv, OneOwner
<1>2. leaseOf' = [leaseOf EXCEPT ![conn[r]] = leaseOf'[conn[r]]]
  <2>1. \A d \in Clients \ {conn[r]} :
           /\ loc'[d] = loc[d]
           /\ \A s \in Requests : pc'[s] = "have" /\ conn'[s] = d
                                    <=> pc[s] = "have" /\ conn[s] = d
    BY DEF IInv, TypeOK
  <2> QED
    BY <1>1, <2>1, LeaseMove
<1>3. leaseOf[conn[r]] = r /\ leaseOf'[conn[r]] = "pooled"
  BY <1>1 DEF LeaseMeaning, IInv, TypeOK
<1> QED
  BY <1>1, <1>2, <1>3 DEF Lease!GiveBack

\* Every step of the pool is a step of the lease or changes no lease.
LEMMA LeaseStep ==
  ASSUME DocumentedMode, IInv, IInv', [Next]_vars
  PROVE  [Lease!LeaseNext]_leaseOf
<1>1. TypeOK /\ Owned /\ LeaseMeaning /\ LeaseMeaning'
  BY LeaseMeans, LeaseMeansNext DEF IInv, Owned
<1> USE DEF Goto
<1>2. ASSUME NEW r \in Requests, Arrive(r) PROVE UNCHANGED leaseOf
  BY <1>1, <1>2, LeaseStutter DEF TypeOK, Arrive
<1>3. ASSUME NEW r \in Requests, Acquire(r) PROVE [Lease!LeaseNext]_leaseOf
  <2>1. CASE CheckOpen(r)
    BY <1>1, <2>1, LeaseStutter DEF TypeOK, CheckOpen
  <2>2. CASE CheckClosed(r)
    BY <1>1, <2>2, LeaseStutter, DirectorErrorOwners DEF CheckClosed
  <2>3. CASE EnterSelect(r)
    BY <1>1, <2>3, LeaseStutter DEF TypeOK, EnterSelect
  <2>4. CASE Mode = STRICT_MODE /\ CtxDoneStrict(r)
    BY <1>1, <2>4, LeaseStutter, DirectorErrorOwners DEF CtxDoneStrict
  <2>5. CASE Mode = LOOSE_MODE /\ CtxDoneLoose(r)
    BY <1>1, <2>5, LeaseStutter, GrowthUnreachable DEF TypeOK, CtxDoneLoose
  <2>6. CASE Mode \notin {STRICT_MODE, LOOSE_MODE} /\ CtxDoneOther(r)
    BY <2>6 DEF DocumentedMode, CtxDoneOther
  <2>7. CASE ReceiveLoose(r)
    BY <1>1, <2>7, GrantStep DEF ReceiveLoose, Lease!LeaseNext
  <2>8. CASE ReceiveFresh(r)
    BY <1>1, <2>8, GrantStep DEF ReceiveFresh, Lease!LeaseNext
  <2>9. CASE ReceiveIdle(r)
    <3>1. Head(clients) \in Clients /\ loc[Head(clients)] = "queued"
      BY <1>1, <2>9, HeadTail DEF ReceiveIdle, Owned, OneOwner
    <3>2. Lease!Retire(Head(clients))
      BY <1>1, <2>9, <3>1, RetireStep DEF TypeOK, ReceiveIdle, Destory
    <3> QED
      BY <3>1, <3>2 DEF Lease!LeaseNext
  <2>10. CASE CreateFail(r)
    BY <1>1, <2>10, LeaseStutter, DirectorErrorOwners DEF CreateFail
  <2>11. ASSUME NEW c \in Clients, CreateOk(r, c) PROVE Lease!LeaseNext
    BY <1>1, <2>11, OpenStep DEF Lease!LeaseNext
  <2> QED
    BY <1>3, <2>1, <2>2, <2>3, <2>4, <2>5, <2>6, <2>7, <2>8, <2>9, <2>10, <2>11
    DEF Acquire, CtxDone
<1>4. ASSUME NEW r \in Requests, Finish(r) PROVE Lease!LeaseNext
  BY <1>1, <1>4, GiveBackStep DEF Lease!LeaseNext
<1>5. ASSUME NEW r \in Requests, Cancel(r) PROVE UNCHANGED leaseOf
  BY <1>1, <1>5, LeaseStutter DEF Cancel
<1>6. ASSUME NEW c \in Clients, Close(c) PROVE [Lease!LeaseNext]_leaseOf
  <2>1. CASE CloseDestroys(c)
    <3>1. Lease!Retire(c)
      BY <1>1, <2>1, RetireStep DEF CloseDestroys, Destory
    <3> QED
      BY <3>1 DEF Lease!LeaseNext
  <2>2. CASE CloseStamps(c)
    BY <1>1, <2>2, LeaseStutter DEF TypeOK, CloseStamps
  <2>3. CASE CloseEvaluates(c)
    BY <1>1, <2>3, LeaseStutter DEF TypeOK, CloseEvaluates
  <2>4. CASE CloseSends(c)
    BY <1>1, <2>4, LeaseStutter DEF TypeOK, CloseSends
  <2> QED
    BY <1>6, <2>1, <2>2, <2>3, <2>4 DEF Close
<1>7. CASE PoolClose
  BY <1>1, <1>7, LeaseStutter DEF PoolClose
<1>8. CASE Drain
  <2>1. CASE DrainTest
    BY <1>1, <2>1, LeaseStutter DEF DrainTest
  <2>2. CASE DrainDestroys
    <3>1. Head(clients) \in Clients /\ loc[Head(clients)] = "queued"
      BY <1>1, <2>2, HeadTail DEF DrainDestroys, Owned, OneOwner
    <3>2. Lease!Retire(Head(clients))
      BY <1>1, <2>2, <3>1, RetireStep DEF DrainDestroys, Destory
    <3> QED
      BY <3>1, <3>2 DEF Lease!LeaseNext
  <2> QED
    BY <1>8, <2>1, <2>2 DEF Drain
<1>9. CASE Tick
  BY <1>1, <1>9, LeaseStutter DEF Tick
<1>10. CASE UNCHANGED vars
  BY <1>1, <1>10, LeaseStutter DEF vars
<1> QED
  BY <1>2, <1>3, <1>4, <1>5, <1>6, <1>7, <1>8, <1>9, <1>10 DEF Next

\* In the documented modes the pool, with its channel, its clock and its
\* goroutines, implements a lease of at most PoolSize connections: a leased
\* connection is neither closed nor given to anyone else.
THEOREM PoolIsALease == DocumentedMode => (Spec => LeaseSpec)
<1> SUFFICES ASSUME DocumentedMode PROVE Spec => LeaseSpec
  OBVIOUS
<1>1. Init => Lease!LeaseInit
  BY InitLease
<1>2. IInv /\ IInv' /\ [Next]_vars => [Lease!LeaseNext]_leaseOf
  BY LeaseStep
<1> QED
  BY <1>1, <1>2, InductiveInvariant, PTL DEF Spec, LeaseSpec, Lease!LeaseSpec
==============================================================================
