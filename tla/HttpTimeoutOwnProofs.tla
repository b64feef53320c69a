------------------------ MODULE HttpTimeoutOwnProofs ------------------------
(***************************************************************************)
(* Theorem about HttpTimeout, for any number of requests, contexts and     *)
(* buffers: until a context is used again after a timeout, every client    *)
(* receives the answer of its own request.                                 *)
(***************************************************************************)
EXTENDS HttpTimeoutProofs

USE DEF buffers, answers, Advance, SetStatus, AfterTimeout

(***************************************************************************)
(* The phases of a request that has its context to itself.                 *)
(***************************************************************************)

Unanswered == [code |-> 0, body |-> <<>>]

\* The chain of the request is at position i, and nobody else moves it.
At(r, i) == context[ctx[r]].holder = r /\ context[ctx[r]].index = i

\* c.Writer is the buffer of the request, which is out of the pool.
Buffered(r) == buf[r] \in Held /\ context[ctx[r]].writer = buf[r]

\* The status that the handler of the request has set.
CodeSet(r) == Code(r, reply[r])

NotArrived(r) ==
  /\ pc[serve(r)] = "off" /\ pc[job(r)] = "off"
  /\ r \notin timedOut /\ reply[r] = "none" /\ resp[r] = Unanswered

Arrived(r) ==
  /\ pc[serve(r)] = "next" /\ pc[job(r)] = "off" /\ At(r, -1)
  /\ r \notin timedOut /\ reply[r] = "none" /\ resp[r] = Unanswered

\* The handler's goroutine before the handler, in it, and after it.
ToCall(r) ==
  pc[job(r)] = "next" /\ At(r, 0) /\ body[buf[r]] = <<>> /\ reply[r] = "none"

InCall(r) ==
  /\ pc[job(r)] \in {"handler", "proxy"} /\ frame[job(r)] = r
  /\ pc[job(r)] = "proxy" => route[r] = "proxy"
  /\ At(r, 1) /\ body[buf[r]] = <<>> /\ reply[r] = "none"

ToRender(r) ==
  /\ pc[job(r)] = "render" /\ frame[job(r)] = r
  /\ At(r, 1) /\ body[buf[r]] = <<>> /\ context[ctx[r]].status = CodeSet(r)

Rendered(r) ==
  /\ \/ pc[job(r)] = "next" /\ At(r, 1)
     \/ pc[job(r)] = "finish" /\ At(r, 2)
  /\ body[buf[r]] = <<r>> /\ context[ctx[r]].status = CodeSet(r)

Working(r) ==
  /\ pc[serve(r)] = "select" /\ frame[serve(r)] = r /\ Buffered(r)
  /\ r \notin timedOut /\ resp[r] = Unanswered
  /\ ToCall(r) \/ InCall(r) \/ ToRender(r) \/ Rendered(r)

Flushing(r) ==
  /\ pc[serve(r)] = "flush" /\ frame[serve(r)] = r /\ pc[job(r)] = "done"
  /\ Buffered(r) /\ At(r, 2)
  /\ r \notin timedOut /\ resp[r] = Unanswered
  /\ body[buf[r]] = <<r>> /\ context[ctx[r]].status = CodeSet(r)

\* When the request is over, its context may be another's.
Answered(r) ==
  /\ pc[serve(r)] \in {"next", "end", "done"} /\ pc[job(r)] = "done"
  /\ pc[serve(r)] # "done" => At(r, 2)
  /\ r \notin timedOut /\ resp[r] = [code |-> CodeSet(r), body |-> <<r>>]

\* The handler of a request that has timed out goes on, with the request's context
\* and buffer: it changes the status of the response, as long as that is not written.
LateCall(r) ==
  /\ pc[job(r)] \in {"handler", "proxy"} /\ frame[job(r)] = r
  /\ pc[job(r)] = "proxy" => route[r] = "proxy"
  /\ reply[r] = "none" /\ context[ctx[r]].status = 504 /\ resp[r].code \in {0, 504}

Late(r) ==
  /\ r \in timedOut /\ pc[serve(r)] \in {"next", "end", "done"}
  /\ At(r, 2) /\ Buffered(r) /\ resp[r].body = <<>>
  /\ context[ctx[r]].status \in {504, CodeSet(r)}
  /\ resp[r].code \in {0, 504, CodeSet(r)}
  /\ pc[serve(r)] = "done" => resp[r].code # 0
  /\ \/ pc[job(r)] \in {"next", "finish"}
     \/ pc[job(r)] = "render" /\ frame[job(r)] = r
     \/ LateCall(r)

Phase(r) ==
  \/ NotArrived(r) \/ Arrived(r) \/ Working(r) \/ Flushing(r) \/ Answered(r) \/ Late(r)

\* Buffers of different requests are different.
Buffering(r) == pc[serve(r)] \in {"select", "flush"} \/ r \in timedOut

BuffersApart ==
  \A r, q \in Requests : Buffering(r) /\ Buffering(q) /\ buf[r] = buf[q] => r = q

OwnInv == (\A r \in Requests : Phase(r)) /\ BuffersApart

\* The context of the request whose handler runs, and those of timed out requests,
\* have been given to somebody.
GivenInv ==
  /\ \A t \in Threads : frame[t] # none => ctx[frame[t]] # none
  /\ \A r \in timedOut : ctx[r] # none

AloneInv == GivenInv /\ (NoContextShared => OwnInv)

(***************************************************************************)
(* A step of one request and the others.                                   *)
(***************************************************************************)

\* A goroutine that runs the chain of a request has the request's context.
LEMMA Mine ==
  ASSUME IInv, OwnInv, NEW r \in Requests, NEW t \in {serve(r), job(r)},
         pc[t] \notin {"off", "done"}
  PROVE  /\ t \in Threads /\ ctx[r] \in Contexts /\ context[ctx[r]] \in ContextType
         /\ context[ctx[r]].holder = r
<1>1. t \in Threads /\ ctx[r] \in Contexts /\ context[ctx[r]] \in ContextType
  BY Own DEF IInv
<1>2. Phase(r)
  BY DEF OwnInv
<1>3. context[ctx[r]].holder = r
  BY <1>2, ThreadFacts
  DEF Phase, NotArrived, Arrived, Working, ToCall, InCall, ToRender, Rendered, Flushing,
      Answered, Late, At
<1> QED
  BY <1>1, <1>3

LEMMA BufferHeld ==
  ASSUME OwnInv
  PROVE  \A q \in Requests : Buffering(q) => buf[q] \in Held
<1> SUFFICES ASSUME NEW q \in Requests, Buffering(q) PROVE buf[q] \in Held
  OBVIOUS
<1>1. Phase(q)
  BY DEF OwnInv
<1> QED
  BY <1>1
  DEF Phase, NotArrived, Arrived, Working, Flushing, Answered, Late, Buffering, Buffered

\* A step that leaves a request alone.
Undisturbed(q) ==
  /\ route' = route
  /\ pc'[serve(q)] = pc[serve(q)] /\ pc'[job(q)] = pc[job(q)]
  /\ frame'[serve(q)] = frame[serve(q)] /\ frame'[job(q)] = frame[job(q)]
  /\ reply'[q] = reply[q] /\ resp'[q] = resp[q] /\ (q \in timedOut' <=> q \in timedOut)
  /\ buf'[q] = buf[q]
  /\ Buffering(q) => buf[q] \in Held' /\ body'[buf[q]] = body[buf[q]]
  /\ \/ pc[serve(q)] = "off"
     \/ pc[serve(q)] = "done" /\ q \notin timedOut
     \/ ctx'[q] = ctx[q] /\ context'[ctx[q]] = context[ctx[q]]

LEMMA PhaseKept ==
  ASSUME NEW q \in Requests, Phase(q), Undisturbed(q)
  PROVE  Phase(q)'
<1> USE DEF Undisturbed, CodeSet, Code
<1>1. CASE NotArrived(q)
  BY <1>1 DEF NotArrived, Phase
<1>2. CASE Arrived(q)
  BY <1>2 DEF Arrived, Phase, At
<1>3. CASE Working(q)
  <2>0. pc[serve(q)] = "select" /\ q \notin timedOut /\ Buffering(q)
    BY <1>3 DEF Working, Buffering
  <2>1. ctx'[q] = ctx[q] /\ context'[ctx[q]] = context[ctx[q]] /\ buf'[q] = buf[q]
        /\ buf[q] \in Held' /\ body'[buf[q]] = body[buf[q]]
    BY <2>0
  <2>2. (ToCall(q) => ToCall(q)') /\ (InCall(q) => InCall(q)')
    BY <2>1 DEF ToCall, InCall, At
  <2>3. (ToRender(q) => ToRender(q)') /\ (Rendered(q) => Rendered(q)')
    BY <2>1 DEF ToRender, Rendered, At
  <2>4. Working(q)'
    BY <1>3, <2>1, <2>2, <2>3 DEF Working, Buffered
  <2> QED
    BY <2>4 DEF Phase
<1>4. CASE Flushing(q)
  <2>1. Flushing(q)'
    BY <1>4 DEF Flushing, Buffered, Buffering, At
  <2> QED
    BY <2>1 DEF Phase
<1>5. CASE Answered(q)
  <2>1. Answered(q)'
    BY <1>5 DEF Answered, At
  <2> QED
    BY <2>1 DEF Phase
<1>6. CASE Late(q)
  <2>1. ctx'[q] = ctx[q] /\ context'[ctx[q]] = context[ctx[q]] /\ buf'[q] = buf[q]
        /\ buf[q] \in Held' /\ body'[buf[q]] = body[buf[q]]
    BY <1>6 DEF Late, Buffering
  <2>2. LateCall(q) => LateCall(q)'
    BY <2>1 DEF LateCall
  <2>3. Late(q)'
    BY <1>6, <2>1, <2>2 DEF Late, Buffered, At
  <2> QED
    BY <2>3 DEF Phase
<1> QED
  BY <1>1, <1>2, <1>3, <1>4, <1>5, <1>6 DEF Phase

\* When a request steps from phase to phase and leaves the others alone, the phases
\* of all requests remain.
LEMMA StepOf ==
  ASSUME OwnInv, NEW r \in Requests, Phase(r)',
         \A q \in Requests \ {r} : Undisturbed(q),
         \/ ~Buffering(r)'
         \/ Buffering(r) /\ buf'[r] = buf[r]
         \/ buf'[r] \notin Held
  PROVE  OwnInv'
<1>1. \A q \in Requests : Phase(q)'
  <2> SUFFICES ASSUME NEW q \in Requests \ {r} PROVE Phase(q)'
    OBVIOUS
  <2> QED
    BY PhaseKept DEF OwnInv
<1>2. \A q \in Requests \ {r} : (Buffering(q)' <=> Buffering(q)) /\ buf'[q] = buf[q]
  BY DEF Undisturbed, Buffering
<1>3. \A q \in Requests \ {r} : Buffering(q) => buf[q] \in Held
  BY BufferHeld
<1>4. BuffersApart'
  BY <1>2, <1>3 DEF OwnInv, BuffersApart
<1> QED
  BY <1>1, <1>4 DEF OwnInv

\* What a goroutine of a request does with the request's own goroutines, context,
\* buffer and response leaves the others alone.
LEMMA LeavesAlone ==
  ASSUME IInv, OwnInv, NEW r \in Requests, context[ctx[r]].holder = r,
         route' = route, ctx' = ctx,
         \A c \in Contexts \ {ctx[r]} : context'[c] = context[c],
         \A u \in Threads \ {serve(r), job(r), fetch(r)} :
           pc'[u] = pc[u] /\ frame'[u] = frame[u],
         \A q \in Requests \ {r} :
           /\ reply'[q] = reply[q] /\ resp'[q] = resp[q] /\ buf'[q] = buf[q]
           /\ q \in timedOut' <=> q \in timedOut,
         \A b \in Held : \/ b \in Held' /\ body'[b] = body[b]
                         \/ Buffering(r) /\ b = buf[r]
  PROVE  \A q \in Requests \ {r} : Undisturbed(q)
<1> SUFFICES ASSUME NEW q \in Requests \ {r} PROVE Undisturbed(q)
  OBVIOUS
<1>1. /\ pc'[serve(q)] = pc[serve(q)] /\ pc'[job(q)] = pc[job(q)]
      /\ frame'[serve(q)] = frame[serve(q)] /\ frame'[job(q)] = frame[job(q)]
  BY ThreadFacts
<1>2. Phase(q)
  BY DEF OwnInv
<1>3. Buffering(q) => buf[q] \in Held /\ ~(Buffering(r) /\ buf[q] = buf[r])
  BY BufferHeld DEF OwnInv, BuffersApart
<1>4. \/ pc[serve(q)] = "off"
      \/ pc[serve(q)] = "done" /\ q \notin timedOut
      \/ context[ctx[q]].holder = q
  BY <1>2
  DEF Phase, NotArrived, Arrived, Working, ToCall, InCall, ToRender, Rendered, Flushing,
      Answered, Late, At
<1>5. pc[serve(q)] # "off" => ctx[q] \in Contexts
  <2>1. ContextInv /\ Types
    BY TypeFacts DEF IInv
  <2> QED
    BY <2>1 DEF ContextInv, Types
<1>6. \/ pc[serve(q)] = "off"
      \/ pc[serve(q)] = "done" /\ q \notin timedOut
      \/ context'[ctx[q]] = context[ctx[q]]
  BY <1>4, <1>5
<1> QED
  BY <1>1, <1>3, <1>6 DEF Undisturbed

(***************************************************************************)
(* The steps of one request, from phase to phase.                          *)
(***************************************************************************)

\* A context is given to a request that arrives: nobody needs it any more, unless
\* the request it was last given to has timed out.
LEMMA ArrivalOwn ==
  ASSUME IInv, OwnInv, NEW r \in Requests, ServeHTTP(r), route' = route, NoContextShared'
  PROVE  OwnInv'
<1>0. Types /\ ContextInv
  BY TypeFacts DEF IInv
<1>1. PICK c \in Contexts :
        /\ Free(c)
        /\ ctx' = [ctx EXCEPT ![r] = c]
        /\ context' = [context EXCEPT ![c] =
                         [holder |-> r, index |-> -1, writer |-> none, status |-> 200]]
  BY DEF ServeHTTP
<1>2. /\ pc[serve(r)] = "off" /\ pc' = [pc EXCEPT ![serve(r)] = "next"]
      /\ UNCHANGED <<frame, buf, body, pooled, timedOut, reply, resp>>
  BY DEF ServeHTTP
<1>3. ctx'[r] = c /\ context'[c].holder = r /\ context'[c].index = -1
  BY <1>0, <1>1 DEF Types
<1>4. pc'[serve(r)] = "next" /\ \A u \in Threads \ {serve(r)} : pc'[u] = pc[u]
  BY <1>0, <1>2, ThreadFacts DEF Types
<1>5. NotArrived(r)
  <2>1. Phase(r)
    BY DEF OwnInv
  <2> QED
    BY <1>2, <2>1 DEF Phase, Arrived, Working, Flushing, Answered, Late
<1>6. Phase(r)'
  <2>1. Arrived(r)'
    BY <1>2, <1>3, <1>4, <1>5, ThreadFacts DEF NotArrived, Arrived, At
  <2> QED
    BY <2>1 DEF Phase
<1>7. ASSUME NEW q \in Requests \ {r}
      PROVE  Undisturbed(q)
  <2>1. pc'[serve(q)] = pc[serve(q)] /\ pc'[job(q)] = pc[job(q)]
    BY <1>4, ThreadFacts
  <2>2. ASSUME pc[serve(q)] # "off", ~(pc[serve(q)] = "done" /\ q \notin timedOut)
        PROVE  ctx'[q] = ctx[q] /\ context'[ctx[q]] = context[ctx[q]]
    <3>1. ctx'[q] = ctx[q] /\ ctx[q] \in Contexts
      BY <1>0, <1>1, <2>2 DEF Types, ContextInv
    <3>2. ctx[q] # c
      <4>1. CASE q \in timedOut
        BY <4>1, <1>2, <1>3, <3>1 DEF NoContextShared
      <4>2. CASE q \notin timedOut
        <5>1. Phase(q)
          BY DEF OwnInv
        <5>2. context[ctx[q]].holder = q
          BY <2>2, <4>2, <5>1
          DEF Phase, NotArrived, Arrived, Working, ToCall, InCall, ToRender, Rendered, Flushing,
              Answered, Late, At
        <5>3. context[ctx[q]].holder # none
          BY <5>2, NoneIsNone
        <5> QED
          BY <1>1, <2>2, <4>2, <5>2, <5>3 DEF Free, Over
      <4> QED
        BY <4>1, <4>2
    <3> QED
      BY <1>0, <1>1, <3>1, <3>2 DEF Types
  <2>3. Buffering(q) => buf[q] \in Held'
    BY <1>2, BufferHeld DEF Held
  <2> QED
    BY <1>2, <2>1, <2>2, <2>3 DEF Undisturbed
<1>8. ~Buffering(r)'
  BY <1>2, <1>4, <1>5 DEF Buffering, NotArrived
<1> QED
  BY <1>6, <1>7, <1>8, StepOf

LEMMA TimeoutHandlerOwn ==
  ASSUME IInv, OwnInv, NEW r \in Requests, NEW t \in {serve(r), job(r)}, TimeoutHandler(r, t),
         route' = route
  PROVE  OwnInv'
<1>0. Types
  BY TypeFacts DEF IInv
<1>1. pc[t] = "next" /\ context[ctx[r]].index = -1
  BY DEF TimeoutHandler
<1>2. t \in Threads /\ ctx[r] \in Contexts /\ context[ctx[r]] \in ContextType
      /\ context[ctx[r]].holder = r
  BY <1>1, Mine
<1>3. Arrived(r) /\ t = serve(r)
  <2>1. Phase(r)
    BY DEF OwnInv
  <2> QED
    BY <1>1, <2>1, ThreadFacts
    DEF Phase, NotArrived, Arrived, Working, ToCall, InCall, ToRender, Rendered, Flushing,
        Answered, Late, At
<1>4. PICK b \in pooled :
        /\ pooled' = pooled \ {b}
        /\ body' = [body EXCEPT ![b] = <<>>]
        /\ buf' = [buf EXCEPT ![r] = b]
        /\ context' = [context EXCEPT ![ctx[r]].index = 0, ![ctx[r]].writer = b]
  BY <1>2 DEF TimeoutHandler
<1>5. /\ frame' = [frame EXCEPT ![serve(r)] = r]
      /\ pc' = [pc EXCEPT ![serve(r)] = "select", ![job(r)] = "next"]
      /\ UNCHANGED <<ctx, timedOut, reply, resp>>
  BY <1>2, <1>3 DEF TimeoutHandler
<1>6. b \in Buffers /\ b \notin Held /\ b \in Held'
  BY <1>0, <1>4 DEF Types, Held
<1>7. buf'[r] = b /\ body'[b] = <<>> /\ frame'[serve(r)] = r
  BY <1>0, <1>4, <1>5, <1>6, ThreadFacts DEF Types
<1>8. pc'[serve(r)] = "select" /\ pc'[job(r)] = "next"
  BY <1>0, <1>5, ThreadFacts DEF Types
<1>9. /\ context'[ctx[r]].holder = r /\ context'[ctx[r]].index = 0
      /\ context'[ctx[r]].writer = b
      /\ \A c \in Contexts \ {ctx[r]} : context'[c] = context[c]
  BY <1>0, <1>2, <1>4 DEF Types, ContextType
<1>10. Phase(r)'
  <2>1. ToCall(r)'
    BY <1>3, <1>5, <1>7, <1>8, <1>9 DEF Arrived, ToCall, At
  <2>2. Working(r)'
    BY <1>3, <1>5, <1>6, <1>7, <1>8, <1>9, <2>1 DEF Arrived, Working, Buffered
  <2> QED
    BY <2>2 DEF Phase
<1>11. \A q \in Requests \ {r} : Undisturbed(q)
  <2>1. \A u \in Threads \ {serve(r), job(r), fetch(r)} : pc'[u] = pc[u] /\ frame'[u] = frame[u]
    BY <1>0, <1>5 DEF Types
  <2>2. \A d \in Held : d \in Held' /\ body'[d] = body[d]
    BY <1>0, <1>4, <1>6 DEF Types, Held
  <2>3. \A q \in Requests \ {r} : buf'[q] = buf[q]
    BY <1>0, <1>4 DEF Types
  <2> QED
    BY <1>2, <1>5, <1>9, <2>1, <2>2, <2>3, LeavesAlone
<1> QED
  BY <1>6, <1>7, <1>10, <1>11, StepOf

LEMMA CallHandlerOwn ==
  ASSUME IInv, OwnInv, NEW r \in Requests, NEW t \in {serve(r), job(r)}, CallHandler(r, t),
         route' = route
  PROVE  OwnInv'
<1>0. Types
  BY TypeFacts DEF IInv
<1>1. pc[t] = "next" /\ context[ctx[r]].index = 0
  BY DEF CallHandler
<1>2. t \in Threads /\ ctx[r] \in Contexts /\ context[ctx[r]] \in ContextType
      /\ context[ctx[r]].holder = r
  BY <1>1, Mine
<1>3. Working(r) /\ ToCall(r) /\ t = job(r)
  <2>1. Phase(r)
    BY DEF OwnInv
  <2> QED
    BY <1>1, <2>1, ThreadFacts
    DEF Phase, NotArrived, Arrived, Working, ToCall, InCall, ToRender, Rendered, Flushing,
        Answered, Late, At
<1>4. /\ context' = [context EXCEPT ![ctx[r]].index = 1]
      /\ frame' = [frame EXCEPT ![job(r)] = r]
      /\ pc' = [pc EXCEPT ![job(r)] = "handler"]
      /\ UNCHANGED <<ctx, buf, body, pooled, timedOut, reply, resp>>
  BY <1>2, <1>3 DEF CallHandler
<1>5. /\ frame'[job(r)] = r /\ pc'[job(r)] = "handler"
      /\ \A u \in Threads \ {job(r)} : pc'[u] = pc[u] /\ frame'[u] = frame[u]
  BY <1>0, <1>4, ThreadFacts DEF Types
<1>6. /\ context'[ctx[r]].holder = r /\ context'[ctx[r]].index = 1
      /\ context'[ctx[r]].writer = context[ctx[r]].writer
      /\ \A c \in Contexts \ {ctx[r]} : context'[c] = context[c]
  BY <1>0, <1>2, <1>4 DEF Types, ContextType
<1>7. Phase(r)'
  <2>1. InCall(r)'
    BY <1>3, <1>4, <1>5, <1>6 DEF ToCall, InCall, At
  <2>2. pc'[serve(r)] = pc[serve(r)] /\ frame'[serve(r)] = frame[serve(r)]
    BY <1>5, ThreadFacts
  <2>3. Working(r)'
    BY <1>3, <1>4, <1>6, <2>1, <2>2 DEF Working, Buffered, Held
  <2> QED
    BY <2>3 DEF Phase
<1>8. \A d \in Held : d \in Held' /\ body'[d] = body[d]
  BY <1>4 DEF Held
<1>9. \A q \in Requests \ {r} : Undisturbed(q)
  BY <1>2, <1>4, <1>5, <1>6, <1>8, LeavesAlone
<1>10. Buffering(r) /\ buf'[r] = buf[r]
  BY <1>3, <1>4 DEF Working, Buffering
<1> QED
  BY <1>7, <1>9, <1>10, StepOf

LEMMA NextReturnsOwn ==
  ASSUME IInv, OwnInv, NEW r \in Requests, NEW t \in {serve(r), job(r)}, NextReturns(r, t),
         route' = route
  PROVE  OwnInv'
<1>0. Types
  BY TypeFacts DEF IInv
<1>1. pc[t] = "next" /\ context[ctx[r]].index \in {1, 2}
  BY DEF NextReturns
<1>2. t \in Threads /\ ctx[r] \in Contexts /\ context[ctx[r]] \in ContextType
      /\ context[ctx[r]].holder = r
  BY <1>1, Mine
<1>3. \/ Working(r) /\ Rendered(r) /\ t = job(r)
      \/ Answered(r) /\ t = serve(r)
      \/ Late(r)
  <2>1. Phase(r)
    BY DEF OwnInv
  <2> QED
    BY <1>1, <2>1, ThreadFacts
    DEF Phase, NotArrived, Arrived, Working, ToCall, InCall, ToRender, Rendered, Flushing,
        Answered, Late, At
<1>4. /\ context' = [context EXCEPT ![ctx[r]].index = 2]
      /\ pc' = [pc EXCEPT ![t] = IF t = job(r) THEN "finish" ELSE "end"]
      /\ UNCHANGED <<frame, ctx, buf, body, pooled, timedOut, reply, resp>>
  BY DEF NextReturns
<1>5. /\ pc'[t] = IF t = job(r) THEN "finish" ELSE "end"
      /\ \A u \in Threads \ {t} : pc'[u] = pc[u]
  BY <1>0, <1>2, <1>4 DEF Types
<1>6. /\ context'[ctx[r]].holder = r /\ context'[ctx[r]].index = 2
      /\ context'[ctx[r]].writer = context[ctx[r]].writer
      /\ context'[ctx[r]].status = context[ctx[r]].status
      /\ \A c \in Contexts \ {ctx[r]} : context'[c] = context[c]
  BY <1>0, <1>2, <1>4 DEF Types, ContextType
<1>7. CodeSet(r)' = CodeSet(r) /\ Held' = Held
  BY <1>4 DEF CodeSet, Code, Held
<1>8. Phase(r)'
  <2>1. CASE Working(r) /\ Rendered(r) /\ t = job(r)
    <3>1. pc'[job(r)] = "finish" /\ pc'[serve(r)] = pc[serve(r)]
      BY <1>5, <2>1, ThreadFacts
    <3>2. Rendered(r)'
      BY <1>4, <1>6, <1>7, <2>1, <3>1 DEF Rendered, At
    <3>3. Working(r)'
      BY <1>4, <1>6, <1>7, <2>1, <3>1, <3>2 DEF Working, Buffered
    <3> QED
      BY <3>3 DEF Phase
  <2>2. CASE Answered(r) /\ t = serve(r)
    <3>1. pc'[serve(r)] = "end" /\ pc'[job(r)] = pc[job(r)]
      BY <1>5, <2>2, ThreadFacts
    <3>2. Answered(r)'
      BY <1>4, <1>6, <1>7, <2>2, <3>1 DEF Answered, At
    <3> QED
      BY <3>2 DEF Phase
  <2>3. CASE Late(r)
    <3>1. Late(r)'
      <4>1. /\ r \in timedOut' /\ At(r, 2)' /\ Buffered(r)' /\ resp'[r].body = <<>>
            /\ context'[ctx'[r]].status \in {504, CodeSet(r)'}
            /\ resp'[r].code \in {0, 504, CodeSet(r)'}
        BY <1>4, <1>6, <1>7, <2>3 DEF Late, At, Buffered
      <4>2. CASE t = serve(r)
        <5>1. pc'[serve(r)] = "end" /\ pc'[job(r)] = pc[job(r)]
          BY <1>5, <4>2, ThreadFacts
        <5>2. LateCall(r) => LateCall(r)'
          BY <1>4, <1>6, <5>1 DEF LateCall
        <5> QED
          BY <1>4, <2>3, <4>1, <5>1, <5>2 DEF Late
      <4>3. CASE t = job(r)
        <5>1. pc'[job(r)] = "finish" /\ pc'[serve(r)] = pc[serve(r)]
          BY <1>5, <4>3, ThreadFacts
        <5> QED
          BY <1>4, <2>3, <4>1, <5>1 DEF Late
      <4> QED
        BY <4>2, <4>3
    <3> QED
      BY <3>1 DEF Phase
  <2> QED
    BY <1>3, <2>1, <2>2, <2>3
<1>9. \A q \in Requests \ {r} : Undisturbed(q)
  BY <1>2, <1>4, <1>5, <1>6, <1>7, LeavesAlone
<1>10. ~Buffering(r)' \/ (Buffering(r) /\ buf'[r] = buf[r])
  BY <1>4, <1>5, ThreadFacts DEF Buffering
<1> QED
  BY <1>8, <1>9, <1>10, StepOf

\* A handler is run by the goroutine of TimeoutHandler, in time or late.
LEMMA HandlerRuns ==
  ASSUME OwnInv, NEW r \in Requests, NEW t \in {serve(r), job(r)}, pc[t] \in {"handler", "proxy"}
  PROVE  /\ t = job(r) /\ frame[job(r)] = r /\ reply[r] = "none"
         /\ \/ Working(r) /\ InCall(r)
            \/ Late(r) /\ LateCall(r)
<1>1. Phase(r)
  BY DEF OwnInv
<1>2. pc[serve(r)] \notin {"handler", "proxy"}
  BY <1>1 DEF Phase, NotArrived, Arrived, Working, Flushing, Answered, Late
<1>3. t = job(r)
  BY <1>2
<1>4. \/ Working(r) /\ InCall(r)
      \/ Late(r) /\ LateCall(r)
  BY <1>1, <1>3
  DEF Phase, NotArrived, Arrived, Working, ToCall, ToRender, Rendered, Flushing, Answered, Late
<1>5. frame[job(r)] = r /\ reply[r] = "none"
  BY <1>4 DEF InCall, LateCall
<1> QED
  BY <1>3, <1>4, <1>5

LEMMA AnswerOwn ==
  ASSUME IInv, OwnInv, NEW r \in Requests, NEW t \in {serve(r), job(r)}, Answer(r, t),
         route' = route
  PROVE  OwnInv'
<1>0. Types
  BY TypeFacts DEF IInv
<1>1. pc[t] = "handler" /\ route[frame[t]] # "proxy"
  BY DEF Answer
<1>2. t \in Threads /\ ctx[r] \in Contexts /\ context[ctx[r]] \in ContextType
      /\ context[ctx[r]].holder = r
  BY <1>1, Mine
<1>3. /\ t = job(r) /\ frame[job(r)] = r /\ reply[r] = "none"
      /\ \/ Working(r) /\ InCall(r)
         \/ Late(r) /\ LateCall(r)
  BY <1>1, HandlerRuns
<1>5. /\ context' = [context EXCEPT ![ctx[r]].status = CodeSet(r)]
      /\ pc' = [pc EXCEPT ![job(r)] = "render"]
      /\ UNCHANGED <<frame, ctx, buf, body, pooled, timedOut, reply, resp>>
  BY <1>3 DEF Answer, CodeSet
<1>6. /\ pc'[job(r)] = "render" /\ pc'[serve(r)] = pc[serve(r)]
      /\ \A u \in Threads \ {job(r)} : pc'[u] = pc[u]
  BY <1>0, <1>5, ThreadFacts DEF Types
<1>7. /\ context'[ctx[r]].holder = r
      /\ context'[ctx[r]].index = context[ctx[r]].index
      /\ context'[ctx[r]].writer = context[ctx[r]].writer
      /\ context'[ctx[r]].status = CodeSet(r)
      /\ \A c \in Contexts \ {ctx[r]} : context'[c] = context[c]
  <2> HIDE DEF CodeSet
  <2> QED
    BY <1>0, <1>2, <1>5 DEF Types, ContextType
<1>8. CodeSet(r)' = CodeSet(r) /\ Held' = Held
  BY <1>5 DEF CodeSet, Code, Held
<1>9. Phase(r)'
  <2>1. CASE Working(r) /\ InCall(r)
    <3>1. ToRender(r)'
      BY <1>5, <1>6, <1>7, <1>8, <2>1 DEF InCall, ToRender, At
    <3>2. Working(r)'
      BY <1>5, <1>6, <1>7, <1>8, <2>1, <3>1 DEF Working, Buffered
    <3> QED
      BY <3>2 DEF Phase
  <2>2. CASE Late(r) /\ LateCall(r)
    <3>1. Late(r)'
      BY <1>5, <1>6, <1>7, <1>8, <2>2 DEF Late, LateCall, Buffered, At
    <3> QED
      BY <3>1 DEF Phase
  <2> QED
    BY <1>3, <2>1, <2>2
<1>10. \A q \in Requests \ {r} : Undisturbed(q)
  BY <1>2, <1>5, <1>6, <1>7, <1>8, LeavesAlone
<1>11. ~Buffering(r)' \/ (Buffering(r) /\ buf'[r] = buf[r])
  BY <1>5, <1>6 DEF Buffering
<1> QED
  BY <1>9, <1>10, <1>11, StepOf

LEMMA RunProxyOwn ==
  ASSUME IInv, OwnInv, NEW r \in Requests, NEW t \in {serve(r), job(r)}, RunProxy(r, t),
         route' = route
  PROVE  OwnInv'
<1>0. Types
  BY TypeFacts DEF IInv
<1>1. pc[t] = "handler" /\ route[frame[t]] = "proxy"
  BY DEF RunProxy
<1>2. t \in Threads /\ ctx[r] \in Contexts /\ context[ctx[r]] \in ContextType
      /\ context[ctx[r]].holder = r
  BY <1>1, Mine
<1>3. /\ t = job(r) /\ frame[job(r)] = r /\ reply[r] = "none"
      /\ \/ Working(r) /\ InCall(r)
         \/ Late(r) /\ LateCall(r)
  BY <1>1, HandlerRuns
<1>4. /\ pc' = [pc EXCEPT ![job(r)] = "proxy", ![fetch(r)] = "request"]
      /\ UNCHANGED <<frame, ctx, context, buf, body, pooled, timedOut, reply, resp>>
  BY <1>3 DEF RunProxy
<1>5. /\ pc'[job(r)] = "proxy" /\ pc'[serve(r)] = pc[serve(r)]
      /\ \A u \in Threads \ {job(r), fetch(r)} : pc'[u] = pc[u]
  BY <1>0, <1>4, ThreadFacts DEF Types
<1>6. CodeSet(r)' = CodeSet(r) /\ Held' = Held /\ route[r] = "proxy"
  BY <1>1, <1>3, <1>4 DEF CodeSet, Code, Held
<1>7. Phase(r)'
  <2>1. CASE Working(r) /\ InCall(r)
    <3>1. InCall(r)'
      BY <1>4, <1>5, <1>6, <2>1 DEF InCall, At
    <3>2. Working(r)'
      BY <1>4, <1>5, <1>6, <2>1, <3>1 DEF Working, Buffered
    <3> QED
      BY <3>2 DEF Phase
  <2>2. CASE Late(r) /\ LateCall(r)
    <3>1. Late(r)'
      BY <1>4, <1>5, <1>6, <2>2 DEF Late, LateCall, Buffered, At
    <3> QED
      BY <3>1 DEF Phase
  <2> QED
    BY <1>3, <2>1, <2>2
<1>8. \A q \in Requests \ {r} : Undisturbed(q)
  BY <1>2, <1>4, <1>5, <1>6, LeavesAlone
<1>9. ~Buffering(r)' \/ (Buffering(r) /\ buf'[r] = buf[r])
  BY <1>4, <1>5 DEF Buffering
<1> QED
  BY <1>7, <1>8, <1>9, StepOf

LEMMA ProxyReturnsOwn ==
  ASSUME IInv, OwnInv, NEW r \in Requests, NEW t \in {serve(r), job(r)}, ProxyReturns(r, t),
         route' = route
  PROVE  OwnInv'
<1>0. Types
  BY TypeFacts DEF IInv
<1>1. pc[t] = "proxy"
  BY DEF ProxyReturns
<1>2. t \in Threads /\ ctx[r] \in Contexts /\ context[ctx[r]] \in ContextType
      /\ context[ctx[r]].holder = r
  BY <1>1, Mine
<1>3. /\ t = job(r) /\ frame[job(r)] = r /\ reply[r] = "none"
      /\ \/ Working(r) /\ InCall(r)
         \/ Late(r) /\ LateCall(r)
  BY <1>1, HandlerRuns
<1>4. PICK outcome :
        /\ pc' = [pc EXCEPT ![job(r)] = "render",
                            ![fetch(r)] = IF outcome = "late" THEN @ ELSE AfterSend(@)]
        /\ context' = [context EXCEPT ![ctx[r]].status = Code(r, outcome)]
        /\ reply' = [reply EXCEPT ![r] = outcome]
  BY <1>3 DEF ProxyReturns
<1>5. UNCHANGED <<frame, ctx, buf, body, pooled, timedOut, resp>>
  BY DEF ProxyReturns
<1>6. /\ pc'[job(r)] = "render" /\ pc'[serve(r)] = pc[serve(r)]
      /\ \A u \in Threads \ {job(r), fetch(r)} : pc'[u] = pc[u]
  BY <1>0, <1>4, ThreadFacts DEF Types
<1>7. reply'[r] = outcome /\ \A q \in Requests \ {r} : reply'[q] = reply[q]
  BY <1>0, <1>4 DEF Types
<1>8. CodeSet(r)' = Code(r, outcome) /\ Held' = Held
  BY <1>5, <1>7 DEF CodeSet, Code, Held
<1>9. /\ context'[ctx[r]].holder = r
      /\ context'[ctx[r]].index = context[ctx[r]].index
      /\ context'[ctx[r]].writer = context[ctx[r]].writer
      /\ context'[ctx[r]].status = CodeSet(r)'
      /\ \A c \in Contexts \ {ctx[r]} : context'[c] = context[c]
  <2> DEFINE s == Code(r, outcome)
  <2>1. context' = [context EXCEPT ![ctx[r]].status = s] /\ CodeSet(r)' = s
    BY <1>4, <1>8
  <2> HIDE DEF s
  <2> QED
    BY <1>0, <1>2, <2>1 DEF Types, ContextType
<1>10. Phase(r)'
  <2>1. CASE Working(r) /\ InCall(r)
    <3>1. ToRender(r)'
      BY <1>5, <1>6, <1>9, <2>1 DEF InCall, ToRender, At
    <3>2. Working(r)'
      BY <1>5, <1>6, <1>8, <1>9, <2>1, <3>1 DEF Working, Buffered
    <3> QED
      BY <3>2 DEF Phase
  <2>2. CASE Late(r) /\ LateCall(r)
    <3>1. Late(r)'
      BY <1>5, <1>6, <1>8, <1>9, <2>2 DEF Late, LateCall, Buffered, At
    <3> QED
      BY <3>1 DEF Phase
  <2> QED
    BY <1>3, <2>1, <2>2
<1>11. \A q \in Requests \ {r} : Undisturbed(q)
  BY <1>2, <1>5, <1>6, <1>7, <1>8, <1>9, LeavesAlone
<1>12. ~Buffering(r)' \/ (Buffering(r) /\ buf'[r] = buf[r])
  BY <1>5, <1>6 DEF Buffering
<1> QED
  BY <1>10, <1>11, <1>12, StepOf

LEMMA RenderOwn ==
  ASSUME IInv, OwnInv, NEW r \in Requests, NEW t \in {serve(r), job(r)}, Render(r, t),
         route' = route
  PROVE  OwnInv'
<1>0. Types
  BY TypeFacts DEF IInv
<1>1. pc[t] = "render"
  BY DEF Render
<1>2. t \in Threads /\ ctx[r] \in Contexts /\ context[ctx[r]] \in ContextType
      /\ context[ctx[r]].holder = r
  BY <1>1, Mine
<1>3. /\ t = job(r)
      /\ \/ Working(r) /\ ToRender(r)
         \/ Late(r) /\ pc[job(r)] = "render" /\ frame[job(r)] = r
  <2>1. Phase(r)
    BY DEF OwnInv
  <2>2. pc[serve(r)] # "render"
    BY <2>1 DEF Phase, NotArrived, Arrived, Working, Flushing, Answered, Late
  <2>3. t = job(r)
    BY <1>1, <2>2
  <2> QED
    BY <1>1, <2>1, <2>3
    DEF Phase, NotArrived, Arrived, Working, ToCall, InCall, Rendered, Flushing, Answered, Late,
        LateCall
<1>4. /\ frame[job(r)] = r /\ Buffered(r) /\ context[ctx[r]].writer = buf[r]
      /\ buf[r] \in Held /\ buf[r] # none /\ Buffering(r)
  BY <1>3, NoneIsNone DEF ToRender, Working, Late, Buffered, Buffering, Held
<1>5. /\ body' = [body EXCEPT ![buf[r]] = Append(@, r)]
      /\ pc' = [pc EXCEPT ![job(r)] = "next"]
      /\ UNCHANGED <<frame, ctx, context, buf, pooled, timedOut, reply, resp>>
  BY <1>3, <1>4 DEF Render
<1>6. /\ pc'[job(r)] = "next" /\ pc'[serve(r)] = pc[serve(r)]
      /\ \A u \in Threads \ {job(r)} : pc'[u] = pc[u]
  BY <1>0, <1>5, ThreadFacts DEF Types
<1>7. CodeSet(r)' = CodeSet(r) /\ Held' = Held
  BY <1>5 DEF CodeSet, Code, Held
<1>8. body'[buf[r]] = Append(body[buf[r]], r) /\ \A b \in Held \ {buf[r]} : body'[b] = body[b]
  BY <1>0, <1>4, <1>5 DEF Types, Held
<1>9. Phase(r)'
  <2>1. CASE Working(r) /\ ToRender(r)
    <3>1. body'[buf[r]] = <<r>>
      BY <1>8, <2>1 DEF ToRender
    <3>2. Rendered(r)'
      BY <1>5, <1>6, <1>7, <2>1, <3>1 DEF ToRender, Rendered, At
    <3>3. Working(r)'
      BY <1>5, <1>6, <1>7, <2>1, <3>2 DEF Working, Buffered
    <3> QED
      BY <3>3 DEF Phase
  <2>2. CASE Late(r)
    <3>1. Late(r)'
      BY <1>5, <1>6, <1>7, <2>2 DEF Late, Buffered, At
    <3> QED
      BY <3>1 DEF Phase
  <2> QED
    BY <1>3, <2>1, <2>2
<1>10. \A q \in Requests \ {r} : Undisturbed(q)
  BY <1>2, <1>4, <1>5, <1>6, <1>7, <1>8, LeavesAlone
<1> QED
  BY <1>4, <1>5, <1>9, <1>10, StepOf

LEMMA FinishOwn ==
  ASSUME IInv, OwnInv, NEW r \in Requests, NEW t \in {serve(r), job(r)}, Finish(r, t),
         route' = route
  PROVE  OwnInv'
<1>0. Types
  BY TypeFacts DEF IInv
<1>1. pc[t] = "select" /\ pc[job(frame[t])] = "finish"
  BY DEF Finish
<1>2. t \in Threads /\ ctx[r] \in Contexts /\ context[ctx[r]] \in ContextType
      /\ context[ctx[r]].holder = r
  BY <1>1, Mine
<1>3. Working(r) /\ t = serve(r)
  <2>1. Phase(r)
    BY DEF OwnInv
  <2> QED
    BY <1>1, <2>1, ThreadFacts
    DEF Phase, NotArrived, Arrived, Working, ToCall, InCall, ToRender, Rendered, Flushing,
        Answered, Late, LateCall
<1>4. Rendered(r) /\ At(r, 2)
  BY <1>1, <1>3 DEF Working, ToCall, InCall, ToRender, Rendered
<1>5. /\ pc' = [pc EXCEPT ![serve(r)] = "flush", ![job(r)] = "done"]
      /\ UNCHANGED <<frame, ctx, context, buf, body, pooled, timedOut, reply, resp>>
  BY <1>3 DEF Finish, Working
<1>6. /\ pc'[serve(r)] = "flush" /\ pc'[job(r)] = "done"
      /\ \A u \in Threads \ {serve(r), job(r)} : pc'[u] = pc[u]
  BY <1>0, <1>5, ThreadFacts DEF Types
<1>7. CodeSet(r)' = CodeSet(r) /\ Held' = Held
  BY <1>5 DEF CodeSet, Code, Held
<1>8. Phase(r)'
  <2>1. Flushing(r)'
    BY <1>3, <1>4, <1>5, <1>6, <1>7 DEF Working, Rendered, Flushing, Buffered, At
  <2> QED
    BY <2>1 DEF Phase
<1>9. \A q \in Requests \ {r} : Undisturbed(q)
  BY <1>2, <1>5, <1>6, <1>7, LeavesAlone
<1>10. Buffering(r) /\ buf'[r] = buf[r]
  BY <1>3, <1>5 DEF Working, Buffering
<1> QED
  BY <1>8, <1>9, <1>10, StepOf

LEMMA TimesOutOwn ==
  ASSUME IInv, OwnInv, NEW r \in Requests, NEW t \in {serve(r), job(r)}, TimesOut(r, t),
         route' = route
  PROVE  OwnInv'
<1>0. Types
  BY TypeFacts DEF IInv
<1>1. pc[t] = "select"
  BY DEF TimesOut
<1>2. t \in Threads /\ ctx[r] \in Contexts /\ context[ctx[r]] \in ContextType
      /\ context[ctx[r]].holder = r
  BY <1>1, Mine
<1>3. Working(r) /\ t = serve(r) /\ frame[serve(r)] = r
  <2>1. Phase(r)
    BY DEF OwnInv
  <2> QED
    BY <1>1, <2>1, ThreadFacts
    DEF Phase, NotArrived, Arrived, Working, ToCall, InCall, ToRender, Rendered, Flushing,
        Answered, Late, LateCall
<1>4. /\ context' = [context EXCEPT ![ctx[r]].status = 504, ![ctx[r]].index = 2]
      /\ timedOut' = timedOut \cup {r}
      /\ pc' = [pc EXCEPT ![serve(r)] = "next"]
      /\ UNCHANGED <<frame, ctx, buf, body, pooled, reply, resp>>
  BY <1>3 DEF TimesOut
<1>5. /\ pc'[serve(r)] = "next" /\ pc'[job(r)] = pc[job(r)]
      /\ \A u \in Threads \ {serve(r)} : pc'[u] = pc[u]
  BY <1>0, <1>4, ThreadFacts DEF Types
<1>6. /\ context'[ctx[r]].holder = r /\ context'[ctx[r]].index = 2
      /\ context'[ctx[r]].writer = context[ctx[r]].writer
      /\ context'[ctx[r]].status = 504
      /\ \A c \in Contexts \ {ctx[r]} : context'[c] = context[c]
  <2> DEFINE s == 504
  <2>1. context' = [context EXCEPT ![ctx[r]].status = s, ![ctx[r]].index = 2]
    BY <1>4
  <2> HIDE DEF s
  <2>2. /\ context'[ctx[r]].holder = r /\ context'[ctx[r]].index = 2
        /\ context'[ctx[r]].writer = context[ctx[r]].writer /\ context'[ctx[r]].status = s
        /\ \A c \in Contexts \ {ctx[r]} : context'[c] = context[c]
    BY <1>0, <1>2, <2>1 DEF Types, ContextType
  <2> QED
    BY <2>2 DEF s
<1>7. CodeSet(r)' = CodeSet(r) /\ Held' = Held
  BY <1>4 DEF CodeSet, Code, Held
<1>8. Phase(r)'
  <2>1. /\ At(r, 2)' /\ Buffered(r)' /\ resp'[r].body = <<>> /\ resp'[r].code = 0
        /\ r \in timedOut'
    BY <1>3, <1>4, <1>6, <1>7 DEF Working, Unanswered, At, Buffered
  <2>2. \/ pc'[job(r)] \in {"next", "finish"}
        \/ pc'[job(r)] = "render" /\ frame'[job(r)] = r
        \/ LateCall(r)'
    BY <1>3, <1>4, <1>5, <1>6, <2>1
    DEF Working, ToCall, InCall, ToRender, Rendered, LateCall
  <2>3. Late(r)'
    BY <1>4, <1>5, <1>6, <2>1, <2>2 DEF Late
  <2> QED
    BY <2>3 DEF Phase
<1>9. \A q \in Requests \ {r} : Undisturbed(q)
  <2>1. \A q \in Requests \ {r} : q \in timedOut' <=> q \in timedOut
    BY <1>4
  <2>2. /\ UNCHANGED <<ctx, reply, resp, buf, frame>>
        /\ \A b \in Held : b \in Held' /\ body'[b] = body[b]
    BY <1>4, <1>7
  <2>3. \A u \in Threads \ {serve(r), job(r), fetch(r)} :
          pc'[u] = pc[u] /\ frame'[u] = frame[u]
    BY <1>5, <2>2
  <2>4. \A c \in Contexts \ {ctx[r]} : context'[c] = context[c]
    BY <1>6
  <2> QED
    BY <1>2, <2>1, <2>2, <2>3, <2>4, LeavesAlone
<1>10. Buffering(r) /\ buf'[r] = buf[r]
  BY <1>3, <1>4 DEF Working, Buffering
<1> QED
  BY <1>8, <1>9, <1>10, StepOf

LEMMA ResponseChanged ==
  /\ \A x \in Response : \A k : [x EXCEPT !.code = k] = [code |-> k, body |-> x.body]
  /\ \A k, s, u : [[code |-> k, body |-> s] EXCEPT !.body = u] = [code |-> k, body |-> u]
  BY DEF Response

\* What a write to the response of a request that is not over does to it.
LEMMA WritesOwn ==
  ASSUME Types, NEW r \in Requests, ctx[r] \in Contexts, context[ctx[r]].holder = r, ~Over(r),
         NEW texts \in Seq(Requests), WriteResponse(ctx[r], texts)
  PROVE  /\ resp'[r] = [code |-> IF resp[r].code = 0 THEN context[ctx[r]].status ELSE resp[r].code,
                        body |-> resp[r].body \o texts]
         /\ \A q \in Requests \ {r} : resp'[q] = resp[q]
<1> DEFINE x == resp[r]
           code == IF x.code = 0 THEN context[ctx[r]].status ELSE x.code
           x1 == [x EXCEPT !.code = code]
           text == x.body \o texts
           y == [x1 EXCEPT !.body = text]
<1>1. x \in Response
  BY DEF Types
<1>2. x1.body = x.body /\ y = [code |-> code, body |-> text]
  <2> HIDE DEF code, text
  <2>1. x1 = [code |-> code, body |-> x.body]
    BY <1>1, ResponseChanged
  <2> HIDE DEF x1
  <2> QED
    BY <2>1, ResponseChanged
<1> DEFINE R1 == [resp EXCEPT ![r] = x1]
<1>3. R1[r] = x1 /\ [R1 EXCEPT ![r] = y] = [resp EXCEPT ![r] = y]
  BY DEF Types
<1>4. resp' = [R1 EXCEPT ![r] = [R1[r] EXCEPT !.body = R1[r].body \o texts]]
  BY DEF WriteResponse
<1>5. resp' = [resp EXCEPT ![r] = y]
  BY <1>2, <1>3, <1>4, Zenon
<1>6. resp'[r] = y /\ \A q \in Requests \ {r} : resp'[q] = resp[q]
  <2> HIDE DEF y
  <2> QED
    BY <1>5 DEF Types
<1> QED
  BY <1>2, <1>6

LEMMA FlushOwn ==
  ASSUME IInv, OwnInv, NEW r \in Requests, NEW t \in {serve(r), job(r)}, Flush(r, t),
         route' = route
  PROVE  OwnInv'
<1>0. Types
  BY TypeFacts DEF IInv
<1>1. pc[t] = "flush"
  BY DEF Flush
<1>2. t \in Threads /\ ctx[r] \in Contexts /\ context[ctx[r]] \in ContextType
      /\ context[ctx[r]].holder = r
  BY <1>1, Mine
<1>3. Flushing(r) /\ t = serve(r) /\ frame[serve(r)] = r /\ body[buf[r]] = <<r>> /\ ~Over(r)
  <2>1. Phase(r)
    BY DEF OwnInv
  <2>2. Flushing(r) /\ t = serve(r)
    BY <1>1, <2>1, ThreadFacts
    DEF Phase, NotArrived, Arrived, Working, ToCall, InCall, ToRender, Rendered, Flushing,
        Answered, Late, LateCall
  <2> QED
    BY <2>2 DEF Flushing, Over
<1>4. /\ WriteResponse(ctx[r], <<r>>)
      /\ pooled' = pooled \cup {buf[r]}
      /\ pc' = [pc EXCEPT ![serve(r)] = "next"]
      /\ UNCHANGED <<frame, ctx, context, buf, body, timedOut, reply>>
  BY <1>3 DEF Flush
<1>5. /\ pc'[serve(r)] = "next" /\ pc'[job(r)] = pc[job(r)]
      /\ \A u \in Threads \ {serve(r)} : pc'[u] = pc[u]
  BY <1>0, <1>4, ThreadFacts DEF Types
<1>6. /\ resp'[r] = [code |-> CodeSet(r), body |-> <<r>>]
      /\ \A q \in Requests \ {r} : resp'[q] = resp[q]
  <2> DEFINE x == <<r>>
  <2>1. x \in Seq(Requests) /\ <<>> \o x = x
    OBVIOUS
  <2>2. WriteResponse(ctx[r], x)
    BY <1>4
  <2> HIDE DEF x
  <2>3. /\ resp'[r] = [code |-> IF resp[r].code = 0 THEN context[ctx[r]].status ELSE resp[r].code,
                       body |-> resp[r].body \o x]
        /\ \A q \in Requests \ {r} : resp'[q] = resp[q]
    BY <1>0, <1>2, <1>3, <2>1, <2>2, WritesOwn
  <2>4. resp[r].code = 0 /\ resp[r].body = <<>> /\ context[ctx[r]].status = CodeSet(r)
    BY <1>3 DEF Flushing, Unanswered
  <2>5. resp'[r] = [code |-> CodeSet(r), body |-> x]
    BY <2>1, <2>3, <2>4
  <2> QED
    BY <2>3, <2>5 DEF x
<1>7. CodeSet(r)' = CodeSet(r)
  BY <1>4 DEF CodeSet, Code
<1>8. Phase(r)'
  <2>1. Answered(r)'
    BY <1>3, <1>4, <1>5, <1>6, <1>7 DEF Flushing, Answered, At
  <2> QED
    BY <2>1 DEF Phase
<1>9. \A q \in Requests \ {r} : Undisturbed(q)
  <2>1. Buffering(r)
    BY <1>3 DEF Flushing, Buffering
  <2>2. \A b \in Held : \/ b \in Held' /\ body'[b] = body[b]
                        \/ Buffering(r) /\ b = buf[r]
    BY <1>4, <2>1 DEF Held
  <2> QED
    BY <1>2, <1>4, <1>5, <1>6, <2>2, LeavesAlone
<1>10. Buffering(r) /\ buf'[r] = buf[r]
  BY <1>3, <1>4 DEF Flushing, Buffering
<1> QED
  BY <1>8, <1>9, <1>10, StepOf

LEMMA ServeHTTPEndsOwn ==
  ASSUME IInv, OwnInv, NEW r \in Requests, ServeHTTPEnds(r), route' = route
  PROVE  OwnInv'
<1>0. Types
  BY TypeFacts DEF IInv
<1>1. pc[serve(r)] = "end" /\ ~Over(r)
  BY DEF ServeHTTPEnds, Over
<1>2. ctx[r] \in Contexts /\ context[ctx[r]] \in ContextType /\ context[ctx[r]].holder = r
  BY <1>1, Mine
<1>3. Answered(r) \/ Late(r)
  <2>1. Phase(r)
    BY DEF OwnInv
  <2> QED
    BY <1>1, <2>1 DEF Phase, NotArrived, Arrived, Working, Flushing
<1>4. /\ WriteResponse(ctx[r], <<>>)
      /\ pc' = [pc EXCEPT ![serve(r)] = "done"]
      /\ UNCHANGED <<frame, ctx, context, buf, body, pooled, timedOut, reply>>
  BY DEF ServeHTTPEnds
<1>5. /\ pc'[serve(r)] = "done" /\ pc'[job(r)] = pc[job(r)]
      /\ \A u \in Threads \ {serve(r)} : pc'[u] = pc[u]
  BY <1>0, <1>4, ThreadFacts DEF Types
<1>6. /\ resp'[r] = [code |-> IF resp[r].code = 0 THEN context[ctx[r]].status ELSE resp[r].code,
                     body |-> resp[r].body]
      /\ \A q \in Requests \ {r} : resp'[q] = resp[q]
  <2> DEFINE x == <<>>
  <2>1. x \in Seq(Requests) /\ \A s \in Seq(Requests) : s \o x = s
    OBVIOUS
  <2>2. WriteResponse(ctx[r], x)
    BY <1>4
  <2>3. resp[r].body \in Seq(Requests)
    BY <1>0 DEF Types, Response
  <2> HIDE DEF x
  <2>4. /\ resp'[r] = [code |-> IF resp[r].code = 0 THEN context[ctx[r]].status ELSE resp[r].code,
                       body |-> resp[r].body \o x]
        /\ \A q \in Requests \ {r} : resp'[q] = resp[q]
    BY <1>0, <1>1, <1>2, <2>1, <2>2, WritesOwn
  <2> QED
    BY <2>1, <2>3, <2>4
<1>7. CodeSet(r)' = CodeSet(r) /\ Held' = Held
  BY <1>4 DEF CodeSet, Code, Held
<1>8. Phase(r)'
  <2>1. CASE Answered(r)
    <3>1. CodeSet(r) # 0
      BY CodeIs DEF CodeSet, Statuses
    <3>2. resp[r].code = CodeSet(r) /\ resp[r].body = <<r>>
      BY <2>1 DEF Answered
    <3>3. resp'[r] = [code |-> CodeSet(r), body |-> <<r>>]
      BY <1>6, <3>1, <3>2
    <3>4. Answered(r)'
      BY <1>4, <1>5, <1>7, <2>1, <3>3 DEF Answered
    <3> QED
      BY <3>4 DEF Phase
  <2>2. CASE Late(r)
    <3>1. resp'[r].body = <<>>
          /\ resp'[r].code = IF resp[r].code = 0 THEN context[ctx[r]].status ELSE resp[r].code
      BY <1>6, <2>2 DEF Late
    <3>2. context[ctx[r]].status # 0
      BY <1>2 DEF ContextType, Statuses
    <3>3. resp'[r].code \in {504, CodeSet(r)} /\ resp'[r].code # 0
      BY <2>2, <3>1, <3>2 DEF Late
    <3>4. LateCall(r) => LateCall(r)'
      BY <1>4, <1>5, <3>1 DEF LateCall
    <3>5. Late(r)'
      BY <1>4, <1>5, <1>7, <2>2, <3>1, <3>3, <3>4 DEF Late, At, Buffered
    <3> QED
      BY <3>5 DEF Phase
  <2> QED
    BY <1>3, <2>1, <2>2
<1>9. \A q \in Requests \ {r} : Undisturbed(q)
  BY <1>2, <1>4, <1>5, <1>6, <1>7, LeavesAlone
<1>10. ~Buffering(r)' \/ (Buffering(r) /\ buf'[r] = buf[r])
  BY <1>1, <1>4, <1>5 DEF Buffering
<1> QED
  BY <1>8, <1>9, <1>10, StepOf

\* Steps that no phase is about.
LEMMA OtherOwn ==
  ASSUME TypeOK, OwnInv,
         UNCHANGED <<route, frame, ctx, context, buf, body, pooled, timedOut, reply, resp>>,
         \A r \in Requests : pc'[serve(r)] = pc[serve(r)] /\ pc'[job(r)] = pc[job(r)]
  PROVE  OwnInv'
<1>1. Held' = Held
  BY DEF Held
<1>2. \A q \in Requests : Undisturbed(q)
  BY <1>1, BufferHeld DEF Undisturbed
<1>3. \A q \in Requests : Phase(q)'
  BY <1>2, PhaseKept DEF OwnInv
<1>4. BuffersApart'
  BY DEF OwnInv, BuffersApart, Buffering
<1> QED
  BY <1>3, <1>4 DEF OwnInv

(***************************************************************************)
(* Every client receives its own answer.                                   *)
(***************************************************************************)

\* The context of a request stays its own, as ctx says, and a timeout is for ever.
LEMMA NextGiven ==
  ASSUME IInv, GivenInv, [Next]_vars
  PROVE  /\ GivenInv'
         /\ \A r \in Requests : ctx[r] # none => ctx'[r] = ctx[r]
         /\ timedOut \subseteq timedOut'
<1>0. Types /\ ContextInv
  BY TypeFacts DEF IInv
<1>1. ASSUME NEW r \in Requests, ServeHTTP(r)
      PROVE  GivenInv' /\ (\A q \in Requests : ctx[q] # none => ctx'[q] = ctx[q])
             /\ timedOut \subseteq timedOut'
  <2>1. PICK c \in Contexts : ctx' = [ctx EXCEPT ![r] = c]
    BY <1>1 DEF ServeHTTP
  <2>2. ctx[r] = none /\ c # none
    BY <1>0, <1>1, NoneIsNone DEF ServeHTTP, ContextInv
  <2>3. UNCHANGED <<frame, timedOut>>
    BY <1>1 DEF ServeHTTP
  <2> QED
    BY <1>0, <2>1, <2>2, <2>3 DEF GivenInv, Types
<1>2. ASSUME NEW r \in Requests, NEW t \in {serve(r), job(r)},
             TimeoutHandler(r, t) \/ CallHandler(r, t)
      PROVE  GivenInv' /\ ctx' = ctx /\ timedOut' = timedOut
  <2>1. pc[t] = "next" /\ ctx' = ctx /\ timedOut' = timedOut
        /\ frame' = [frame EXCEPT ![t] = context[ctx[r]].holder]
    BY <1>2 DEF TimeoutHandler, CallHandler
  <2>2. context[ctx[r]].holder \in Requests /\ ctx[context[ctx[r]].holder] # none
    BY <1>0, <2>1, Own, NoneIsNone DEF IInv
  <2> QED
    BY <1>0, <2>1, <2>2 DEF GivenInv, Types
<1>3. ASSUME NEW r \in Requests, NEW t \in {serve(r), job(r)}, TimesOut(r, t)
      PROVE  GivenInv' /\ ctx' = ctx /\ timedOut \subseteq timedOut'
  <2>1. /\ pc[t] = "select" /\ ctx' = ctx /\ frame' = frame
        /\ timedOut' = timedOut \cup {frame[t]}
    BY <1>3 DEF TimesOut
  <2>2. t \in Threads /\ frame[t] # none
    BY <2>1, ThreadFacts DEF IInv, FrameInv, InSelect
  <2> QED
    BY <2>1, <2>2 DEF GivenInv
<1>4. ASSUME UNCHANGED <<frame, ctx, timedOut>>
      PROVE  GivenInv' /\ ctx' = ctx /\ timedOut' = timedOut
  BY <1>4 DEF GivenInv
<1>5. ASSUME NEW r \in Requests, NEW t \in {serve(r), job(r)},
             \/ NextReturns(r, t) \/ Render(r, t) \/ RunProxy(r, t) \/ ProxyReturns(r, t)
             \/ Finish(r, t) \/ Flush(r, t) \/ Answer(r, t) \/ HeaderRaceNoticed(r, t)
      PROVE  UNCHANGED <<frame, ctx, timedOut>>
  BY <1>5 DEF NextReturns, Render, RunProxy, ProxyReturns, Finish, Flush, Answer, HeaderRaceNoticed
<1>6. ASSUME NEW r \in Requests, ServeHTTPEnds(r) \/ Request(r)
      PROVE  UNCHANGED <<frame, ctx, timedOut>>
  BY <1>6 DEF ServeHTTPEnds, Request
<1>7. CASE UNCHANGED vars
  <2>1. UNCHANGED <<frame, ctx, timedOut>>
    BY <1>7 DEF vars
  <2> QED
    BY <2>1, <1>4
<1> QED
  BY <1>1, <1>2, <1>3, <1>4, <1>5, <1>6, <1>7 DEF Next, Step

LEMMA AloneBefore ==
  ASSUME GivenInv, Types, NoContextShared', timedOut \subseteq timedOut',
         \A r \in Requests : ctx[r] # none => ctx'[r] = ctx[r]
  PROVE  NoContextShared
<1> SUFFICES ASSUME NEW q \in timedOut, NEW r \in Requests \ {q}, ctx[r] = ctx[q] PROVE FALSE
  BY DEF NoContextShared
<1>1. q \in Requests /\ ctx[q] # none
  BY DEF GivenInv, Types
<1>2. ctx'[r] = ctx'[q] /\ q \in timedOut'
  BY <1>1
<1> QED
  BY <1>2 DEF NoContextShared

LEMMA NextOwn ==
  ASSUME IInv, OwnInv, NoContextShared', [Next]_vars
  PROVE  OwnInv'
<1>0. TypeOK /\ Types
  BY TypeFacts DEF IInv
<1>1. ASSUME UNCHANGED route, NEW r \in Requests, ServeHTTP(r) \/ ServeHTTPEnds(r)
      PROVE  OwnInv'
  BY <1>1, ArrivalOwn, ServeHTTPEndsOwn
<1>2. ASSUME UNCHANGED route, NEW r \in Requests, Request(r)
      PROVE  OwnInv'
  <2>1. \A q \in Requests : pc'[serve(q)] = pc[serve(q)] /\ pc'[job(q)] = pc[job(q)]
    <3>1. PICK outcome \in Outcomes : pc' = [pc EXCEPT ![fetch(r)] = outcome]
      BY <1>2 DEF Request
    <3> QED
      BY <1>0, <3>1, ThreadFacts DEF Types
  <2>2. UNCHANGED <<route, frame, ctx, context, buf, body, pooled, timedOut, reply, resp>>
    BY <1>2 DEF Request
  <2> QED
    BY <1>0, <2>1, <2>2, OtherOwn
<1>3. ASSUME UNCHANGED route, NEW r \in Requests, NEW t \in {serve(r), job(r)}, Step(r, t)
      PROVE  OwnInv'
  BY <1>3, TimeoutHandlerOwn, CallHandlerOwn, NextReturnsOwn, RenderOwn, RunProxyOwn,
     ProxyReturnsOwn, FinishOwn, FlushOwn, TimesOutOwn DEF Step
<1>4. ASSUME UNCHANGED route, NEW r \in Requests, NEW t \in {serve(r), job(r)},
             Answer(r, t) \/ HeaderRaceNoticed(r, t)
      PROVE  OwnInv'
  <2>1. CASE Answer(r, t)
    BY <1>4, <2>1, AnswerOwn
  <2>2. CASE HeaderRaceNoticed(r, t)
    <3>1. UNCHANGED <<route, pc, frame, ctx, context, buf, body, pooled, timedOut, reply, resp>>
      BY <1>4, <2>2 DEF HeaderRaceNoticed
    <3> QED
      BY <1>0, <3>1, OtherOwn
  <2> QED
    BY <1>4, <2>1, <2>2
<1>5. CASE UNCHANGED vars
  <2>1. UNCHANGED <<route, pc, frame, ctx, context, buf, body, pooled, timedOut, reply, resp>>
    BY <1>5 DEF vars
  <2> QED
    BY <1>0, <2>1, OtherOwn
<1> QED
  BY <1>1, <1>2, <1>3, <1>4, <1>5 DEF Next, Running

LEMMA InitAlone == Init => GivenInv /\ OwnInv
<1> SUFFICES ASSUME Init PROVE GivenInv /\ OwnInv
  OBVIOUS
<1>1. GivenInv
  BY DEF Init, GivenInv
<1>2. ASSUME NEW r \in Requests PROVE NotArrived(r) /\ ~Buffering(r)
  BY ThreadFacts DEF Init, NotArrived, Buffering, Unanswered
<1> QED
  BY <1>1, <1>2 DEF OwnInv, Phase, BuffersApart

\* For any number of requests: until a context is used again after a timeout, every
\* client receives the answer of its own request, once, with the status its handler
\* has set, or none if the request has timed out (Duration.go:25-46).
THEOREM AnswersReachTheirClients == Spec => []AnswersAreOwn
<1>1. Init => AloneInv
  BY InitAlone DEF AloneInv
<1>2. IInv /\ AloneInv /\ [Next]_vars => AloneInv'
  <2> SUFFICES ASSUME IInv, AloneInv, [Next]_vars PROVE AloneInv'
    OBVIOUS
  <2>1. GivenInv'
    BY NextGiven DEF AloneInv
  <2>2. ASSUME NoContextShared' PROVE OwnInv'
    <3>1. NoContextShared
      BY <2>2, NextGiven, AloneBefore, TypeFacts DEF IInv, AloneInv
    <3> QED
      BY <2>2, <3>1, NextOwn DEF AloneInv
  <2> QED
    BY <2>1, <2>2 DEF AloneInv
<1>3. AloneInv => AnswersAreOwn
  <2> SUFFICES ASSUME OwnInv, NEW r \in Requests, Over(r)
               PROVE  IF r \in timedOut
                        THEN resp[r].body = <<>> /\ resp[r].code \in {504, Code(r, reply[r])}
                        ELSE resp[r] = [code |-> Code(r, reply[r]), body |-> <<r>>]
    BY DEF AnswersAreOwn, AloneInv
  <2>1. Phase(r)
    BY DEF OwnInv
  <2>2. Answered(r) \/ Late(r)
    BY <2>1 DEF Phase, NotArrived, Arrived, Working, Flushing, Over
  <2> QED
    BY <2>2 DEF Answered, Late, CodeSet, Over
<1> QED
  BY <1>1, <1>2, <1>3, Invariance, PTL DEF Spec

==============================================================================
