-------------------------- MODULE HttpTimeoutProofs --------------------------
(***************************************************************************)
(* Theorems about HttpTimeout, for any number of requests, contexts and    *)
(* buffers: what becomes of an answer when requests share the contexts and *)
(* the buffers of the pools, before a timeout and after one.               *)
(***************************************************************************)
EXTENDS HttpTimeout, SequenceTheorems, TLAPS

\* Names for tuples of variables, for goroutines and for parts of actions, expanded
\* throughout.
USE DEF buffers, answers, Advance, SetStatus, AfterTimeout

InSelect(t) == pc[t] \in {"select", "flush"}

InHandler(t) == pc[t] \in {"handler", "proxy", "render"}

\* A request has a context from its arrival on; the context a request was given has
\* been given to someone last, who still has it; goroutines other than that of the
\* request exist only after its arrival.
ContextInv ==
  /\ \A r \in Requests : ctx[r] = none <=> pc[serve(r)] = "off"
  /\ \A r \in Requests : pc[job(r)] # "off" => ctx[r] # none
  /\ \A r \in Requests : ctx[r] # none => context[ctx[r]].holder # none
  /\ \A c \in Contexts : context[c].holder # none => ctx[context[c].holder] = c

\* Where the goroutines are that run a handler, and where runProxy's goroutine is
\* while its outcome is awaited.
FrameInv ==
  /\ \A t \in Threads : InSelect(t) \/ InHandler(t) => frame[t] # none
  /\ \A r \in Requests : pc[fetch(r)] \in {"off", "request", "result", "error", "done"}
  /\ \A t \in Threads :
       pc[t] = "proxy" => pc[fetch(frame[t])] \in {"request", "result", "error"}

\* The chain of a request has not come to its handler ...
Uncalled(a) == ctx[a] = none \/ (context[ctx[a]].holder = a /\ context[ctx[a]].index <= 0)

\* ... or not even to TimeoutHandler.
Unbuffered(a) == ctx[a] = none \/ (context[ctx[a]].holder = a /\ context[ctx[a]].index = -1)

\* A buffer that is not in buffpool.
Held == Buffers \ pooled

\* A buffer that is to be flushed is the request's own, and out of the pool.
BufferInv ==
  /\ \A t \in Threads : InSelect(t) => buf[frame[t]] \in Held
  /\ \A t, u \in Threads :
       InSelect(t) /\ InSelect(u) /\ buf[frame[t]] = buf[frame[u]] => t = u
  /\ \A a \in Requests : Unbuffered(a) => \A t \in Threads : InSelect(t) => frame[t] # a

\* The answers in a body, and that none is there twice.
AnswersIn(s) == {s[n] : n \in DOMAIN s}

Distinct(s) == \A n, m \in DOMAIN s : s[n] = s[m] => n = m

\* The answer of a request is in one place: its handler has not been called, a
\* goroutine is at it, a buffer that can still be flushed holds it, or a client has
\* received it.  Others have lost it.
OneHandler ==
  \A t, u \in Threads : InHandler(t) /\ InHandler(u) /\ frame[t] = frame[u] => t = u

UncalledInv ==
  \A a \in Requests : Uncalled(a) =>
    /\ \A t \in Threads : InHandler(t) => frame[t] # a
    /\ \A b \in Held : a \notin AnswersIn(body[b])
    /\ \A r \in Requests : a \notin AnswersIn(resp[r].body)

AtWorkInv ==
  \A t \in Threads : InHandler(t) =>
    /\ \A b \in Held : frame[t] \notin AnswersIn(body[b])
    /\ \A r \in Requests : frame[t] \notin AnswersIn(resp[r].body)

HeldInv ==
  \A b \in Held :
    /\ Distinct(body[b])
    /\ \A d \in Held \ {b} : AnswersIn(body[b]) \cap AnswersIn(body[d]) = {}
    /\ \A r \in Requests : AnswersIn(body[b]) \cap AnswersIn(resp[r].body) = {}

ReceivedInv ==
  \A r \in Requests :
    /\ Distinct(resp[r].body)
    /\ \A q \in Requests \ {r} : AnswersIn(resp[r].body) \cap AnswersIn(resp[q].body) = {}

IInv ==
  /\ TypeOK /\ ContextInv /\ FrameInv /\ BufferInv
  /\ OneHandler /\ UncalledInv /\ AtWorkInv /\ HeldInv /\ ReceivedInv

(***************************************************************************)
(* Types and goroutines.                                                   *)
(***************************************************************************)

Places == {"off", "next", "select", "flush", "handler", "proxy", "render",
           "finish", "end", "done", "request", "result", "error"}

Positions == -1 .. 2

Statuses == {200, 404, 500, 504}

ContextType == [holder : Requests \cup {none}, index : Positions,
                writer : Buffers \cup {none}, status : Statuses]

Response == [code : {0, 200, 404, 500, 504}, body : Seq(Requests)]

\* TypeOK, with one conjunct per variable.
Types ==
  /\ route \in Routed
  /\ pc \in [Threads -> Places]
  /\ frame \in [Threads -> Requests \cup {none}]
  /\ ctx \in [Requests -> Contexts \cup {none}]
  /\ context \in [Contexts -> ContextType]
  /\ buf \in [Requests -> Buffers \cup {none}]
  /\ body \in [Buffers -> Seq(Requests)]
  /\ pooled \in SUBSET Buffers /\ timedOut \in SUBSET Requests
  /\ reply \in [Requests -> {"none", "result", "error", "late"}]
  /\ resp \in [Requests -> Response]
  /\ crashed \in BOOLEAN

LEMMA TypeFacts == (TypeOK <=> Types) /\ (TypeOK' <=> Types')
<1>1. TypeOK <=> Types
  BY DEF TypeOK, Types, Places, ContextType, Positions, Statuses, Response
<1>2. TypeOK' <=> Types'
  BY DEF TypeOK, Types, Places, ContextType, Positions, Statuses, Response
<1> QED
  BY <1>1, <1>2

LEMMA NoneIsNone == none \notin Requests /\ none \notin Contexts /\ none \notin Buffers
  BY HttpAssumption

LEMMA ThreadFacts ==
  \A r, q \in Requests :
    /\ serve(r) \in Threads /\ job(r) \in Threads /\ fetch(r) \in Threads
    /\ serve(r) # job(q) /\ serve(r) # fetch(q) /\ job(r) # fetch(q)
    /\ serve(r) = serve(q) => r = q
    /\ job(r) = job(q) => r = q
    /\ fetch(r) = fetch(q) => r = q
  BY DEF serve, job, fetch, Threads

LEMMA ThreadIs ==
  \A t \in Threads : \E r \in Requests : t \in {serve(r), job(r), fetch(r)}
  BY DEF serve, job, fetch, Threads

\* The fields of a context keep their types.
LEMMA ContextKeeps ==
  ASSUME NEW x \in ContextType
  PROVE  /\ \A n \in Positions : [x EXCEPT !.index = n] \in ContextType
         /\ \A b \in Buffers \cup {none} : [x EXCEPT !.writer = b] \in ContextType
         /\ \A s \in Statuses : [x EXCEPT !.status = s] \in ContextType
  BY DEF ContextType

LEMMA NumbersAre ==
  /\ -1 \in Positions /\ 0 \in Positions /\ 1 \in Positions /\ 2 \in Positions
  /\ 200 \in Statuses /\ 404 \in Statuses /\ 500 \in Statuses /\ 504 \in Statuses
  BY DEF Positions, Statuses

\* A goroutine that runs the chain of a request, or one of its handlers, has a
\* context to do it with, and so has who holds that context now.
LEMMA Own ==
  ASSUME TypeOK, ContextInv, NEW r \in Requests, NEW t \in {serve(r), job(r)}, pc[t] # "off"
  PROVE  /\ t \in Threads /\ ctx[r] \in Contexts
         /\ context[ctx[r]] \in ContextType
         /\ context[ctx[r]].holder \in Requests
         /\ ctx[context[ctx[r]].holder] = ctx[r]
<1>0. Types
  BY TypeFacts
<1>1. t \in Threads
  BY ThreadFacts
<1>2. ctx[r] # none
  BY DEF ContextInv
<1>3. ctx[r] \in Contexts
  BY <1>0, <1>2 DEF Types
<1>4. context[ctx[r]] \in ContextType
  BY <1>0, <1>3 DEF Types
<1>5. context[ctx[r]].holder \in Requests
  BY <1>2, <1>4 DEF ContextInv, ContextType
<1>6. ctx[context[ctx[r]].holder] = ctx[r]
  BY <1>2, <1>3 DEF ContextInv
<1> QED
  BY <1>1, <1>3, <1>4, <1>5, <1>6

LEMMA BodyChanged ==
  ASSUME NEW x \in Response, NEW s \in Seq(Requests)
  PROVE  [x EXCEPT !.body = s] \in Response /\ [x EXCEPT !.body = s].body = s
<1>1. \E k \in {0, 200, 404, 500, 504}, u \in Seq(Requests) : x = [code |-> k, body |-> u]
  BY DEF Response
<1> QED
  BY <1>1 DEF Response

\* What a write to a response does to it.
LEMMA Writes ==
  ASSUME TypeOK, NEW c \in Contexts, context[c].holder \in Requests,
         NEW texts \in Seq(Requests), WriteResponse(c, texts)
  PROVE  /\ resp' \in [Requests -> Response]
         /\ \A q \in Requests :
              \/ resp'[q].body = resp[q].body
              \/ q = context[c].holder /\ resp'[q].body = resp[q].body \o texts
<1>0. Types
  BY TypeFacts
<1> DEFINE q0 == context[c].holder
           x == resp[q0]
           code == IF x.code = 0 THEN context[c].status ELSE x.code
           x1 == [x EXCEPT !.code = code]
           y == [x1 EXCEPT !.body = x.body \o texts]
<1>1. x \in Response /\ x.body \in Seq(Requests) /\ x.code \in {0, 200, 404, 500, 504}
  BY <1>0 DEF Types, Response
<1>2. context[c].status \in {200, 404, 500, 504}
  BY <1>0 DEF Types, ContextType, Statuses
<1>3. x.body \o texts \in Seq(Requests)
  BY <1>1, ConcatProperties
<1>4. x1 \in Response /\ x1.body = x.body
  <2>1. code \in {0, 200, 404, 500, 504}
    BY <1>1, <1>2
  <2> HIDE DEF code
  <2> QED
    BY <1>1, <2>1 DEF Response
<1>y. y \in Response /\ y.body = x.body \o texts
  <2> HIDE DEF x1
  <2> QED
    BY <1>3, <1>4, BodyChanged
<1>5. CASE Over(q0)
  BY <1>0, <1>5 DEF WriteResponse, Types
<1>6. CASE ~Over(q0)
  <2> DEFINE R1 == [resp EXCEPT ![q0] = x1]
  <2>1. R1[q0] = x1 /\ [R1 EXCEPT ![q0] = y] = [resp EXCEPT ![q0] = y]
    BY <1>0 DEF Types
  <2>2. resp' = [R1 EXCEPT ![q0] = [R1[q0] EXCEPT !.body = R1[q0].body \o texts]]
    BY <1>6 DEF WriteResponse
  <2>3. resp' = [resp EXCEPT ![q0] = y]
    BY <1>4, <2>1, <2>2, Zenon
  <2> HIDE DEF y
  <2>4. resp' \in [Requests -> Response] /\ resp'[q0] = y
        /\ \A q \in Requests \ {q0} : resp'[q] = resp[q]
    BY <1>0, <1>y, <2>3 DEF Types
  <2> QED
    BY <1>y, <2>4
<1> QED
  BY <1>5, <1>6

LEMMA CodeIs ==
  ASSUME NEW r, NEW outcome PROVE Code(r, outcome) \in Statuses
  BY DEF Code, Statuses

(***************************************************************************)
(* Type correctness.                                                       *)
(***************************************************************************)

\* The steps of the goroutine of a request that are not those of a handler.
LEMMA RequestType ==
  ASSUME TypeOK, ContextInv, UNCHANGED route, NEW r \in Requests,
         ServeHTTP(r) \/ ServeHTTPEnds(r) \/ Request(r)
  PROVE  TypeOK'
<1>0. Types
  BY TypeFacts
<1> SUFFICES Types'
  BY TypeFacts
<1>t. /\ serve(r) \in Threads /\ fetch(r) \in Threads
      /\ \A t \in Threads, p \in Places : [pc EXCEPT ![t] = p] \in [Threads -> Places]
  BY <1>0, ThreadFacts DEF Types
<1>1. CASE ServeHTTP(r)
  <2>1. PICK c \in Contexts :
          /\ ctx' = [ctx EXCEPT ![r] = c]
          /\ context' = [context EXCEPT ![c] =
                           [holder |-> r, index |-> -1, writer |-> none, status |-> 200]]
    BY <1>1 DEF ServeHTTP
  <2>2. [holder |-> r, index |-> -1, writer |-> none, status |-> 200] \in ContextType
    BY NumbersAre DEF ContextType
  <2>3. context' \in [Contexts -> ContextType] /\ ctx' \in [Requests -> Contexts \cup {none}]
    BY <1>0, <2>1, <2>2 DEF Types
  <2>4. pc' \in [Threads -> Places]
    BY <1>1, <1>t DEF ServeHTTP, Places
  <2>5. UNCHANGED <<frame, buffers, answers>>
    BY <1>1 DEF ServeHTTP
  <2> QED
    BY <1>0, <2>3, <2>4, <2>5 DEF Types
<1>2. CASE ServeHTTPEnds(r)
  <2>1. ctx[r] \in Contexts /\ context[ctx[r]].holder \in Requests
    BY <1>2, Own DEF ServeHTTPEnds
  <2>2. <<>> \in Seq(Requests)
    OBVIOUS
  <2>3. resp' \in [Requests -> Response]
    BY <1>2, <2>1, <2>2, Writes DEF ServeHTTPEnds
  <2>4. pc' \in [Threads -> Places]
    BY <1>2, <1>t DEF ServeHTTPEnds, Places
  <2>5. UNCHANGED <<frame, ctx, context, buffers, timedOut, reply, crashed>>
    BY <1>2 DEF ServeHTTPEnds
  <2> QED
    BY <1>0, <2>3, <2>4, <2>5 DEF Types
<1>3. CASE Request(r)
  <2>1. pc' \in [Threads -> Places]
    BY <1>3, <1>t DEF Request, Outcomes, Places
  <2>2. UNCHANGED <<frame, ctx, context, buffers, answers>>
    BY <1>3 DEF Request
  <2> QED
    BY <1>0, <2>1, <2>2 DEF Types
<1> QED
  BY <1>1, <1>2, <1>3

\* The steps of the two goroutines that run the chain.
ChainStep(r, t) == Step(r, t) \/ Answer(r, t) \/ HeaderRaceNoticed(r, t)

LEMMA ChainType ==
  ASSUME TypeOK, ContextInv, FrameInv, BufferInv, UNCHANGED route,
         NEW r \in Requests, NEW t \in {serve(r), job(r)}, ChainStep(r, t)
  PROVE  TypeOK'
<1>0. Types
  BY TypeFacts
<1> SUFFICES Types'
  BY TypeFacts
<1>1. pc[t] # "off"
  BY DEF ChainStep, Step, TimeoutHandler, CallHandler, NextReturns, Render, RunProxy,
         ProxyReturns, Finish, Flush, TimesOut, Answer, HeaderRaceNoticed
<1> DEFINE c == ctx[r]
           h == context[ctx[r]].holder
<1>2. /\ t \in Threads /\ c \in Contexts /\ h \in Requests /\ context[c] \in ContextType
      /\ job(h) \in Threads
  BY <1>1, Own, ThreadFacts
<1>3. InSelect(t) \/ InHandler(t) => frame[t] \in Requests /\ fetch(frame[t]) \in Threads
  BY <1>0, <1>2, ThreadFacts DEF FrameInv, Types
<1>4. InSelect(t) => buf[frame[t]] \in Buffers /\ body[buf[frame[t]]] \in Seq(Requests)
  BY <1>0, <1>2 DEF BufferInv, Held, Types
<1>5. /\ \A p \in Places : [pc EXCEPT ![t] = p] \in [Threads -> Places]
      /\ \A p \in Places, u \in Threads, q \in Places :
           [pc EXCEPT ![t] = p, ![u] = q] \in [Threads -> Places]
  BY <1>0, <1>2 DEF Types
<1>6. ASSUME NEW x \in ContextType, context' = [context EXCEPT ![c] = x]
      PROVE  context' \in [Contexts -> ContextType]
  BY <1>0, <1>2, <1>6 DEF Types
<1>7. ASSUME NEW q \in Requests PROVE [frame EXCEPT ![t] = q] \in [Threads -> Requests \cup {none}]
  BY <1>0, <1>2 DEF Types
<1>8. ASSUME NEW outcome, SetStatus(r, t, outcome) PROVE context' \in [Contexts -> ContextType]
  <2>1. [context[c] EXCEPT !.status = Code(frame[t], outcome)] \in ContextType
    BY <1>2, CodeIs, ContextKeeps, NumbersAre, Zenon
  <2>2. context' = [context EXCEPT ![c] = [context[c] EXCEPT !.status = Code(frame[t], outcome)]]
    BY <1>8, Zenon
  <2> QED
    BY <1>6, <2>1, <2>2, Zenon
<1> HIDE DEF c, h
<1>9. CASE TimeoutHandler(r, t)
  <2>1. PICK b \in pooled :
          /\ pooled' = pooled \ {b}
          /\ body' = [body EXCEPT ![b] = <<>>]
          /\ buf' = [buf EXCEPT ![h] = b]
          /\ context' = [context EXCEPT ![c] = [[context[c] EXCEPT !.index = 0]
                                                           EXCEPT !.writer = b]]
    <3>1. PICK b \in pooled :
            /\ pooled' = pooled \ {b}
            /\ body' = [body EXCEPT ![b] = <<>>]
            /\ buf' = [buf EXCEPT ![h] = b]
            /\ context' = [context EXCEPT ![c].index = 0, ![c].writer = b]
      BY <1>9, Zenon DEF TimeoutHandler, c, h
    <3>2. \A d : [context EXCEPT ![c].index = 0, ![c].writer = d] =
                [context EXCEPT ![c] = [[context[c] EXCEPT !.index = 0] EXCEPT !.writer = d]]
      BY <1>0, <1>2 DEF Types
    <3> QED
      BY <3>1, <3>2, Zenon
  <2>2. [[context[c] EXCEPT !.index = 0] EXCEPT !.writer = b] \in ContextType
    <3>1. b \in Buffers \cup {none}
      BY <1>0 DEF Types
    <3>2. [context[c] EXCEPT !.index = 0] \in ContextType
      BY <1>2, ContextKeeps, NumbersAre, Zenon
    <3> QED
      BY <3>1, <3>2, ContextKeeps, Zenon
  <2>3. context' \in [Contexts -> ContextType]
    BY <1>6, <2>1, <2>2
  <2>4. frame' \in [Threads -> Requests \cup {none}] /\ pc' \in [Threads -> Places]
    BY <1>2, <1>5, <1>7, <1>9 DEF TimeoutHandler, c, h, Places
  <2>5. /\ body' \in [Buffers -> Seq(Requests)] /\ buf' \in [Requests -> Buffers \cup {none}]
        /\ pooled' \in SUBSET Buffers
    BY <1>0, <1>2, <2>1 DEF Types
  <2>6. UNCHANGED <<ctx, answers>>
    BY <1>9 DEF TimeoutHandler
  <2> QED
    BY <1>0, <2>3, <2>4, <2>5, <2>6 DEF Types
<1>10. CASE CallHandler(r, t)
  <2>1. context' \in [Contexts -> ContextType]
    BY <1>2, <1>6, <1>10, ContextKeeps, NumbersAre DEF CallHandler, c
  <2>2. frame' \in [Threads -> Requests \cup {none}] /\ pc' \in [Threads -> Places]
    BY <1>2, <1>5, <1>7, <1>10 DEF CallHandler, c, h, Places
  <2>3. UNCHANGED <<ctx, buffers, answers>>
    BY <1>10 DEF CallHandler
  <2> QED
    BY <1>0, <2>1, <2>2, <2>3 DEF Types
<1>11. CASE NextReturns(r, t)
  <2>1. context' \in [Contexts -> ContextType]
    BY <1>2, <1>6, <1>11, ContextKeeps, NumbersAre DEF NextReturns, c
  <2>2. pc' \in [Threads -> Places]
    BY <1>5, <1>11 DEF NextReturns, Places
  <2>3. UNCHANGED <<frame, ctx, buffers, answers>>
    BY <1>11 DEF NextReturns
  <2> QED
    BY <1>0, <2>1, <2>2, <2>3 DEF Types
<1>12. CASE Render(r, t)
  <2>1. frame[t] \in Requests /\ <<frame[t]>> \in Seq(Requests)
    BY <1>3, <1>12 DEF Render, InHandler
  <2>2. resp' \in [Requests -> Response]
    BY <1>0, <1>2, <1>12, <2>1, Writes DEF Render, Types, c, h
  <2>3. body' \in [Buffers -> Seq(Requests)]
    <3>1. CASE context[c].writer = none
      BY <1>0, <1>12, <3>1 DEF Render, Types, c
    <3>2. CASE context[c].writer # none
      <4> DEFINE b == context[c].writer
      <4>1. b \in Buffers
        BY <1>2, <3>2 DEF ContextType
      <4>2. Append(body[b], frame[t]) \in Seq(Requests)
        BY <1>0, <2>1, <4>1, AppendProperties DEF Types
      <4>3. body' = [body EXCEPT ![b] = Append(body[b], frame[t])]
        BY <1>12, <3>2 DEF Render, c
      <4> HIDE DEF b
      <4> QED
        BY <1>0, <4>1, <4>2, <4>3 DEF Types
    <3> QED
      BY <3>1, <3>2
  <2>4. pc' \in [Threads -> Places]
    BY <1>5, <1>12 DEF Render, Places
  <2>5. UNCHANGED <<frame, ctx, context, buf, pooled, timedOut, reply, crashed>>
    BY <1>12 DEF Render
  <2> QED
    BY <1>0, <2>2, <2>3, <2>4, <2>5 DEF Types
<1>13. CASE RunProxy(r, t)
  <2>1. pc' \in [Threads -> Places]
    BY <1>3, <1>5, <1>13 DEF RunProxy, InHandler, Places
  <2>2. UNCHANGED <<frame, ctx, context, buffers, answers>>
    BY <1>13 DEF RunProxy
  <2> QED
    BY <1>0, <2>1, <2>2 DEF Types
<1>14. CASE ProxyReturns(r, t)
  <2>1. PICK outcome \in {pc[fetch(frame[t])], "late"} \ {"request"} :
          /\ pc' = [pc EXCEPT ![t] = "render",
                              ![fetch(frame[t])] = IF outcome = "late" THEN @ ELSE AfterSend(@)]
          /\ SetStatus(r, t, outcome)
          /\ reply' = [reply EXCEPT ![frame[t]] = outcome]
    BY <1>14 DEF ProxyReturns
  <2>2. outcome \in {"result", "error", "late"}
    BY <1>2, <1>14 DEF ProxyReturns, FrameInv
  <2>3. frame[t] \in Requests /\ fetch(frame[t]) \in Threads
    BY <1>3, <1>14 DEF ProxyReturns, InHandler
  <2>4. pc' \in [Threads -> Places]
    BY <1>0, <1>2, <2>1, <2>3 DEF Types, Places, AfterSend
  <2>5. reply' \in [Requests -> {"none", "result", "error", "late"}]
    BY <1>0, <2>1, <2>2 DEF Types
  <2>6. context' \in [Contexts -> ContextType]
    BY <1>8, <2>1
  <2>7. UNCHANGED <<frame, ctx, buffers, timedOut, resp, crashed>>
    BY <1>14 DEF ProxyReturns
  <2> QED
    BY <1>0, <2>4, <2>5, <2>6, <2>7 DEF Types
<1>15. CASE Finish(r, t)
  <2>1. job(frame[t]) \in Threads
    BY <1>3, <1>15, ThreadFacts DEF Finish, InSelect
  <2>2. pc' \in [Threads -> Places]
    BY <1>5, <1>15, <2>1 DEF Finish, Places
  <2>3. UNCHANGED <<frame, ctx, context, buffers, answers>>
    BY <1>15 DEF Finish
  <2> QED
    BY <1>0, <2>2, <2>3 DEF Types
<1>16. CASE Flush(r, t)
  <2>1. buf[frame[t]] \in Buffers /\ body[buf[frame[t]]] \in Seq(Requests)
    BY <1>4, <1>16 DEF Flush, InSelect
  <2>2. resp' \in [Requests -> Response]
    BY <1>2, <1>16, <2>1, Writes DEF Flush, c, h
  <2>3. pc' \in [Threads -> Places] /\ pooled' \in SUBSET Buffers
    BY <1>0, <1>5, <1>16, <2>1 DEF Flush, Places, Types
  <2>4. UNCHANGED <<frame, ctx, context, buf, body, timedOut, reply, crashed>>
    BY <1>16 DEF Flush
  <2> QED
    BY <1>0, <2>2, <2>3, <2>4 DEF Types
<1>17. CASE TimesOut(r, t)
  <2> DEFINE s == 504
             n == 2
             x == [context[c] EXCEPT !.status = s]
  <2>0. s \in Statuses /\ n \in Positions
    BY NumbersAre
  <2>1. context' = [context EXCEPT ![c].status = s, ![c].index = n]
    BY <1>17 DEF TimesOut, c
  <2> HIDE DEF s, n
  <2>2. context' = [context EXCEPT ![c] = [x EXCEPT !.index = n]]
    BY <1>0, <1>2, <2>1 DEF Types
  <2>x. x \in ContextType
    BY <1>2, <2>0, ContextKeeps
  <2> HIDE DEF x
  <2>3. context' \in [Contexts -> ContextType]
    BY <1>6, <2>0, <2>2, <2>x, ContextKeeps
  <2>4. timedOut' \in SUBSET Requests
    BY <1>0, <1>3, <1>17 DEF TimesOut, InSelect, Types
  <2>5. pc' \in [Threads -> Places]
    BY <1>5, <1>17 DEF TimesOut, Places
  <2>6. UNCHANGED <<frame, ctx, buf, body, pooled, reply, resp, crashed>>
    BY <1>17 DEF TimesOut
  <2> QED
    BY <1>0, <2>3, <2>4, <2>5, <2>6 DEF Types
<1>18. CASE Answer(r, t)
  <2>1. context' \in [Contexts -> ContextType]
    BY <1>8, <1>18 DEF Answer
  <2>2. pc' \in [Threads -> Places]
    BY <1>5, <1>18 DEF Answer, Places
  <2>3. UNCHANGED <<frame, ctx, buffers, answers>>
    BY <1>18 DEF Answer
  <2> QED
    BY <1>0, <2>1, <2>2, <2>3 DEF Types
<1>19. CASE HeaderRaceNoticed(r, t)
  BY <1>0, <1>19 DEF HeaderRaceNoticed, Types
<1> QED
  BY <1>9, <1>10, <1>11, <1>12, <1>13, <1>14, <1>15, <1>16, <1>17, <1>18, <1>19 DEF ChainStep, Step

(***************************************************************************)
(* Contexts and goroutines.                                                *)
(***************************************************************************)

\* A step of the chain leaves the contexts with their holders and moves no index
\* back; nobody arrives, and who gets a goroutine has arrived.
LEMMA ChainMoves ==
  ASSUME TypeOK, ContextInv, FrameInv, NEW r \in Requests, NEW t \in {serve(r), job(r)},
         ChainStep(r, t)
  PROVE  /\ ctx' = ctx
         /\ \A c \in Contexts : /\ context'[c].holder = context[c].holder
                                /\ context'[c].index <= 0 => context[c].index <= 0
                                /\ context'[c].index = -1 => context[c].index = -1
         /\ \A q \in Requests : pc'[serve(q)] = "off" <=> pc[serve(q)] = "off"
         /\ \A q \in Requests : pc'[job(q)] # "off" => pc[job(q)] # "off" \/ ctx[q] # none
<1>0. Types
  BY TypeFacts
<1>1. pc[t] # "off"
  BY DEF ChainStep, Step, TimeoutHandler, CallHandler, NextReturns, Render, RunProxy,
         ProxyReturns, Finish, Flush, TimesOut, Answer, HeaderRaceNoticed
<1> DEFINE c0 == ctx[r]
           h == context[ctx[r]].holder
<1>2. /\ t \in Threads /\ c0 \in Contexts /\ h \in Requests /\ context[c0] \in ContextType
      /\ ctx[h] = c0
  BY <1>1, Own
<1>3. InSelect(t) \/ InHandler(t) => frame[t] \in Requests
  BY <1>0, <1>2 DEF FrameInv, Types
<1> DEFINE Forward == \A c \in Contexts : /\ context'[c].holder = context[c].holder
                                          /\ context'[c].index <= 0 => context[c].index <= 0
                                          /\ context'[c].index = -1 => context[c].index = -1
<1>4. ctx' = ctx
  BY DEF ChainStep, Step, TimeoutHandler, CallHandler, NextReturns, Render, RunProxy,
         ProxyReturns, Finish, Flush, TimesOut, Answer, HeaderRaceNoticed
<1>5. ASSUME NEW x, context' = [context EXCEPT ![c0] = x],
             x.holder = h,
             \/ x.index \in {context[c0].index, 2}
             \/ x.index = context[c0].index + 1 /\ context[c0].index \in {-1, 0}
      PROVE  Forward
  <2>1. context'[c0] = x /\ \A c \in Contexts \ {c0} : context'[c] = context[c]
    BY <1>0, <1>2, <1>5 DEF Types
  <2>2. context[c0].index \in -1 .. 2
    BY <1>2 DEF ContextType, Positions
  <2> QED
    BY <1>5, <2>1, <2>2
<1>6. Forward
  <2>1. ASSUME NEW outcome, SetStatus(r, t, outcome)
        PROVE  Forward
    <3>1. context' = [context EXCEPT ![c0] = [context[c0] EXCEPT !.status = Code(frame[t], outcome)]]
      BY <2>1, Zenon
    <3>2. /\ [context[c0] EXCEPT !.status = Code(frame[t], outcome)].holder = h
          /\ [context[c0] EXCEPT !.status = Code(frame[t], outcome)].index = context[c0].index
      BY <1>2 DEF ContextType
    <3> QED
      BY <1>5, <3>1, <3>2
  <2>2. ASSUME NEW n \in Positions, context' = [context EXCEPT ![c0].index = n],
               n = 2 \/ (n = context[c0].index + 1 /\ context[c0].index \in {-1, 0})
        PROVE  Forward
    <3>1. context' = [context EXCEPT ![c0] = [context[c0] EXCEPT !.index = n]]
      BY <2>2
    <3>2. [context[c0] EXCEPT !.index = n].holder = h /\ [context[c0] EXCEPT !.index = n].index = n
      BY <1>2 DEF ContextType
    <3> QED
      BY <1>5, <2>2, <3>1, <3>2
  <2>3. CASE TimeoutHandler(r, t)
    <3>1. PICK b \in pooled : context' = [context EXCEPT ![c0].index = 0, ![c0].writer = b]
      BY <2>3 DEF TimeoutHandler
    <3> DEFINE x == [[context[c0] EXCEPT !.index = 0] EXCEPT !.writer = b]
    <3>2. context' = [context EXCEPT ![c0] = x]
      BY <1>0, <1>2, <3>1 DEF Types
    <3>3. x.holder = h /\ x.index = 0
      BY <1>2 DEF ContextType
    <3>4. context[c0].index = -1
      BY <2>3 DEF TimeoutHandler
    <3> HIDE DEF x
    <3> QED
      BY <1>5, <3>2, <3>3, <3>4
  <2>4. CASE CallHandler(r, t)
    <3>1. context[c0].index = 0 /\ context' = [context EXCEPT ![c0].index = 1]
      BY <2>4 DEF CallHandler
    <3> QED
      BY <2>2, <3>1, NumbersAre
  <2>5. CASE NextReturns(r, t)
    BY <2>2, <2>5, NumbersAre DEF NextReturns
  <2>6. CASE TimesOut(r, t)
    <3> DEFINE s == 504
               n == 2
    <3>1. context' = [context EXCEPT ![c0].status = s, ![c0].index = n]
      BY <2>6 DEF TimesOut
    <3> HIDE DEF s, n
    <3> DEFINE x == [[context[c0] EXCEPT !.status = s] EXCEPT !.index = n]
    <3>2. context' = [context EXCEPT ![c0] = x]
      BY <1>0, <1>2, <3>1 DEF Types
    <3>3. x.holder = h /\ x.index = n
      BY <1>2 DEF ContextType
    <3> HIDE DEF x
    <3> QED
      BY <1>5, <3>2, <3>3 DEF n
  <2>7. CASE ProxyReturns(r, t)
    BY <2>1, <2>7 DEF ProxyReturns
  <2>8. CASE Answer(r, t)
    BY <2>1, <2>8 DEF Answer
  <2>9. CASE UNCHANGED context
    BY <2>9
  <2> QED
    BY <2>3, <2>4, <2>5, <2>6, <2>7, <2>8, <2>9
       DEF ChainStep, Step, Render, RunProxy, Finish, Flush, HeaderRaceNoticed
<1> DEFINE There == /\ \A q \in Requests : pc'[serve(q)] = "off" <=> pc[serve(q)] = "off"
                    /\ \A q \in Requests : pc'[job(q)] # "off" => pc[job(q)] # "off" \/ ctx[q] # none
<1>7. There
  <2>0. pc \in [Threads -> Places]
    BY <1>0 DEF Types
  <2>1. ASSUME NEW p, p # "off", pc' = [pc EXCEPT ![t] = p]
        PROVE  There
    BY <1>1, <1>2, <2>0, <2>1, ThreadFacts
  <2>2. CASE TimeoutHandler(r, t)
    <3>1. pc' = [pc EXCEPT ![t] = "select", ![job(h)] = "next"]
      BY <2>2 DEF TimeoutHandler
    <3>2. ctx[h] # none
      BY <1>2, NoneIsNone
    <3> QED
      BY <1>1, <1>2, <2>0, <3>1, <3>2, ThreadFacts
  <2>3. CASE RunProxy(r, t) \/ ProxyReturns(r, t)
    <3>1. frame[t] \in Requests
      BY <1>3, <2>3 DEF RunProxy, ProxyReturns, InHandler
    <3> DEFINE f == fetch(frame[t])
    <3>2. f \in Threads /\ f # t /\ \A q \in Requests : f # serve(q) /\ f # job(q)
      BY <3>1, ThreadFacts
    <3> HIDE DEF f
    <3>3. pc'[t] \in {"proxy", "render"} /\ \A u \in Threads \ {t, f} : pc'[u] = pc[u]
      <4>1. CASE RunProxy(r, t)
        BY <1>2, <2>0, <3>2, <4>1 DEF RunProxy, f
      <4>2. CASE ProxyReturns(r, t)
        BY <1>2, <2>0, <3>2, <4>2 DEF ProxyReturns, f
      <4> QED
        BY <2>3, <4>1, <4>2
    <3> QED
      BY <1>1, <3>2, <3>3, ThreadFacts
  <2>4. CASE Finish(r, t)
    <3>1. frame[t] \in Requests /\ pc[job(frame[t])] = "finish"
      BY <1>3, <2>4 DEF Finish, InSelect
    <3>2. pc' = [pc EXCEPT ![t] = "flush", ![job(frame[t])] = "done"]
      BY <2>4 DEF Finish
    <3> QED
      BY <1>1, <1>2, <2>0, <3>1, <3>2, ThreadFacts
  <2>5. CASE HeaderRaceNoticed(r, t)
    BY <2>5 DEF HeaderRaceNoticed
  <2> QED
    BY <2>1, <2>2, <2>3, <2>4, <2>5 DEF ChainStep, Step, CallHandler, NextReturns, Render, Flush,
       TimesOut, Answer
<1> QED
  BY <1>4, <1>6, <1>7

\* What a step of the chain does to the places and the frames.
LEMMA ChainPlaces ==
  ASSUME TypeOK, ContextInv, FrameInv, NEW r \in Requests, NEW t \in {serve(r), job(r)},
         ChainStep(r, t)
  PROVE  /\ \A u \in Threads \ {t} : /\ frame'[u] = frame[u]
                                     /\ pc'[u] = pc[u] \/ pc'[u] \in {"next", "done", "request", "result"}
         /\ frame'[t] = frame[t] \/ TimeoutHandler(r, t) \/ CallHandler(r, t)
         /\ InHandler(t)' => InHandler(t) \/ CallHandler(r, t)
         /\ InSelect(t)' => InSelect(t) \/ TimeoutHandler(r, t)
         /\ pc'[t] = "proxy" => RunProxy(r, t) \/ HeaderRaceNoticed(r, t)
<1>0. Types
  BY TypeFacts
<1>1. pc[t] # "off"
  BY DEF ChainStep, Step, TimeoutHandler, CallHandler, NextReturns, Render, RunProxy,
         ProxyReturns, Finish, Flush, TimesOut, Answer, HeaderRaceNoticed
<1> DEFINE h == context[ctx[r]].holder
<1>2. t \in Threads /\ h \in Requests /\ job(h) \in Threads
  BY <1>1, Own, ThreadFacts
<1>3. InSelect(t) \/ InHandler(t) =>
        /\ frame[t] \in Requests /\ job(frame[t]) \in Threads /\ fetch(frame[t]) \in Threads
        /\ fetch(frame[t]) # t
  BY <1>0, <1>2, ThreadFacts DEF FrameInv, Types
<1>4. pc \in [Threads -> Places] /\ frame \in [Threads -> Requests \cup {none}]
  BY <1>0 DEF Types
<1> DEFINE Goal == /\ \A u \in Threads \ {t} :
                        /\ frame'[u] = frame[u]
                        /\ pc'[u] = pc[u] \/ pc'[u] \in {"next", "done", "request", "result"}
                   /\ frame'[t] = frame[t] \/ TimeoutHandler(r, t) \/ CallHandler(r, t)
                   /\ InHandler(t)' => InHandler(t) \/ CallHandler(r, t)
                   /\ InSelect(t)' => InSelect(t) \/ TimeoutHandler(r, t)
                   /\ pc'[t] = "proxy" => RunProxy(r, t) \/ HeaderRaceNoticed(r, t)
<1> SUFFICES Goal
  OBVIOUS
<1> USE DEF InSelect, InHandler
<1>5. CASE TimeoutHandler(r, t)
  <2>1. /\ pc' = [pc EXCEPT ![t] = "select", ![job(h)] = "next"]
        /\ \E q : frame' = [frame EXCEPT ![t] = q]
    BY <1>5 DEF TimeoutHandler
  <2> HIDE DEF h
  <2> QED
    BY <1>2, <1>4, <1>5, <2>1
<1>6. CASE CallHandler(r, t)
  <2>1. pc' = [pc EXCEPT ![t] = "handler"] /\ \E q : frame' = [frame EXCEPT ![t] = q]
    BY <1>6 DEF CallHandler
  <2> QED
    BY <1>2, <1>4, <1>6, <2>1
<1>7. CASE NextReturns(r, t) \/ Render(r, t) \/ Flush(r, t) \/ TimesOut(r, t) \/ Answer(r, t)
  <2>1. /\ frame' = frame
        /\ \E p \in {"next", "finish", "end", "render"} :
             pc' = [pc EXCEPT ![t] = p] /\ (p = "render" => InHandler(t))
    BY <1>7 DEF NextReturns, Render, Flush, TimesOut, Answer
  <2> QED
    BY <1>2, <1>4, <2>1
<1>8. CASE RunProxy(r, t)
  <2>1. /\ pc' = [pc EXCEPT ![t] = "proxy", ![fetch(frame[t])] = "request"]
        /\ frame' = frame /\ InHandler(t)
    BY <1>8 DEF RunProxy
  <2> QED
    BY <1>2, <1>3, <1>4, <1>8, <2>1
<1>9. CASE ProxyReturns(r, t)
  <2>1. InHandler(t) /\ frame' = frame
    BY <1>9 DEF ProxyReturns
  <2> DEFINE f == fetch(frame[t])
  <2>2. f \in Threads /\ f # t
    BY <1>3, <2>1
  <2> HIDE DEF f
  <2>3. /\ pc'[t] = "render" /\ \A u \in Threads \ {t, f} : pc'[u] = pc[u]
        /\ pc'[f] = pc[f] \/ pc'[f] \in {"result", "done"}
    BY <1>2, <1>4, <1>9, <2>2 DEF ProxyReturns, AfterSend, f
  <2> QED
    BY <2>1, <2>2, <2>3
<1>10. CASE Finish(r, t)
  <2>1. /\ pc' = [pc EXCEPT ![t] = "flush", ![job(frame[t])] = "done"]
        /\ frame' = frame /\ InSelect(t)
    BY <1>10 DEF Finish
  <2> QED
    BY <1>2, <1>3, <1>4, <2>1
<1>11. CASE HeaderRaceNoticed(r, t)
  BY <1>11 DEF HeaderRaceNoticed
<1> QED
  BY <1>5, <1>6, <1>7, <1>8, <1>9, <1>10, <1>11 DEF ChainStep, Step

LEMMA ChainContext ==
  ASSUME TypeOK, ContextInv, FrameInv, NEW r \in Requests, NEW t \in {serve(r), job(r)},
         ChainStep(r, t)
  PROVE  ContextInv'
<1>0. Types
  BY TypeFacts
<1>1. /\ ctx' = ctx /\ \A c \in Contexts : context'[c].holder = context[c].holder
      /\ \A q \in Requests : pc'[serve(q)] = "off" <=> pc[serve(q)] = "off"
      /\ \A q \in Requests : pc'[job(q)] # "off" => pc[job(q)] # "off" \/ ctx[q] # none
  BY ChainMoves
<1>2. \A q \in Requests : ctx[q] # none => ctx[q] \in Contexts
  BY <1>0 DEF Types
<1> QED
  BY <1>1, <1>2 DEF ContextInv

LEMMA ChainFrames ==
  ASSUME TypeOK, ContextInv, FrameInv, OneHandler, NEW r \in Requests,
         NEW t \in {serve(r), job(r)}, ChainStep(r, t)
  PROVE  FrameInv'
<1>0. Types
  BY TypeFacts
<1>1. pc[t] # "off"
  BY DEF ChainStep, Step, TimeoutHandler, CallHandler, NextReturns, Render, RunProxy,
         ProxyReturns, Finish, Flush, TimesOut, Answer, HeaderRaceNoticed
<1>2. /\ t \in Threads /\ context[ctx[r]].holder \in Requests
      /\ \A q \in Requests : fetch(q) # t /\ fetch(q) \in Threads
  BY <1>1, Own, ThreadFacts
<1>3. /\ \A u \in Threads \ {t} :
           /\ frame'[u] = frame[u]
           /\ pc'[u] = pc[u] \/ pc'[u] \in {"next", "done", "request", "result"}
      /\ frame'[t] = frame[t] \/ TimeoutHandler(r, t) \/ CallHandler(r, t)
      /\ InHandler(t)' => InHandler(t) \/ CallHandler(r, t)
      /\ InSelect(t)' => InSelect(t) \/ TimeoutHandler(r, t)
      /\ pc'[t] = "proxy" => RunProxy(r, t) \/ HeaderRaceNoticed(r, t)
  BY ChainPlaces
<1>4. ASSUME NEW u \in Threads, InSelect(u)' \/ InHandler(u)'
      PROVE  frame'[u] # none
  <2>1. CASE u # t
    BY <1>3, <1>4, <2>1 DEF FrameInv, InSelect, InHandler
  <2>2. CASE u = t /\ (TimeoutHandler(r, t) \/ CallHandler(r, t))
    <3>1. frame'[t] = context[ctx[r]].holder
      BY <1>0, <1>2, <2>2 DEF TimeoutHandler, CallHandler, Types
    <3> QED
      BY <1>2, <2>2, <3>1, NoneIsNone
  <2>3. CASE u = t /\ ~(TimeoutHandler(r, t) \/ CallHandler(r, t))
    BY <1>2, <1>3, <1>4, <2>3 DEF FrameInv
  <2> QED
    BY <2>1, <2>2, <2>3
<1>5. ASSUME NEW q \in Requests
      PROVE  pc'[fetch(q)] \in {"off", "request", "result", "error", "done"}
  <2>1. fetch(q) \in Threads \ {t} /\ \A p \in Requests : fetch(q) # job(p)
    BY <1>2, ThreadFacts
  <2>2. pc'[fetch(q)] # "next" \/ pc'[fetch(q)] = pc[fetch(q)]
    <3>1. CASE TimeoutHandler(r, t)
      BY <1>0, <1>2, <2>1, <3>1 DEF TimeoutHandler, Types
    <3>2. CASE RunProxy(r, t)
      BY <1>0, <2>1, <3>2 DEF RunProxy, Types
    <3>3. CASE ProxyReturns(r, t)
      BY <1>0, <2>1, <3>3 DEF ProxyReturns, AfterSend, Types
    <3>4. CASE ~(TimeoutHandler(r, t) \/ RunProxy(r, t) \/ ProxyReturns(r, t))
      BY <1>0, <2>1, <3>4 DEF ChainStep, Step, CallHandler, NextReturns, Render, Finish, Flush,
         TimesOut, Answer, HeaderRaceNoticed, Types
    <3> QED
      BY <3>1, <3>2, <3>3, <3>4
  <2> QED
    BY <1>3, <2>1, <2>2 DEF FrameInv
<1>6. ASSUME NEW u \in Threads, pc'[u] = "proxy"
      PROVE  pc'[fetch(frame'[u])] \in {"request", "result", "error"}
  <2>0. pc \in [Threads -> Places]
    BY <1>0 DEF Types
  <2>1. CASE u = t
    <3>1. RunProxy(r, t) \/ HeaderRaceNoticed(r, t)
      BY <1>3, <1>6, <2>1
    <3>2. CASE RunProxy(r, t)
      <4>1. frame[t] \in Requests
        BY <1>0, <1>2, <3>2 DEF RunProxy, FrameInv, InHandler, Types
      <4>2. fetch(frame[t]) \in Threads
        BY <1>2, <4>1
      <4> QED
        BY <2>0, <2>1, <3>2, <4>2 DEF RunProxy
    <3>3. CASE HeaderRaceNoticed(r, t)
      BY <1>6, <2>1, <3>3 DEF HeaderRaceNoticed, FrameInv
    <3> QED
      BY <3>1, <3>2, <3>3
  <2>2. CASE u # t
    <3> DEFINE q == frame[u]
               f == fetch(frame[u])
    <3>1. pc[u] = "proxy" /\ frame'[u] = q
      BY <1>3, <1>6, <2>2
    <3>2. q \in Requests /\ f \in Threads \ {t} /\ pc[f] \in {"request", "result", "error"}
      BY <1>0, <1>2, <3>1 DEF FrameInv, InHandler, Types
    <3>3. pc'[f] \in {"request", "result"} \/ pc'[f] = pc[f]
      <4>1. CASE TimeoutHandler(r, t)
        <5>1. job(context[ctx[r]].holder) # f
          BY <1>2, <3>2, ThreadFacts
        <5> QED
          BY <1>2, <2>0, <3>2, <4>1, <5>1 DEF TimeoutHandler
      <4>2. CASE RunProxy(r, t)
        BY <2>0, <3>2, <4>2 DEF RunProxy
      <4>3. CASE ProxyReturns(r, t)
        <5>1. frame[t] # q /\ frame[t] \in Requests
          BY <1>0, <1>2, <2>2, <3>1, <4>3 DEF ProxyReturns, OneHandler, InHandler, FrameInv, Types
        <5>2. fetch(frame[t]) # f
          BY <3>2, <5>1, ThreadFacts
        <5> HIDE DEF f
        <5> QED
          BY <2>0, <3>2, <4>3, <5>2 DEF ProxyReturns
      <4>4. CASE Finish(r, t)
        <5>1. frame[t] \in Requests
          BY <1>0, <1>2, <4>4 DEF Finish, FrameInv, InSelect, Types
        <5>2. job(frame[t]) # f
          BY <3>2, <5>1, ThreadFacts
        <5> HIDE DEF f
        <5> QED
          BY <2>0, <3>2, <4>4, <5>2 DEF Finish
      <4>5. CASE ~(TimeoutHandler(r, t) \/ RunProxy(r, t) \/ ProxyReturns(r, t) \/ Finish(r, t))
        BY <2>0, <3>2, <4>5 DEF ChainStep, Step, CallHandler, NextReturns, Render, Flush,
           TimesOut, Answer, HeaderRaceNoticed
      <4> QED
        BY <4>1, <4>2, <4>3, <4>4, <4>5
    <3> QED
      BY <3>1, <3>2, <3>3
  <2> QED
    BY <2>1, <2>2
<1> QED
  BY <1>4, <1>5, <1>6 DEF FrameInv

(***************************************************************************)
(* Sequences of answers.                                                   *)
(***************************************************************************)

LEMMA NoAnswers == AnswersIn(<<>>) = {} /\ Distinct(<<>>)
  BY DEF AnswersIn, Distinct

LEMMA ConcatAnswers ==
  ASSUME NEW s \in Seq(Requests), NEW x \in Seq(Requests)
  PROVE  /\ AnswersIn(s \o x) = AnswersIn(s) \cup AnswersIn(x)
         /\ Distinct(s) /\ Distinct(x) /\ AnswersIn(s) \cap AnswersIn(x) = {} => Distinct(s \o x)
<1>1. /\ Len(s) \in Nat /\ Len(x) \in Nat /\ Len(s \o x) = Len(s) + Len(x)
      /\ DOMAIN s = 1 .. Len(s) /\ DOMAIN x = 1 .. Len(x) /\ DOMAIN (s \o x) = 1 .. Len(s \o x)
      /\ \A n \in 1 .. Len(s) + Len(x) :
           (s \o x)[n] = IF n <= Len(s) THEN s[n] ELSE x[n - Len(s)]
  BY ConcatProperties, LenProperties
<1> DEFINE y == s \o x
<1>2. \A n \in DOMAIN s : n \in DOMAIN y /\ y[n] = s[n]
  BY <1>1
<1>3. \A n \in DOMAIN x : Len(s) + n \in DOMAIN y /\ y[Len(s) + n] = x[n]
  <2> SUFFICES ASSUME NEW n \in DOMAIN x PROVE Len(s) + n \in DOMAIN y /\ y[Len(s) + n] = x[n]
    OBVIOUS
  <2>1. Len(s) + n \in 1 .. Len(s) + Len(x) /\ ~(Len(s) + n <= Len(s)) /\ (Len(s) + n) - Len(s) = n
    BY <1>1
  <2> QED
    BY <1>1, <2>1
<1>4. \A n \in DOMAIN y : \/ n \in DOMAIN s /\ y[n] = s[n]
                          \/ /\ n \notin DOMAIN s /\ n - Len(s) \in DOMAIN x
                             /\ y[n] = x[n - Len(s)]
  BY <1>1
<1>5. Len(s) \in Nat /\ \A n \in DOMAIN y : n \in Nat
  BY <1>1
<1> HIDE DEF y
<1>6. AnswersIn(y) = AnswersIn(s) \cup AnswersIn(x)
  <2>1. ASSUME NEW a \in AnswersIn(y) PROVE a \in AnswersIn(s) \cup AnswersIn(x)
    <3>1. PICK n \in DOMAIN y : a = y[n]
      BY DEF AnswersIn
    <3> QED
      BY <1>4, <3>1 DEF AnswersIn
  <2>2. ASSUME NEW a \in AnswersIn(s) PROVE a \in AnswersIn(y)
    BY <1>2 DEF AnswersIn
  <2>3. ASSUME NEW a \in AnswersIn(x) PROVE a \in AnswersIn(y)
    BY <1>3 DEF AnswersIn
  <2> QED
    BY <2>1, <2>2, <2>3
<1>7. ASSUME Distinct(s), Distinct(x), AnswersIn(s) \cap AnswersIn(x) = {}
      PROVE  Distinct(y)
  <2> SUFFICES ASSUME NEW n \in DOMAIN y, NEW m \in DOMAIN y, y[n] = y[m]
               PROVE  n = m
    BY DEF Distinct
  <2>1. CASE n \in DOMAIN s /\ m \in DOMAIN s
    BY <1>4, <1>7, <2>1 DEF Distinct
  <2>2. CASE n \notin DOMAIN s /\ m \notin DOMAIN s
    <3>1. n - Len(s) = m - Len(s)
      BY <1>4, <1>7, <2>2 DEF Distinct
    <3> QED
      BY <1>5, <3>1
  <2>3. CASE n \in DOMAIN s <=> m \notin DOMAIN s
    <3>1. y[n] \in AnswersIn(s) /\ y[n] \in AnswersIn(x)
      BY <1>4, <2>3 DEF AnswersIn
    <3> QED
      BY <1>7, <3>1
  <2> QED
    BY <2>1, <2>2, <2>3
<1> QED
  BY <1>6, <1>7 DEF y

LEMMA OneAnswer ==
  ASSUME NEW a \in Requests
  PROVE  <<a>> \in Seq(Requests) /\ AnswersIn(<<a>>) = {a} /\ Distinct(<<a>>)
  BY DEF AnswersIn, Distinct

LEMMA AppendAnswers ==
  ASSUME NEW s \in Seq(Requests), NEW a \in Requests
  PROVE  /\ AnswersIn(Append(s, a)) = AnswersIn(s) \cup {a}
         /\ Distinct(s) /\ a \notin AnswersIn(s) => Distinct(Append(s, a))
<1>1. Append(s, a) = s \o <<a>>
  BY AppendIsConcat
<1> DEFINE x == <<a>>
<1>2. x \in Seq(Requests) /\ AnswersIn(x) = {a} /\ Distinct(x)
  BY OneAnswer
<1> HIDE DEF x
<1>3. /\ AnswersIn(s \o x) = AnswersIn(s) \cup AnswersIn(x)
      /\ Distinct(s) /\ Distinct(x) /\ AnswersIn(s) \cap AnswersIn(x) = {} => Distinct(s \o x)
  BY <1>2, ConcatAnswers
<1>4. Append(s, a) = s \o x
  BY <1>1 DEF x
<1> QED
  BY <1>2, <1>3, <1>4

(***************************************************************************)
(* An answer is in one place.                                              *)
(***************************************************************************)

Once == OneHandler /\ UncalledInv /\ AtWorkInv /\ HeldInv /\ ReceivedInv

\* Steps that call no handler and take no answer anywhere.
LEMMA OnceKept ==
  ASSUME Once,
         \A t \in Threads : InHandler(t)' => InHandler(t) /\ frame'[t] = frame[t],
         \A a \in Requests : Uncalled(a)' => Uncalled(a),
         \A b \in Held' : body'[b] = <<>> \/ (b \in Held /\ body'[b] = body[b]),
         \A q \in Requests : resp'[q].body = resp[q].body
  PROVE  Once'
<1>0. OneHandler /\ UncalledInv /\ AtWorkInv /\ HeldInv /\ ReceivedInv
  BY DEF Once
<1>1. \A b \in Held' : /\ Distinct(body'[b])
                       /\ \/ AnswersIn(body'[b]) = {}
                          \/ b \in Held /\ AnswersIn(body'[b]) = AnswersIn(body[b])
  BY <1>0, NoAnswers DEF HeldInv
<1>2. OneHandler'
  BY <1>0 DEF OneHandler
<1>3. UncalledInv'
  BY <1>0, <1>1 DEF UncalledInv
<1>4. AtWorkInv'
  BY <1>0, <1>1 DEF AtWorkInv
<1>5. HeldInv'
  BY <1>0, <1>1 DEF HeldInv
<1>6. ReceivedInv'
  BY <1>0 DEF ReceivedInv
<1> QED
  BY <1>2, <1>3, <1>4, <1>5, <1>6 DEF Once

\* The chain moves on: nobody becomes uncalled, and only CallHandler calls a handler.
LEMMA ChainCalls ==
  ASSUME TypeOK, ContextInv, FrameInv, NEW r \in Requests, NEW t \in {serve(r), job(r)},
         ChainStep(r, t)
  PROVE  /\ \A a \in Requests : /\ Uncalled(a)' => Uncalled(a)
                                /\ Unbuffered(a)' => Unbuffered(a)
         /\ ~CallHandler(r, t) =>
              \A u \in Threads : InHandler(u)' => InHandler(u) /\ frame'[u] = frame[u]
         /\ ~TimeoutHandler(r, t) =>
              \A u \in Threads : InSelect(u)' => InSelect(u) /\ frame'[u] = frame[u]
<1>0. Types
  BY TypeFacts
<1>1. /\ ctx' = ctx
      /\ \A c \in Contexts : /\ context'[c].holder = context[c].holder
                             /\ context'[c].index <= 0 => context[c].index <= 0
                             /\ context'[c].index = -1 => context[c].index = -1
  BY ChainMoves
<1>2. \A a \in Requests : ctx[a] # none => ctx[a] \in Contexts
  BY <1>0 DEF Types
<1>3. \A a \in Requests : /\ Uncalled(a)' => Uncalled(a)
                          /\ Unbuffered(a)' => Unbuffered(a)
  BY <1>1, <1>2 DEF Uncalled, Unbuffered
<1>4. /\ \A u \in Threads \ {t} :
           /\ frame'[u] = frame[u]
           /\ pc'[u] = pc[u] \/ pc'[u] \in {"next", "done", "request", "result"}
      /\ frame'[t] = frame[t] \/ TimeoutHandler(r, t) \/ CallHandler(r, t)
      /\ InHandler(t)' => InHandler(t) \/ CallHandler(r, t)
      /\ InSelect(t)' => InSelect(t) \/ TimeoutHandler(r, t)
  BY ChainPlaces
<1>5. t \in Threads
  BY ThreadFacts
<1>6. TimeoutHandler(r, t) => ~InHandler(t)'
  BY <1>0, <1>5 DEF TimeoutHandler, InHandler, Types
<1>7. CallHandler(r, t) => ~InSelect(t)'
  BY <1>0, <1>5 DEF CallHandler, InSelect, Types
<1>8. ~CallHandler(r, t) =>
         \A u \in Threads : InHandler(u)' => InHandler(u) /\ frame'[u] = frame[u]
  BY <1>4, <1>6 DEF InHandler
<1>9. ~TimeoutHandler(r, t) =>
         \A u \in Threads : InSelect(u)' => InSelect(u) /\ frame'[u] = frame[u]
  BY <1>4, <1>7 DEF InSelect
<1> QED
  BY <1>3, <1>8, <1>9

\* A handler is called for the first time.
LEMMA CallOnce ==
  ASSUME TypeOK, ContextInv, FrameInv, Once, NEW r \in Requests,
         NEW t \in {serve(r), job(r)}, CallHandler(r, t)
  PROVE  Once'
<1>0. Types /\ OneHandler /\ UncalledInv /\ AtWorkInv /\ HeldInv /\ ReceivedInv
  BY TypeFacts DEF Once
<1> DEFINE c == ctx[r]
<1>1. ChainStep(r, t) /\ pc[t] # "off" /\ ~TimeoutHandler(r, t)
  BY DEF ChainStep, Step, CallHandler, TimeoutHandler
<1>h. PICK h \in Requests : h = context[c].holder
  BY <1>1, Own
<1>2. t \in Threads /\ c \in Contexts /\ ctx[h] = c /\ context[c] \in ContextType
  BY <1>1, <1>h, Own
<1>3. context[c].index = 0
  BY DEF CallHandler
<1>4. Uncalled(h)
  BY <1>2, <1>3, <1>h DEF Uncalled
<1>5. /\ context'[c].index = 1 /\ UNCHANGED <<ctx, body, pooled, resp>>
      /\ frame'[t] = h /\ pc'[t] = "handler"
      /\ \A u \in Threads \ {t} : frame'[u] = frame[u] /\ pc'[u] = pc[u]
  BY <1>0, <1>2, <1>h DEF CallHandler, Types, ContextType
<1>6. ~Uncalled(h)'
  <2>1. c # none
    BY <1>2, NoneIsNone
  <2>2. ctx'[h] = c /\ ~(context'[c].index <= 0)
    BY <1>2, <1>5
  <2> HIDE DEF c
  <2> QED
    BY <2>1, <2>2 DEF Uncalled
<1>7. \A a \in Requests : Uncalled(a)' => Uncalled(a)
  BY <1>1, ChainCalls
<1>8. \A u \in Threads \ {t} : InHandler(u)' => InHandler(u) /\ frame'[u] # h
  BY <1>0, <1>2, <1>4, <1>5 DEF UncalledInv, InHandler
<1> HIDE DEF c
<1>9. OneHandler'
  BY <1>0, <1>5, <1>8 DEF OneHandler, InHandler
<1>10. UncalledInv'
  <2>1. \A q \in Requests : Uncalled(q)' => Uncalled(q) /\ q # h
    BY <1>6, <1>7
  <2>2. ASSUME NEW q \in Requests, Uncalled(q)', NEW u \in Threads, InHandler(u)'
        PROVE  frame'[u] # q
    <3>1. CASE u = t
      BY <1>5, <2>1, <2>2, <3>1
    <3>2. CASE u # t
      BY <1>0, <1>5, <1>8, <2>1, <2>2, <3>2 DEF UncalledInv
    <3> QED
      BY <3>1, <3>2
  <2>3. body' = body /\ resp' = resp /\ Held' = Held
    BY <1>5 DEF Held
  <2> QED
    BY <1>0, <2>1, <2>2, <2>3 DEF UncalledInv
<1>11. AtWorkInv'
  BY <1>0, <1>2, <1>4, <1>5, <1>8 DEF AtWorkInv, UncalledInv, Held, InHandler
<1>12. HeldInv' /\ ReceivedInv'
  BY <1>0, <1>5 DEF HeldInv, ReceivedInv, Held
<1> QED
  BY <1>9, <1>10, <1>11, <1>12 DEF Once

\* A goroutine leaves its handler with the answer in a buffer, in a response, or lost.
LEMMA RenderOnce ==
  ASSUME TypeOK, ContextInv, FrameInv, Once, NEW r \in Requests,
         NEW t \in {serve(r), job(r)}, Render(r, t)
  PROVE  Once'
<1>0. Types /\ OneHandler /\ UncalledInv /\ AtWorkInv /\ HeldInv /\ ReceivedInv
  BY TypeFacts DEF Once
<1> DEFINE c == ctx[r]
           h == context[c].holder
           a == frame[t]
           w == context[c].writer
<1>1. ChainStep(r, t) /\ pc[t] = "render"
  BY DEF ChainStep, Step, Render
<1>2. t \in Threads /\ c \in Contexts /\ h \in Requests /\ context[c] \in ContextType
  BY <1>1, Own
<1>3. a \in Requests /\ InHandler(t)
  BY <1>0, <1>1, <1>2 DEF FrameInv, InHandler, Types
<1>4. <<a>> \in Seq(Requests) /\ AnswersIn(<<a>>) = {a} /\ Distinct(<<a>>)
  BY <1>3, OneAnswer
<1>5. /\ \A q \in Requests : Uncalled(q)' => Uncalled(q) /\ q # a
      /\ \A u \in Threads : InHandler(u)' => InHandler(u) /\ frame'[u] = frame[u] /\ frame[u] # a
  <2>1. /\ \A q \in Requests : Uncalled(q)' => Uncalled(q)
        /\ \A u \in Threads : InHandler(u)' => InHandler(u) /\ frame'[u] = frame[u]
    BY <1>1, ChainCalls DEF Render, CallHandler
  <2>2. ~Uncalled(a)
    BY <1>0, <1>2, <1>3 DEF UncalledInv
  <2>3. ~InHandler(t)'
    BY <1>0, <1>2 DEF Render, InHandler, Types
  <2>4. \A u \in Threads \ {t} : InHandler(u) => frame[u] # a
    BY <1>0, <1>2, <1>3 DEF OneHandler
  <2> QED
    BY <2>1, <2>2, <2>3, <2>4
<1>6. /\ \A b \in Held : a \notin AnswersIn(body[b])
      /\ \A q \in Requests : a \notin AnswersIn(resp[q].body)
  BY <1>0, <1>2, <1>3 DEF AtWorkInv
<1>7. pooled' = pooled /\ Held' = Held
  BY DEF Render, Held
<1> DEFINE Add(old, new) == \/ new = old
                            \/ AnswersIn(new) = AnswersIn(old) \cup {a} /\ (Distinct(old) => Distinct(new))
<1>8. CASE w = none
  <2>1. WriteResponse(c, <<a>>) /\ body' = body
    BY <1>8 DEF Render
  <2>2. \A q \in Requests : \/ resp'[q].body = resp[q].body
                            \/ q = h /\ resp'[q].body = resp[q].body \o <<a>>
    <3> DEFINE x == <<a>>
    <3>1. x \in Seq(Requests) /\ WriteResponse(c, x)
      BY <1>4, <2>1
    <3> HIDE DEF x
    <3>2. \A q \in Requests : \/ resp'[q].body = resp[q].body
                              \/ q = h /\ resp'[q].body = resp[q].body \o x
      BY <1>2, <3>1, Writes
    <3> QED
      BY <3>2 DEF x
  <2>3. Add(resp[h].body, resp'[h].body) /\ \A q \in Requests \ {h} : resp'[q].body = resp[q].body
    <3> DEFINE s == resp[h].body
               x == <<a>>
    <3>1. s \in Seq(Requests) /\ x \in Seq(Requests) /\ AnswersIn(x) = {a} /\ Distinct(x)
      <4>1. s \in Seq(Requests)
        <5>1. resp[h] \in Response
          BY <1>0, <1>2 DEF Types
        <5> QED
          BY <5>1 DEF Response
      <4> QED
        BY <1>4, <4>1
    <3>2. a \notin AnswersIn(s)
      BY <1>2, <1>6
    <3>3. resp'[h].body \in {s, s \o x}
      BY <1>2, <2>2
    <3> HIDE DEF s, x
    <3>4. AnswersIn(s \o x) = AnswersIn(s) \cup {a} /\ (Distinct(s) => Distinct(s \o x))
      BY <3>1, <3>2, ConcatAnswers
    <3>5. Add(s, resp'[h].body)
      BY <3>3, <3>4
    <3> QED
      BY <2>2, <3>5 DEF s
  <2> DEFINE old == resp[h].body
             new == resp'[h].body
  <2>4. Add(old, new)
    BY <2>3
  <2>5. /\ Distinct(new) /\ AnswersIn(new) \subseteq AnswersIn(old) \cup {a}
    BY <1>0, <1>2, <2>4 DEF ReceivedInv
  <2>6. \A q \in Requests : /\ Distinct(resp'[q].body)
                            /\ AnswersIn(resp'[q].body) \subseteq AnswersIn(resp[q].body) \cup {a}
                            /\ q # h => AnswersIn(resp'[q].body) = AnswersIn(resp[q].body)
    BY <1>0, <2>3, <2>5 DEF ReceivedInv
  <2> HIDE DEF old, new, Add, c, h, a, w
  <2>7. OneHandler'
    BY <1>0, <1>5 DEF OneHandler
  <2>8. UncalledInv'
    BY <1>0, <1>5, <1>7, <2>1, <2>6 DEF UncalledInv
  <2>9. AtWorkInv'
    BY <1>0, <1>5, <1>7, <2>1, <2>6 DEF AtWorkInv
  <2>10. HeldInv'
    BY <1>0, <1>6, <1>7, <2>1, <2>6 DEF HeldInv
  <2>11. ReceivedInv'
    BY <1>0, <1>6, <2>6 DEF ReceivedInv
  <2> QED
    BY <2>7, <2>8, <2>9, <2>10, <2>11 DEF Once
<1>9. CASE w # none
  <2>1. w \in Buffers /\ body[w] \in Seq(Requests)
    BY <1>0, <1>2, <1>9 DEF ContextType, Types
  <2>2. body' = [body EXCEPT ![w] = Append(body[w], a)] /\ resp' = resp
    BY <1>9 DEF Render
  <2>3. \A b \in Held : /\ Distinct(body'[b])
                        /\ AnswersIn(body'[b]) \subseteq AnswersIn(body[b]) \cup {a}
                        /\ b # w => AnswersIn(body'[b]) = AnswersIn(body[b])
    <3>1. ASSUME NEW b \in Held, b = w
          PROVE  Distinct(body'[b]) /\ AnswersIn(body'[b]) = AnswersIn(body[b]) \cup {a}
      <4> DEFINE s == body[w]
      <4>1. Distinct(s) /\ a \notin AnswersIn(s) /\ s \in Seq(Requests)
        BY <1>0, <1>6, <2>1, <3>1 DEF HeldInv
      <4>2. body'[b] = Append(s, a)
        BY <1>0, <2>1, <2>2, <3>1 DEF Types
      <4> HIDE DEF s, a
      <4>3. Distinct(Append(s, a)) /\ AnswersIn(Append(s, a)) = AnswersIn(s) \cup {a}
        BY <1>3, <4>1, AppendAnswers
      <4> QED
        BY <3>1, <4>2, <4>3 DEF s
    <3>2. ASSUME NEW b \in Held, b # w
          PROVE  body'[b] = body[b] /\ Distinct(body[b])
      BY <1>0, <2>1, <2>2, <3>2 DEF Types, Held, HeldInv
    <3> QED
      BY <3>1, <3>2
  <2> HIDE DEF c, h, a, w
  <2>4. OneHandler'
    BY <1>0, <1>5 DEF OneHandler
  <2>5. UncalledInv'
    BY <1>0, <1>5, <1>7, <2>2, <2>3 DEF UncalledInv
  <2>6. AtWorkInv'
    BY <1>0, <1>5, <1>7, <2>2, <2>3 DEF AtWorkInv
  <2>x. ASSUME NEW b \in Held, NEW d \in Held \ {b}
        PROVE  AnswersIn(body'[b]) \cap AnswersIn(body'[d]) = {}
    <3>1. AnswersIn(body[b]) \cap AnswersIn(body[d]) = {}
      BY <1>0 DEF HeldInv
    <3>2. a \notin AnswersIn(body[b]) /\ a \notin AnswersIn(body[d])
      BY <1>6
    <3> QED
      BY <2>3, <3>1, <3>2
  <2>y. ASSUME NEW b \in Held, NEW q \in Requests
        PROVE  AnswersIn(body'[b]) \cap AnswersIn(resp'[q].body) = {}
    BY <1>0, <1>6, <2>2, <2>3 DEF HeldInv
  <2>7. HeldInv'
    BY <1>7, <2>3, <2>x, <2>y DEF HeldInv
  <2>8. ReceivedInv'
    BY <1>0, <2>2 DEF ReceivedInv
  <2> QED
    BY <2>4, <2>5, <2>6, <2>7, <2>8 DEF Once
<1> QED
  BY <1>8, <1>9

\* A buffer goes into a response and back to the pool.
LEMMA FlushOnce ==
  ASSUME TypeOK, ContextInv, FrameInv, BufferInv, Once, NEW r \in Requests,
         NEW t \in {serve(r), job(r)}, Flush(r, t)
  PROVE  Once'
<1>0. Types /\ OneHandler /\ UncalledInv /\ AtWorkInv /\ HeldInv /\ ReceivedInv
  BY TypeFacts DEF Once
<1> DEFINE c == ctx[r]
           h == context[c].holder
           b == buf[frame[t]]
           x == body[b]
<1>1. ChainStep(r, t) /\ pc[t] = "flush" /\ InSelect(t)
  BY DEF ChainStep, Step, Flush, InSelect
<1>2. t \in Threads /\ c \in Contexts /\ h \in Requests
  BY <1>1, Own
<1>3. b \in Held /\ b \in Buffers /\ x \in Seq(Requests)
  BY <1>0, <1>1, <1>2 DEF BufferInv, Held, Types
<1>4. /\ \A q \in Requests : Uncalled(q)' => Uncalled(q)
      /\ \A u \in Threads : InHandler(u)' => InHandler(u) /\ frame'[u] = frame[u]
  BY <1>1, ChainCalls DEF Flush, CallHandler
<1>5. body' = body /\ Held' = Held \ {b} /\ WriteResponse(c, x)
  BY DEF Flush, Held
<1> HIDE DEF x
<1>6. \A q \in Requests : \/ resp'[q].body = resp[q].body
                          \/ q = h /\ resp'[q].body = resp[q].body \o x
  BY <1>2, <1>3, <1>5, Writes
<1>7. Distinct(x) /\ \A q \in Requests : AnswersIn(x) \cap AnswersIn(resp[q].body) = {}
  BY <1>0, <1>3 DEF HeldInv, x
<1>8. \A q \in Requests : resp[q].body \in Seq(Requests)
  BY <1>0 DEF Types, Response
<1>9. \A q \in Requests : /\ Distinct(resp'[q].body)
                          /\ AnswersIn(resp'[q].body) \subseteq AnswersIn(resp[q].body) \cup AnswersIn(x)
                          /\ q # h => AnswersIn(resp'[q].body) = AnswersIn(resp[q].body)
  <2> SUFFICES ASSUME NEW q \in Requests
               PROVE  /\ Distinct(resp'[q].body)
                      /\ AnswersIn(resp'[q].body) \subseteq AnswersIn(resp[q].body) \cup AnswersIn(x)
                      /\ q # h => AnswersIn(resp'[q].body) = AnswersIn(resp[q].body)
    OBVIOUS
  <2> DEFINE s == resp[q].body
  <2>1. s \in Seq(Requests) /\ Distinct(s) /\ AnswersIn(s) \cap AnswersIn(x) = {}
    BY <1>0, <1>7, <1>8 DEF ReceivedInv
  <2>2. resp'[q].body = s \/ (q = h /\ resp'[q].body = s \o x)
    BY <1>6
  <2> HIDE DEF s, h
  <2>3. /\ AnswersIn(s \o x) = AnswersIn(s) \cup AnswersIn(x)
        /\ Distinct(s) /\ Distinct(x) /\ AnswersIn(s) \cap AnswersIn(x) = {} => Distinct(s \o x)
    BY <1>3, <2>1, ConcatAnswers
  <2> QED
    BY <1>7, <2>1, <2>2, <2>3 DEF s
<1> HIDE DEF c, h, b
<1>10. OneHandler'
  BY <1>0, <1>4 DEF OneHandler
<1>12. UncalledInv'
  <2>1. ASSUME NEW q \in Requests, Uncalled(q)', NEW p \in Requests
        PROVE  q \notin AnswersIn(resp'[p].body)
    BY <1>0, <1>3, <1>4, <1>9, <2>1 DEF UncalledInv, x
  <2> QED
    BY <1>0, <1>4, <1>5, <2>1 DEF UncalledInv
<1>13. AtWorkInv'
  <2>1. ASSUME NEW u \in Threads, InHandler(u)', NEW p \in Requests
        PROVE  frame'[u] \notin AnswersIn(resp'[p].body)
    BY <1>0, <1>3, <1>4, <1>9, <2>1 DEF AtWorkInv, x
  <2> QED
    BY <1>0, <1>4, <1>5, <2>1 DEF AtWorkInv
<1>14. HeldInv'
  <2>1. ASSUME NEW d \in Held \ {b}, NEW p \in Requests
        PROVE  AnswersIn(body[d]) \cap AnswersIn(resp'[p].body) = {}
    <3>1. AnswersIn(body[d]) \cap AnswersIn(x) = {}
      BY <1>0, <1>3 DEF HeldInv, x
    <3>2. AnswersIn(body[d]) \cap AnswersIn(resp[p].body) = {}
      BY <1>0 DEF HeldInv
    <3> QED
      BY <1>9, <3>1, <3>2
  <2> QED
    BY <1>0, <1>5, <2>1 DEF HeldInv
<1>15. ReceivedInv'
  BY <1>0, <1>7, <1>9 DEF ReceivedInv
<1> QED
  BY <1>10, <1>12, <1>13, <1>14, <1>15 DEF Once

LEMMA ChainOnce ==
  ASSUME TypeOK, ContextInv, FrameInv, BufferInv, Once, NEW r \in Requests,
         NEW t \in {serve(r), job(r)}, ChainStep(r, t)
  PROVE  Once'
<1>1. CASE CallHandler(r, t) \/ Render(r, t) \/ Flush(r, t)
  BY <1>1, CallOnce, RenderOnce, FlushOnce
<1>2. CASE ~(CallHandler(r, t) \/ Render(r, t) \/ Flush(r, t))
  <2>1. resp' = resp
    BY <1>2 DEF ChainStep, Step, TimeoutHandler, NextReturns, RunProxy, ProxyReturns, Finish,
       TimesOut, Answer, HeaderRaceNoticed
  <2>2. \A b \in Held' : body'[b] = <<>> \/ (b \in Held /\ body'[b] = body[b])
    <3>0. Types
      BY TypeFacts
    <3>1. CASE TimeoutHandler(r, t)
      BY <3>0, <3>1 DEF TimeoutHandler, Held, Types
    <3>2. CASE ~TimeoutHandler(r, t)
      <4>1. UNCHANGED <<pooled, body>>
        BY <1>2, <3>2 DEF ChainStep, Step, NextReturns, RunProxy, ProxyReturns, Finish, TimesOut,
           Answer, HeaderRaceNoticed
      <4> QED
        BY <4>1 DEF Held
    <3> QED
      BY <3>1, <3>2
  <2>3. /\ \A q \in Requests : Uncalled(q)' => Uncalled(q)
        /\ \A u \in Threads : InHandler(u)' => InHandler(u) /\ frame'[u] = frame[u]
    BY <1>2, ChainCalls
  <2> QED
    BY <2>1, <2>2, <2>3, OnceKept
<1> QED
  BY <1>1, <1>2

LEMMA ChainBuffers ==
  ASSUME TypeOK, ContextInv, FrameInv, BufferInv, NEW r \in Requests,
         NEW t \in {serve(r), job(r)}, ChainStep(r, t)
  PROVE  BufferInv'
<1>0. Types
  BY TypeFacts
<1>1. \A q \in Requests : Unbuffered(q)' => Unbuffered(q)
  BY ChainCalls
<1>2. CASE TimeoutHandler(r, t)
  <2>1. pc[t] # "off"
    BY <1>2 DEF TimeoutHandler
  <2>2. PICK h \in Requests : h = context[ctx[r]].holder
    BY <2>1, Own
  <2>3. t \in Threads /\ ctx[r] \in Contexts /\ ctx[h] = ctx[r] /\ context[ctx[r]] \in ContextType
    BY <2>1, <2>2, Own
  <2>4. PICK b \in pooled : pooled' = pooled \ {b} /\ buf' = [buf EXCEPT ![h] = b]
    BY <1>2, <2>2 DEF TimeoutHandler
  <2>5. Held' = Held \cup {b} /\ b \notin Held
    BY <1>0, <2>4 DEF Held, Types
  <2>6. Unbuffered(h)
    BY <1>2, <2>2, <2>3 DEF TimeoutHandler, Unbuffered
  <2>7. ~Unbuffered(h)'
    <3>1. ctx[r] # none /\ ctx'[h] = ctx[r]
      BY <1>2, <2>3, NoneIsNone DEF TimeoutHandler
    <3>2. context'[ctx[r]].index = 0
      BY <1>0, <1>2, <2>3 DEF TimeoutHandler, Types, ContextType
    <3> QED
      BY <3>1, <3>2 DEF Unbuffered
  <2>8. \A u \in Threads \ {t} : /\ InSelect(u)' => InSelect(u)
                                 /\ frame'[u] = frame[u]
    BY ChainPlaces DEF InSelect
  <2>9. frame'[t] = h /\ \A u \in Threads : InSelect(u) => frame[u] # h /\ frame[u] \in Requests
    BY <1>0, <1>2, <2>2, <2>3, <2>6 DEF TimeoutHandler, BufferInv, FrameInv, Types
  <2>10. buf'[h] = b /\ \A q \in Requests \ {h} : buf'[q] = buf[q]
    BY <1>0, <2>4 DEF Types
  <2>11. \A u \in Threads \ {t} : InSelect(u)' => InSelect(u) /\ buf'[frame'[u]] = buf[frame[u]]
    BY <2>8, <2>9, <2>10
  <2>12. \A u \in Threads : InSelect(u)' => buf'[frame'[u]] \in Held'
    BY <2>5, <2>9, <2>10, <2>11 DEF BufferInv
  <2>13. \A u, v \in Threads :
           InSelect(u)' /\ InSelect(v)' /\ buf'[frame'[u]] = buf'[frame'[v]] => u = v
    BY <2>5, <2>9, <2>10, <2>11 DEF BufferInv
  <2>14. \A q \in Requests : Unbuffered(q)' => \A u \in Threads : InSelect(u)' => frame'[u] # q
    BY <1>1, <2>7, <2>8, <2>9 DEF BufferInv
  <2> QED
    BY <2>12, <2>13, <2>14 DEF BufferInv
<1>3. CASE ~TimeoutHandler(r, t)
  <2>1. \A u \in Threads : InSelect(u)' => InSelect(u) /\ frame'[u] = frame[u]
    BY <1>3, ChainCalls
  <2>2. buf' = buf
    BY <1>3 DEF ChainStep, Step, CallHandler, NextReturns, Render, RunProxy, ProxyReturns, Finish,
       Flush, TimesOut, Answer, HeaderRaceNoticed
  <2>3. \A u \in Threads : InSelect(u)' => buf[frame[u]] \in Held'
    <3>1. CASE Flush(r, t)
      <4>1. t \in Threads /\ InSelect(t) /\ ~InSelect(t)'
        BY <1>0, <3>1, ThreadFacts DEF Flush, InSelect, Types
      <4>2. \A u \in Threads : InSelect(u)' => buf[frame[u]] # buf[frame[t]]
        BY <2>1, <4>1 DEF BufferInv
      <4>3. Held' = Held \ {buf[frame[t]]}
        BY <3>1 DEF Flush, Held
      <4> QED
        BY <2>1, <4>2, <4>3 DEF BufferInv
    <3>2. CASE ~Flush(r, t)
      <4>1. pooled' = pooled
        BY <1>3, <3>2 DEF ChainStep, Step, CallHandler, NextReturns, Render, RunProxy,
           ProxyReturns, Finish, TimesOut, Answer, HeaderRaceNoticed
      <4> QED
        BY <2>1, <4>1 DEF BufferInv, Held
    <3> QED
      BY <3>1, <3>2
  <2> QED
    BY <1>1, <2>1, <2>2, <2>3 DEF BufferInv
<1> QED
  BY <1>2, <1>3

\* The steps around the chain: an arrival, an end, and runProxy's goroutine.
LEMMA RequestInv ==
  ASSUME TypeOK, ContextInv, FrameInv, BufferInv, Once, NEW r \in Requests,
         ServeHTTP(r) \/ ServeHTTPEnds(r) \/ Request(r)
  PROVE  ContextInv' /\ FrameInv' /\ BufferInv' /\ Once'
<1>0. Types
  BY TypeFacts
<1>t. serve(r) \in Threads /\ fetch(r) \in Threads /\ \A q \in Requests : serve(r) # fetch(q)
  BY ThreadFacts
<1>1. UNCHANGED <<frame, buffers>> /\ Held' = Held
  BY DEF ServeHTTP, ServeHTTPEnds, Request, Held
<1>2. /\ \A u \in Threads : pc'[u] = pc[u] \/ pc'[u] \in {"next", "done", "result", "error"}
      /\ \A u \in Threads \ {serve(r), fetch(r)} : pc'[u] = pc[u]
      /\ Request(r) => pc'[fetch(r)] \in {"result", "error"} /\ pc'[serve(r)] = pc[serve(r)]
      /\ ~Request(r) => pc'[fetch(r)] = pc[fetch(r)]
  <2>0. pc \in [Threads -> Places]
    BY <1>0 DEF Types
  <2>1. CASE ServeHTTP(r)
    <3>1. /\ pc' = [pc EXCEPT ![serve(r)] = "next"]
          /\ pc[serve(r)] = "off"
      BY <2>1 DEF ServeHTTP
    <3>2. ~Request(r)
      <4> SUFFICES ASSUME Request(r) PROVE FALSE
        OBVIOUS
      <4>1. PICK outcome \in {"result", "error"} : pc' = [pc EXCEPT ![fetch(r)] = outcome]
        BY DEF Request, Outcomes
      <4> QED
        BY <1>t, <2>0, <3>1, <4>1
    <3> QED
      BY <1>t, <2>0, <3>1, <3>2
  <2>2. CASE ServeHTTPEnds(r)
    BY <1>t, <2>0, <2>2 DEF ServeHTTPEnds, Request
  <2>3. CASE Request(r)
    <3>1. PICK outcome \in {"result", "error"} : pc' = [pc EXCEPT ![fetch(r)] = outcome]
      BY <2>3 DEF Request, Outcomes
    <3> QED
      BY <1>t, <2>0, <2>3, <3>1
  <2> QED
    BY <2>1, <2>2, <2>3
<1>3. \A u \in Threads : /\ InHandler(u)' => InHandler(u) /\ frame'[u] = frame[u]
                         /\ InSelect(u)' => InSelect(u) /\ frame'[u] = frame[u]
  BY <1>1, <1>2 DEF InHandler, InSelect
<1>4. /\ ContextInv'
      /\ \A q \in Requests : (Uncalled(q)' => Uncalled(q)) /\ (Unbuffered(q)' => Unbuffered(q))
  <2>1. CASE ServeHTTP(r)
    <3>1. PICK c \in Contexts :
            /\ ctx' = [ctx EXCEPT ![r] = c]
            /\ context' = [context EXCEPT ![c] =
                             [holder |-> r, index |-> -1, writer |-> none, status |-> 200]]
      BY <2>1 DEF ServeHTTP
    <3>2. ctx[r] = none
      BY <2>1 DEF ServeHTTP, ContextInv
    <3>3. /\ ctx'[r] = c /\ \A q \in Requests \ {r} : ctx'[q] = ctx[q]
          /\ context'[c].holder = r /\ \A d \in Contexts \ {c} : context'[d] = context[d]
      BY <1>0, <3>1 DEF Types
    <3>4. /\ \A q \in Requests : ctx[q] \in Contexts \cup {none}
          /\ \A d \in Contexts : context[d].holder \in Requests \cup {none}
      BY <1>0 DEF Types, ContextType
    <3>5. pc'[serve(r)] = "next"
      BY <1>0, <1>t, <2>1 DEF ServeHTTP, Types
    <3>6. \A q \in Requests \ {r} : pc'[serve(q)] = pc[serve(q)]
      BY <1>2, ThreadFacts
    <3>7. \A q \in Requests : pc'[job(q)] = pc[job(q)]
      BY <1>2, ThreadFacts
    <3>8. ContextInv'
      <4>1. \A q \in Requests : ctx'[q] = none <=> pc'[serve(q)] = "off"
        BY <3>3, <3>5, <3>6, NoneIsNone DEF ContextInv
      <4>2. \A q \in Requests : pc'[job(q)] # "off" => ctx'[q] # none
        BY <3>3, <3>7, NoneIsNone DEF ContextInv
      <4>3. \A q \in Requests : ctx'[q] # none => context'[ctx'[q]].holder # none
        BY <3>3, <3>4, NoneIsNone DEF ContextInv
      <4>4. \A d \in Contexts : context'[d].holder # none => ctx'[context'[d].holder] = d
        BY <3>2, <3>3, <3>4, NoneIsNone DEF ContextInv
      <4> QED
        BY <4>1, <4>2, <4>3, <4>4 DEF ContextInv
    <3>9. ASSUME NEW q \in Requests \ {r}, context'[ctx[q]].holder = q, ctx[q] # none
          PROVE  context'[ctx[q]] = context[ctx[q]]
      BY <3>3, <3>4, <3>9
    <3>10. \A q \in Requests : (Uncalled(q)' => Uncalled(q)) /\ (Unbuffered(q)' => Unbuffered(q))
      BY <3>2, <3>3, <3>9 DEF Uncalled, Unbuffered
    <3> QED
      BY <3>8, <3>10
  <2>2. CASE ~ServeHTTP(r)
    <3>1. UNCHANGED <<ctx, context>>
      BY <2>2 DEF ServeHTTPEnds, Request
    <3>2. pc'[serve(r)] = "off" <=> pc[serve(r)] = "off"
      <4>1. CASE ServeHTTPEnds(r)
        BY <1>0, <1>t, <4>1 DEF ServeHTTPEnds, Types
      <4>2. CASE Request(r)
        BY <1>2, <4>2
      <4> QED
        BY <2>2, <4>1, <4>2
    <3>3. \A q \in Requests : pc'[serve(q)] = "off" <=> pc[serve(q)] = "off"
      BY <1>2, <3>2, ThreadFacts
    <3>4. \A q \in Requests : pc'[job(q)] = pc[job(q)]
      BY <1>2, ThreadFacts
    <3> QED
      BY <3>1, <3>3, <3>4 DEF ContextInv, Uncalled, Unbuffered
  <2> QED
    BY <2>1, <2>2
<1>5. FrameInv'
  <2>1. \A u \in Threads : InSelect(u)' \/ InHandler(u)' => frame'[u] # none
    BY <1>3 DEF FrameInv
  <2>2. \A q \in Requests : pc'[fetch(q)] = pc[fetch(q)] \/ pc'[fetch(q)] \in {"result", "error"}
    BY <1>2, ThreadFacts
  <2>3. ASSUME NEW u \in Threads, pc'[u] = "proxy"
        PROVE  pc'[fetch(frame'[u])] \in {"request", "result", "error"}
    <3>1. pc[u] = "proxy" /\ frame'[u] = frame[u]
      BY <1>1, <1>2, <2>3
    <3>2. frame[u] \in Requests
      BY <1>0, <3>1 DEF FrameInv, InHandler, Types
    <3> QED
      BY <2>2, <3>1, <3>2 DEF FrameInv
  <2> QED
    BY <2>1, <2>2, <2>3 DEF FrameInv
<1>6. BufferInv'
  BY <1>1, <1>3, <1>4 DEF BufferInv
<1>7. \A q \in Requests : resp'[q].body = resp[q].body
  <2>1. CASE ServeHTTPEnds(r)
    <3> DEFINE x == <<>>
               c == ctx[r]
    <3>1. c \in Contexts /\ context[c].holder \in Requests
      BY <2>1, Own DEF ServeHTTPEnds
    <3>2. x \in Seq(Requests) /\ WriteResponse(c, x)
      BY <2>1 DEF ServeHTTPEnds
    <3> HIDE DEF x, c
    <3>3. \A q \in Requests : resp'[q].body \in {resp[q].body, resp[q].body \o x}
      BY <3>1, <3>2, Writes
    <3>4. \A q \in Requests : resp[q].body \in Seq(Requests)
      BY <1>0 DEF Types, Response
    <3>5. \A s \in Seq(Requests) : s \o <<>> = s
      BY ConcatEmptySeq
    <3> QED
      BY <3>3, <3>4, <3>5 DEF x
  <2>2. CASE ServeHTTP(r) \/ Request(r)
    BY <2>2 DEF ServeHTTP, Request
  <2> QED
    BY <2>1, <2>2
<1>8. Once'
  BY <1>1, <1>3, <1>4, <1>7, OnceKept
<1> QED
  BY <1>4, <1>5, <1>6, <1>8

(***************************************************************************)
(* The theorems.                                                           *)
(***************************************************************************)

LEMMA InitInv == Init => IInv
<1> SUFFICES ASSUME Init PROVE IInv
  OBVIOUS
<1>1. Types
  <2>1. context \in [Contexts -> ContextType]
    <3>1. [holder |-> none, index |-> -1, writer |-> none, status |-> 200] \in ContextType
      BY NumbersAre DEF ContextType
    <3> QED
      BY <3>1 DEF Init
  <2>2. resp \in [Requests -> Response]
    <3>1. [code |-> 0, body |-> <<>>] \in Response
      BY DEF Response
    <3> QED
      BY <3>1 DEF Init
  <2>3. route \in Routed
    BY HttpAssumption DEF Init
  <2>4. pc \in [Threads -> Places] /\ body \in [Buffers -> Seq(Requests)]
    BY DEF Init, Places
  <2> QED
    BY <2>1, <2>2, <2>3, <2>4 DEF Init, Types
<1>2. ContextInv
  BY ThreadFacts DEF Init, ContextInv
<1>3. FrameInv
  BY ThreadFacts DEF Init, FrameInv, InSelect, InHandler
<1>4. BufferInv
  BY DEF Init, BufferInv, InSelect
<1>5. OneHandler /\ AtWorkInv
  BY DEF Init, OneHandler, AtWorkInv, InHandler
<1>6. \A q \in Requests : resp[q].body = <<>>
  BY DEF Init
<1>7. \A b \in Held : FALSE
  BY DEF Init, Held
<1>8. UncalledInv /\ HeldInv /\ ReceivedInv
  BY <1>6, <1>7, NoAnswers DEF Init, UncalledInv, HeldInv, ReceivedInv, InHandler
<1> QED
  BY <1>1, <1>2, <1>3, <1>4, <1>5, <1>8, TypeFacts DEF IInv

LEMMA NextInv == IInv /\ [Next]_vars => IInv'
<1> SUFFICES ASSUME IInv, [Next]_vars PROVE IInv'
  OBVIOUS
<1>0. /\ TypeOK /\ ContextInv /\ FrameInv /\ BufferInv /\ OneHandler /\ Once
      /\ Once' => OneHandler' /\ UncalledInv' /\ AtWorkInv' /\ HeldInv' /\ ReceivedInv'
  BY DEF IInv, Once
<1>1. ASSUME UNCHANGED route, NEW r \in Requests, ServeHTTP(r) \/ ServeHTTPEnds(r) \/ Request(r)
      PROVE  IInv'
  BY <1>0, <1>1, RequestType, RequestInv DEF IInv
<1>2. ASSUME UNCHANGED route, NEW r \in Requests, NEW t \in {serve(r), job(r)}, ChainStep(r, t)
      PROVE  IInv'
  BY <1>0, <1>2, ChainType, ChainContext, ChainFrames, ChainBuffers, ChainOnce DEF IInv
<1>3. ASSUME UNCHANGED vars
      PROVE  IInv'
  <2>1. /\ route' = route /\ pc' = pc /\ frame' = frame /\ ctx' = ctx /\ context' = context
        /\ buf' = buf /\ body' = body /\ pooled' = pooled /\ resp' = resp
        /\ reply' = reply /\ timedOut' = timedOut /\ crashed' = crashed
    BY <1>3 DEF vars
  <2>2. TypeOK'
    <3>1. Types'
      BY <1>0, <2>1, TypeFacts DEF Types
    <3> QED
      BY <3>1, TypeFacts
  <2>3. ContextInv'
    BY <1>0, <2>1 DEF ContextInv
  <2>4. FrameInv'
    BY <1>0, <2>1 DEF FrameInv, InSelect, InHandler
  <2>5. BufferInv'
    BY <1>0, <2>1 DEF BufferInv, InSelect, Held, Unbuffered
  <2>6. Held' = Held
    BY <2>1 DEF Held
  <2>7. OneHandler' /\ AtWorkInv'
    BY <1>0, <2>1, <2>6 DEF OneHandler, AtWorkInv, InHandler, Once
  <2>8. UncalledInv'
    BY <1>0, <2>1, <2>6 DEF UncalledInv, InHandler, Uncalled, Once
  <2>9. HeldInv' /\ ReceivedInv'
    BY <1>0, <2>1, <2>6 DEF HeldInv, ReceivedInv, Once
  <2> QED
    BY <2>2, <2>3, <2>4, <2>5, <2>7, <2>8, <2>9 DEF IInv
<1> QED
  BY <1>1, <1>2, <1>3 DEF Next, Running, ChainStep

\* Everything above, in every reachable state.
THEOREM Invariance == Spec => []IInv
  BY InitInv, NextInv, PTL DEF Spec

\* Every variable keeps to its type: also when a late handler works with a context
\* or a buffer that is somebody else's by now (Duration.go:19-46).
THEOREM TypeCorrect == Spec => []TypeOK
<1>1. IInv => TypeOK
  BY DEF IInv
<1> QED
  BY <1>1, Invariance, PTL

\* For any number of requests that share contexts and buffers after timeouts, no
\* answer is received twice, by one client or by two (Duration.go:25-27, 42-43).
THEOREM NoAnswerTwice == Spec => []EachAnswerOnce
<1>1. IInv => EachAnswerOnce
  <2> SUFFICES ASSUME IInv, NEW r \in Requests, NEW q \in Requests,
                      NEW n \in DOMAIN resp[r].body, NEW m \in DOMAIN resp[q].body,
                      resp[r].body[n] = resp[q].body[m]
               PROVE  r = q /\ n = m
    BY DEF EachAnswerOnce
  <2>1. r = q
    BY DEF IInv, ReceivedInv, AnswersIn
  <2> QED
    BY <2>1 DEF IInv, ReceivedInv, Distinct
<1> QED
  BY <1>1, Invariance, PTL
==============================================================================
