----------------------------- MODULE HttpTimeout -----------------------------
(***************************************************************************)
(* The HTTP server of src/pkg/plugins/proxy/http.go: gin with the timeout  *)
(* middleware of src/pkg/plugins/httpserver/middleware/Duration.go around  *)
(* its handlers: the metrics API, the proxied routes and the answer to     *)
(* unknown routes.                                                         *)
(*                                                                         *)
(* A request has a goroutine of net/http, "serve", which runs the chain of *)
(* handlers.  TimeoutHandler lets another one, "job", run the rest of the  *)
(* chain into a buffer and waits for it or for the timer.  After the timer *)
(* the request is answered and gin gives its context to another request,   *)
(* while the job still uses that context: its answer, and its walk along   *)
(* the chain, then go into the other request.  The handler of a proxied    *)
(* route, runProxy, has a goroutine and a timer of its own: "fetch" calls  *)
(* the other server and sends the outcome over one of two unbuffered       *)
(* channels.                                                               *)
(*                                                                         *)
(* addRoute would register the proxied routes; nothing in the repository   *)
(* calls watchRouter, which leads to it, so that the process as it is has  *)
(* the other two.  The middleware before TimeoutHandler only calls         *)
(* c.Next() and is left out of the chain; no handler panics.  gin and      *)
(* buffpool are modelled as the source uses them.                          *)
(***************************************************************************)
EXTENDS Integers, Sequences

CONSTANTS
  Requests,  \* HTTP requests
  Routes,    \* what they may be for: functions to metrics, proxy and unknown
  Contexts,  \* the gin.Contexts of the engine's pool
  Buffers,   \* the buffers of buffpool
  none       \* no context, no request, no buffer

\* definitionRoute registers the metrics API and the answer to unknown paths, addRoute
\* one path to runProxy, for GET or for POST.
Routed == [Requests -> {"metrics", "proxy", "unknown"}]

ASSUME HttpAssumption ==
  Routes \subseteq Routed /\ none \notin Requests \cup Contexts \cup Buffers

Threads == Requests \X {"serve", "job", "fetch"}

VARIABLES
  route,     \* what a request is for
  pc,        \* where a goroutine is
  frame,     \* the request whose handler it runs
  ctx,       \* the context a request was given, none before it arrives
  context,   \* of each context: the request it was last given to (holder), its
             \* position in the chain (index: -1, 0 TimeoutHandler, 1, 2 over),
             \* c.Writer (the buffer of a GinWriter, or none) and the status set
  buf,       \* the buffer TimeoutHandler has taken for a request
  body,      \* the answers a buffer holds
  pooled,    \* the buffers in buffpool
  timedOut,  \* the requests whose timer has ended the select
  reply,     \* what runProxy has answered a request with
  resp,      \* what a client receives: status (0: not yet) and answers
  crashed    \* the runtime has noticed a race on a header map

buffers == <<buf, body, pooled>>
answers == <<timedOut, reply, resp, crashed>>
vars == <<route, pc, frame, ctx, context, buffers, answers>>

TypeOK ==
  /\ route \in Routed
  /\ pc \in [Threads -> {"off", "next", "select", "flush", "handler", "proxy", "render",
                         "finish", "end", "done", "request", "result", "error"}]
  /\ frame \in [Threads -> Requests \cup {none}]
  /\ ctx \in [Requests -> Contexts \cup {none}]
  /\ context \in [Contexts -> [holder : Requests \cup {none}, index : -1 .. 2,
                               writer : Buffers \cup {none},
                               status : {200, 404, 500, 504}]]
  /\ buf \in [Requests -> Buffers \cup {none}]
  /\ body \in [Buffers -> Seq(Requests)]
  /\ pooled \subseteq Buffers /\ timedOut \subseteq Requests
  /\ reply \in [Requests -> {"none", "result", "error", "late"}]
  /\ resp \in [Requests -> [code : {0, 200, 404, 500, 504}, body : Seq(Requests)]]
  /\ crashed \in BOOLEAN

\* Variant: the code of the answer, -1 without metrics, is used as the status.
CodeOfMessage(r, outcome) == IF route[r] = "metrics" THEN -1 ELSE 404

\* http.StatusOK of the metrics API, http.StatusNotFound of noRouteResponse, and
\* the status of runProxy for each outcome of its select.
Code(r, outcome) ==
  CASE route[r] = "metrics" \/ outcome = "result" -> 200
    [] route[r] = "unknown" \/ outcome = "late" -> 404
    [] OTHER -> 500

------------------------------------------------------------------------------
(* Requests, contexts and responses.                                       *)

serve(r) == <<r, "serve">>
job(r) == <<r, "job">>
fetch(r) == <<r, "fetch">>

Over(r) == pc[serve(r)] = "done"

\* The ResponseWriter of context c writes to the response of the request that
\* holds c now, and the header with it, the first time; nothing comes of a write
\* to a response that is over.
WriteResponse(c, texts) ==
  LET r == context[c].holder
  IN resp' = IF Over(r) THEN resp
             ELSE [resp EXCEPT ![r].code = IF @ = 0 THEN context[c].status ELSE @,
                               ![r].body = @ \o texts]

\* A context is in the engine's pool when it is new or ServeHTTP has put it back.
Free(c) == context[c].holder # none => Over(context[c].holder)

\* The engine takes a context for request r and resets it.
ServeHTTP(r) ==
  /\ pc[serve(r)] = "off"
  /\ \E c \in {x \in Contexts : Free(x)} :
       /\ ctx' = [ctx EXCEPT ![r] = c]
       /\ context' = [context EXCEPT ![c] =
                        [holder |-> r, index |-> -1, writer |-> none, status |-> 200]]
  /\ pc' = [pc EXCEPT ![serve(r)] = "next"]
  /\ UNCHANGED <<frame, buffers, answers>>

\* c.Next() in goroutine t of request r, from position i: it moves the index of
\* r's context, whoever holds the context now, and calls the handler found there.
Advance(r, t, i) == pc[t] = "next" /\ context[ctx[r]].index = i

\* Goroutine t runs TimeoutHandler: a buffer for a writer, and a goroutine that
\* calls c.Next().
TimeoutHandler(r, t) ==
  LET h == context[ctx[r]].holder
  IN /\ Advance(r, t, -1)
     /\ \E b \in pooled :
          /\ pooled' = pooled \ {b}
          /\ body' = [body EXCEPT ![b] = <<>>]
          /\ buf' = [buf EXCEPT ![h] = b]
          /\ context' = [context EXCEPT ![ctx[r]].index = 0, ![ctx[r]].writer = b]
     /\ frame' = [frame EXCEPT ![t] = h]
     /\ pc' = [pc EXCEPT ![t] = "select", ![job(h)] = "next"]
     /\ UNCHANGED <<ctx, answers>>

CallHandler(r, t) ==
  /\ Advance(r, t, 0)
  /\ context' = [context EXCEPT ![ctx[r]].index = 1]
  /\ frame' = [frame EXCEPT ![t] = context[ctx[r]].holder]
  /\ pc' = [pc EXCEPT ![t] = "handler"]
  /\ UNCHANGED <<ctx, buffers, answers>>

\* The chain is over: the goroutine of the middleware goes on to its send, that
\* of the request back to ServeHTTP.
NextReturns(r, t) ==
  /\ \E i \in {1, 2} : Advance(r, t, i)
  /\ context' = [context EXCEPT ![ctx[r]].index = 2]
  /\ pc' = [pc EXCEPT ![t] = IF t = job(r) THEN "finish" ELSE "end"]
  /\ UNCHANGED <<frame, ctx, buffers, answers>>

------------------------------------------------------------------------------
(* The handlers: GetPoolMetricsData, noRouteResponse and runProxy.         *)

\* c.JSON, or c.String, sets the status ...
SetStatus(r, t, outcome) ==
  context' = [context EXCEPT ![ctx[r]].status = Code(frame[t], outcome)]

Answer(r, t) ==
  /\ pc[t] = "handler" /\ route[frame[t]] # "proxy"
  /\ SetStatus(r, t, "none")
  /\ pc' = [pc EXCEPT ![t] = "render"]
  /\ UNCHANGED <<frame, ctx, buffers, answers>>

\* Variant: GinWriter.Write writes through as well, as a logging writer does.
RenderThrough(r, t) ==
  LET b == context[ctx[r]].writer
  IN /\ pc[t] = "render"
     /\ WriteResponse(ctx[r], <<frame[t]>>)
     /\ body' = IF b = none THEN body ELSE [body EXCEPT ![b] = Append(@, frame[t])]
     /\ pc' = [pc EXCEPT ![t] = "next"]
     /\ UNCHANGED <<frame, ctx, context, buf, pooled, timedOut, reply, crashed>>

\* ... and writes the answer to what is c.Writer now.
Render(r, t) ==
  LET b == context[ctx[r]].writer
  IN /\ pc[t] = "render"
     /\ IF b = none THEN WriteResponse(ctx[r], <<frame[t]>>) /\ UNCHANGED body
                    ELSE body' = [body EXCEPT ![b] = Append(@, frame[t])] /\ UNCHANGED resp
     /\ pc' = [pc EXCEPT ![t] = "next"]
     /\ UNCHANGED <<frame, ctx, context, buf, pooled, timedOut, reply, crashed>>

\* runProxy starts its goroutine and its timer and waits.
RunProxy(r, t) ==
  /\ pc[t] = "handler" /\ route[frame[t]] = "proxy"
  /\ pc' = [pc EXCEPT ![t] = "proxy", ![fetch(frame[t])] = "request"]
  /\ UNCHANGED <<frame, ctx, context, buffers, answers>>

\* getRequest and postRequest return the other server's answer or an error, which
\* may be that of their time limit.
Outcomes == {"result", "error"}

\* httpReq.Request() returns, and the goroutine comes to its first send.
Request(r) ==
  /\ pc[fetch(r)] = "request"
  /\ \E outcome \in Outcomes : pc' = [pc EXCEPT ![fetch(r)] = outcome]
  /\ UNCHANGED <<frame, ctx, context, buffers, answers>>

\* Variant: the goroutine sends the result it does not have before the error.
AfterSendSwapped(outcome) == IF outcome = "result" THEN "error" ELSE "done"

\* A send is received: after an error the goroutine goes on to send a result.
AfterSend(outcome) == IF outcome = "error" THEN "result" ELSE "done"

\* The select of runProxy receives an outcome, with the send of the goroutine, or
\* its timer has fired, at any moment.
ProxyReturns(r, t) ==
  /\ pc[t] = "proxy"
  /\ \E outcome \in {pc[fetch(frame[t])], "late"} \ {"request"} :
       /\ pc' = [pc EXCEPT ![t] = "render",
                           ![fetch(frame[t])] = IF outcome = "late" THEN @ ELSE AfterSend(@)]
       /\ SetStatus(r, t, outcome)
       /\ reply' = [reply EXCEPT ![frame[t]] = outcome]
  /\ UNCHANGED <<frame, ctx, buffers, timedOut, resp, crashed>>

------------------------------------------------------------------------------
(* The select of TimeoutHandler.                                           *)

\* Variant: the goroutine's end is looked up and not received.
FinishSeen(r, t) ==
  /\ pc[t] = "select" /\ pc[job(frame[t])] = "finish"
  /\ pc' = [pc EXCEPT ![t] = "flush"]
  /\ UNCHANGED <<frame, ctx, context, buffers, answers>>

\* case <-finish, with the send of the goroutine.
Finish(r, t) ==
  /\ pc[t] = "select" /\ pc[job(frame[t])] = "finish"
  /\ pc' = [pc EXCEPT ![t] = "flush", ![job(frame[t])] = "done"]
  /\ UNCHANGED <<frame, ctx, context, buffers, answers>>

\* The buffer is written to the response and returned to the pool.
Flush(r, t) ==
  /\ pc[t] = "flush"
  /\ WriteResponse(ctx[r], body[buf[frame[t]]])
  /\ pooled' = pooled \cup {buf[frame[t]]}
  /\ pc' = [pc EXCEPT ![t] = "next"]
  /\ UNCHANGED <<frame, ctx, context, buf, body, timedOut, reply, crashed>>

\* Variant: the buffer is returned to the pool after a timeout as well.
AfterTimeoutPut(b) == pooled' = pooled \cup {b}

\* The handler may still write to the buffer of a request that has timed out.
AfterTimeout(b) == UNCHANGED pooled

\* Variant: the timer is looked at when the handler has finished.
TimerFiresLate(q) == pc[job(q)] = "finish"

\* time.After(t): at any moment.
TimerFires(q) == TRUE

\* case <-time.After(t).  c.Abort() moves the index to the end.
TimesOut(r, t) ==
  /\ pc[t] = "select" /\ TimerFires(frame[t])
  /\ context' = [context EXCEPT ![ctx[r]].status = 504, ![ctx[r]].index = 2]
  /\ timedOut' = timedOut \cup {frame[t]}
  /\ AfterTimeout(buf[frame[t]])
  /\ pc' = [pc EXCEPT ![t] = "next"]
  /\ UNCHANGED <<frame, ctx, buf, body, reply, resp, crashed>>

------------------------------------------------------------------------------

\* ServeHTTP writes the header, if nothing was written, and puts the context back.
ServeHTTPEnds(r) ==
  /\ pc[serve(r)] = "end"
  /\ WriteResponse(ctx[r], <<>>)
  /\ pc' = [pc EXCEPT ![serve(r)] = "done"]
  /\ UNCHANGED <<frame, ctx, context, buffers, timedOut, reply, crashed>>

\* A late handler sets a header while net/http copies the headers of the response.
HeaderRaceNoticed(r, t) ==
  /\ pc[t] = "render"
  /\ \E q \in Requests : ctx[q] = ctx[r] /\ pc[serve(q)] = "end"
  /\ crashed' = TRUE
  /\ UNCHANGED <<pc, frame, ctx, context, buffers, timedOut, reply, resp>>

Init ==
  /\ route \in Routes
  /\ pc = [t \in Threads |-> "off"]
  /\ frame = [t \in Threads |-> none]
  /\ ctx = [r \in Requests |-> none]
  /\ context = [c \in Contexts |->
                  [holder |-> none, index |-> -1, writer |-> none, status |-> 200]]
  /\ buf = [r \in Requests |-> none]
  /\ body = [b \in Buffers |-> <<>>]
  /\ pooled = Buffers /\ timedOut = {} /\ crashed = FALSE
  /\ reply = [r \in Requests |-> "none"]
  /\ resp = [r \in Requests |-> [code |-> 0, body |-> <<>>]]

\* Goroutine t of request r makes a step of the program, not of a handler that
\* may take any time.
Step(r, t) ==
  \/ TimeoutHandler(r, t) \/ CallHandler(r, t) \/ NextReturns(r, t)
  \/ Render(r, t) \/ RunProxy(r, t) \/ ProxyReturns(r, t)
  \/ Finish(r, t) \/ Flush(r, t) \/ TimesOut(r, t)

Running == ~crashed /\ UNCHANGED route

Next ==
  /\ Running
  /\ \E r \in Requests :
       \/ ServeHTTP(r) \/ ServeHTTPEnds(r) \/ Request(r)
       \/ \E t \in {serve(r), job(r)} :
            Step(r, t) \/ Answer(r, t) \/ HeaderRaceNoticed(r, t)

Spec == Init /\ [][Next]_vars

\* Goroutines run, timers fire, and the HTTP client has a time limit; a handler
\* may take for ever.
FairSpec ==
  /\ Spec
  /\ \A r \in Requests :
       /\ WF_vars(Running /\ ServeHTTPEnds(r))
       /\ WF_vars(Running /\ Request(r))
       /\ \A t \in {serve(r), job(r)} : WF_vars(Running /\ Step(r, t))

------------------------------------------------------------------------------
(* Properties.                                                             *)

\* No other request was given the context of one that has timed out.
NoContextShared ==
  \A q \in timedOut : \A r \in Requests \ {q} : ctx[r] # ctx[q]

\* Until a context is used again after a timeout, every client receives the
\* answer of its own request, once and with its status, that of a proxied route
\* included; a client whose request has timed out receives no answer, with the
\* status of the timeout or with the one the late handler has set (the races of
\* Duration.go:31-43).
AnswersAreOwn ==
  NoContextShared =>
    \A r \in Requests : Over(r) =>
      IF r \in timedOut
        THEN resp[r].body = <<>> /\ resp[r].code \in {504, Code(r, reply[r])}
        ELSE resp[r] = [code |-> Code(r, reply[r]), body |-> <<r>>]

\* Even when requests share a context after a timeout, no answer is received
\* twice, by one client or by two (Duration.go:25-27, 42-43).
EachAnswerOnce ==
  \A r, q \in Requests : \A i \in DOMAIN resp[r].body, j \in DOMAIN resp[q].body :
    resp[r].body[i] = resp[q].body[j] => r = q /\ i = j

\* A request in the select of TimeoutHandler ends, whether its handler does or
\* not (Duration.go:35-44).
TimeoutEndsRequest ==
  \A r \in Requests : pc[serve(r)] = "select" ~> Over(r) \/ crashed

\* The goroutine of TimeoutHandler ends when its handler has, unless the request
\* has timed out: then nobody receives what it sends (Duration.go:30-33).
HandlerGoroutineEnds ==
  \A r \in Requests : pc[job(r)] = "finish" ~> pc[job(r)] = "done" \/ r \in timedOut \/ crashed

\* The goroutine of runProxy ends, whatever becomes of the request it works for,
\* unless the other server has failed or is later than the timer of runProxy:
\* then nobody receives its next send (http.go:216-231).
FetchEnds ==
  \A r \in Requests :
    pc[fetch(r)] = "request" ~>
      pc[fetch(r)] = "done" \/ reply[r] \in {"error", "late"} \/ crashed
==============================================================================
