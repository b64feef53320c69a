----------------------------- MODULE StreamProxy -----------------------------
(***************************************************************************)
(* One proxied gRPC stream: handler, forwardClientToServer and             *)
(* forwardServerToClient of src/pkg/plugins/pool/grpc/handler.go, from the *)
(* moment the handler has a connection.                                    *)
(*                                                                         *)
(* "s2c" is the forwarder that reads from the stream of the caller (the    *)
(* server stream of the proxy) and writes to the stream of the backend     *)
(* (its client stream); "c2s" is the one for the opposite direction.  The  *)
(* handler and the two forwarders are goroutines; they share the two       *)
(* streams, a context and one buffered error channel per forwarder.        *)
(*                                                                         *)
(* The streams are gRPC's, as the forwarders use them: RecvMsg returns the *)
(* messages in order, then io.EOF or an error; an error of RecvMsg or of   *)
(* SendMsg ends the stream, so that a call repeated after it fails in the  *)
(* same way and the retry loops of the forwarders only delay the error.    *)
(* SendMsg waits for as long as its reader lets it (flow control).         *)
(***************************************************************************)
EXTENDS Integers, Sequences

CONSTANTS
  MaxMessages,   \* bound on the messages each side sends
  RetryTimes,    \* grpcRetryTimesInt
  StreamMayFail  \* may NewClientStream fail?

ASSUME ProxyAssumption ==
  MaxMessages \in Nat /\ RetryTimes \in Nat /\ StreamMayFail \in BOOLEAN

Dirs == {"s2c", "c2s"}

VARIABLES
  sent,         \* messages the source of each direction has sent
  queue,        \* those RecvMsg has not returned yet
  delivered,    \* those SendMsg has accepted for the destination
  callerClosed, \* the caller has half-closed its stream
  cancelled,    \* the caller has cancelled, or its connection is lost
  aborted,      \* gRPC has ended the caller's stream: a message was too large
  backend,      \* the client stream: none, live, or ended with ok or failed
  sendClosed,   \* clientStream.CloseSend() was called
  headerSent,   \* the header of the backend was sent to the caller
  fpc,          \* program counter of each forwarder
  frame,        \* the frame f of each forwarder, 0 before the first message
  c,            \* the retry counter of each forwarder
  err,          \* the error a forwarder is retrying on
  ret,          \* the buffered error channel of each forwarder
  hpc,          \* program counter of the handler: dial, select, returned
  i,            \* the loop counter of its select, or of NewClientStream
  result        \* what the handler has returned

messages == <<sent, queue, delivered>>
ends == <<callerClosed, cancelled, aborted, backend>>
forwarders == <<fpc, frame, c, err>>
handler == <<hpc, i, result>>
vars == <<messages, ends, sendClosed, headerSent, forwarders, ret, handler>>

\* failed: the status of the backend; cancelled: the context is done.
Errors == {"failed", "cancelled"}

TypeOK ==
  /\ \A m \in {sent, queue, delivered} : m \in [Dirs -> Seq(1 .. MaxMessages)]
  /\ {callerClosed, cancelled, aborted, sendClosed, headerSent} \subseteq BOOLEAN
  /\ backend \in {"none", "live", "ok", "failed"}
  /\ fpc \in [Dirs -> {"off", "recv", "header", "send", "retry", "done"}]
  /\ frame \in [Dirs -> 0 .. MaxMessages]
  /\ c \in [Dirs -> 0 .. RetryTimes]
  /\ \A e \in {err, ret} : e \in [Dirs -> {"none", "EOF"} \cup Errors]
  /\ hpc \in {"dial", "select", "returned"}
  /\ i \in Nat /\ (hpc = "dial" => i <= RetryTimes)
  /\ result \in {"none", "ok", "noStream", "internal", "never"} \cup Errors

------------------------------------------------------------------------------
(* The streams.                                                            *)

\* The context of both streams: gRPC cancels that of the caller's stream when
\* the caller goes away, when it aborts the stream and when the handler returns;
\* the other derives from it.
ctxDone == cancelled \/ aborted \/ hpc = "returned"

\* src.RecvMsg returns io.EOF.
SourceEOF(d) ==
  /\ queue[d] = <<>>
  /\ IF d = "s2c" THEN callerClosed ELSE backend = "ok"

\* src.RecvMsg returns error e; see RecvTooLarge for the one that comes of a message.
SourceError(d, e) ==
  \/ e = "cancelled" /\ ctxDone
  \/ e = "failed" /\ d = "c2s" /\ backend = "failed" /\ queue[d] = <<>>

\* dst.SendMsg may accept the message: it does so once its reader, who may be as
\* slow as he likes, makes room.  A cancellation may go unnoticed.
SendAccepted(d) ==
  IF d = "s2c" THEN backend = "live" ELSE hpc # "returned" /\ ~aborted

\* dst.SendMsg returns error e: io.EOF when the backend has ended the stream.
SendError(d, e) ==
  \/ e = "cancelled" /\ ctxDone
  \/ e = "EOF" /\ d = "s2c" /\ backend \in {"ok", "failed"}

------------------------------------------------------------------------------
(* The forwarders.                                                         *)

Fpc(d, label) == fpc' = [fpc EXCEPT ![d] = label]

\* Variant: an unbuffered channel, on which only a waiting handler receives.
PostUnbuffered(d, e) ==
  hpc = "select" /\ ret' = [ret EXCEPT ![d] = e] /\ Fpc(d, "done")

\* ret <- e; the channel has room for it.
Post(d, e) == ret' = [ret EXCEPT ![d] = e] /\ Fpc(d, "done")

\* Variant: a frame that has a payload keeps it.
UnmarshalOnce(d) == frame' = [frame EXCEPT ![d] = IF @ = 0 THEN Head(queue[d]) ELSE @]

\* The raw codec stores the bytes it is given in the forwarder's frame ...
Unmarshal(d) == frame' = [frame EXCEPT ![d] = Head(queue[d])]

\* ... and hands them out again as they are.
Marshal(d) == frame[d]

\* src.RecvMsg(f) succeeds; before the first message to the caller comes the
\* header.
RecvOk(d) ==
  /\ fpc[d] = "recv" /\ queue[d] # <<>>
  /\ Unmarshal(d)
  /\ queue' = [queue EXCEPT ![d] = Tail(@)]
  /\ Fpc(d, IF d = "c2s" /\ frame[d] = 0 THEN "header" ELSE "send")
  /\ UNCHANGED <<sent, delivered, ends, sendClosed, headerSent, c, err, ret, handler>>

RecvEOF(d) ==
  /\ fpc[d] = "recv" /\ SourceEOF(d)
  /\ Post(d, "EOF")
  /\ UNCHANGED <<messages, ends, sendClosed, headerSent, frame, c, err, handler>>

\* RecvMsg or SendMsg fails: the call is repeated.
StartRetry(d, e) ==
  /\ Fpc(d, "retry")
  /\ err' = [err EXCEPT ![d] = e]
  /\ c' = [c EXCEPT ![d] = 0]
  /\ UNCHANGED <<messages, callerClosed, cancelled, backend, sendClosed, headerSent,
                 frame, ret, handler>>

RecvError(d, e) ==
  fpc[d] = "recv" /\ SourceError(d, e) /\ StartRetry(d, e) /\ UNCHANGED aborted

\* The next message of the caller is over the limit of the proxy's server, which
\* grpc.NewServer sets to 4 MB: gRPC sends the caller a status of its own, aborts
\* the stream and cancels its context.  The client side has a limit no message
\* reaches (pool_instance.go:201).
RecvTooLarge ==
  /\ fpc["s2c"] = "recv" /\ queue["s2c"] # <<>> /\ ~ctxDone
  /\ aborted' = TRUE
  /\ StartRetry("s2c", "cancelled")

\* src.Header() and dst.SendHeader(md).
Header(d) ==
  /\ fpc[d] = "header" /\ hpc # "returned" /\ ~aborted
  /\ headerSent' = TRUE
  /\ Fpc(d, "send")
  /\ UNCHANGED <<messages, ends, sendClosed, frame, c, err, ret, handler>>

\* Either of the two fails, which is not retried.
HeaderError(d) ==
  /\ fpc[d] = "header" /\ ctxDone
  /\ Post(d, "cancelled")
  /\ UNCHANGED <<messages, ends, sendClosed, headerSent, frame, c, err, handler>>

SendOk(d) ==
  /\ fpc[d] = "send" /\ SendAccepted(d)
  /\ delivered' = [delivered EXCEPT ![d] = Append(@, Marshal(d))]
  /\ Fpc(d, "recv")
  /\ UNCHANGED <<sent, queue, ends, sendClosed, headerSent, frame, c, err, ret, handler>>

\* Variant: a message that cannot be sent is dropped.
SendErrorIgnored(d, e) ==
  /\ fpc[d] = "send" /\ SendError(d, e)
  /\ Fpc(d, "recv")
  /\ UNCHANGED <<messages, ends, sendClosed, headerSent, frame, c, err, ret, handler>>

SendFails(d, e) ==
  fpc[d] = "send" /\ SendError(d, e) /\ StartRetry(d, e) /\ UNCHANGED aborted

\* One more call, which fails again, and the sleep after it.
Retry(d) ==
  /\ fpc[d] = "retry" /\ c[d] < RetryTimes
  /\ c' = [c EXCEPT ![d] = @ + 1]
  /\ UNCHANGED <<messages, ends, sendClosed, headerSent, fpc, frame, err, ret, handler>>

\* Variant: `c > grpcRetryTimesInt', which the loop never reaches.
RetriesOverLate(d) == c[d] > RetryTimes

RetriesOver(d) == c[d] >= RetryTimes

GiveUp(d) ==
  /\ fpc[d] = "retry" /\ RetriesOver(d)
  /\ Post(d, err[d])
  /\ UNCHANGED <<messages, ends, sendClosed, headerSent, frame, c, err, handler>>

\* What a forwarder does without the reader of its destination.
Advance(d) ==
  \/ RecvOk(d) \/ RecvEOF(d) \/ Header(d) \/ HeaderError(d) \/ Retry(d) \/ GiveUp(d)
  \/ \E e \in Errors : RecvError(d, e)
  \/ d = "s2c" /\ RecvTooLarge
  \/ \E e \in Errors \cup {"EOF"} : SendFails(d, e)

Forward(d) == Advance(d) \/ SendOk(d)

------------------------------------------------------------------------------
(* The handler.                                                            *)

Return(r) == hpc' = "returned" /\ result' = r

\* grpc.NewClientStream succeeds and both forwarders start.
NewStream ==
  /\ hpc = "dial" /\ ~ctxDone
  /\ hpc' = "select" /\ i' = 0
  /\ backend' = "live"
  /\ fpc' = [d \in Dirs |-> "recv"]
  /\ UNCHANGED <<messages, callerClosed, cancelled, aborted, sendClosed, headerSent,
                 frame, c, err, ret, result>>

\* Variant: one retry more.
MayRetryOnceMore == i <= RetryTimes

MayRetry == i < RetryTimes

\* It fails; it is called again RetryTimes times.
NewStreamFails ==
  /\ hpc = "dial" /\ (StreamMayFail \/ ctxDone)
  /\ IF MayRetry THEN i' = i + 1 /\ UNCHANGED <<hpc, result>>
                 ELSE Return("noStream") /\ UNCHANGED i
  /\ UNCHANGED <<messages, ends, sendClosed, headerSent, forwarders, ret>>

\* Variant: the forwarder closes its channel, which can be read for ever.
TakeFromClosed(d) ==
  /\ hpc = "select" /\ ret[d] # "none"
  /\ UNCHANGED <<messages, ends, headerSent, forwarders, ret>>

\* The select receives what forwarder d has sent.
Take(d) ==
  /\ hpc = "select" /\ ret[d] # "none"
  /\ ret' = [ret EXCEPT ![d] = "none"]
  /\ UNCHANGED <<messages, ends, headerSent, forwarders>>

\* Variant: whatever the end of the forwarder, the backend's side is half-closed.
EndOfCallerAlways == TRUE

\* s2cErr == io.EOF
EndOfCaller == ret["s2c"] = "EOF"

\* case s2cErr := <-s2cErrChan, io.EOF: clientStream.CloseSend(), and the loop
\* goes on, if it has not been here twice.
S2CEnds ==
  /\ Take("s2c") /\ EndOfCaller
  /\ sendClosed' = TRUE
  /\ i' = i + 1
  /\ IF i' < 2 THEN UNCHANGED <<hpc, result>> ELSE Return("never")

\* case s2cErr := <-s2cErrChan, another error: clientCancel() and an Internal
\* status.
S2CFails ==
  /\ Take("s2c") /\ ~EndOfCaller
  /\ Return("internal")
  /\ UNCHANGED <<sendClosed, i>>

\* Variant: the error of the backend is not looked at.
StatusIgnored(e) == "ok"

StatusOf(e) == IF e = "EOF" THEN "ok" ELSE e

\* case c2sErr := <-c2sErrChan: the trailer, and the status of the backend.
C2SEnds ==
  /\ Take("c2s")
  /\ Return(StatusOf(ret["c2s"]))
  /\ UNCHANGED <<sendClosed, i>>

Handle == NewStream \/ NewStreamFails \/ S2CEnds \/ S2CFails \/ C2SEnds

------------------------------------------------------------------------------
(* The caller and the backend.                                             *)

Sends(d) ==
  /\ Len(sent[d]) < MaxMessages
  /\ IF d = "s2c" THEN ~callerClosed /\ ~ctxDone ELSE backend = "live"
  /\ sent' = [sent EXCEPT ![d] = Append(@, Len(@) + 1)]
  /\ queue' = [queue EXCEPT ![d] = Append(@, Len(sent[d]) + 1)]
  /\ UNCHANGED <<delivered, ends, sendClosed, headerSent, forwarders, ret, handler>>

\* The caller half-closes its stream, or cancels it, unless it has done so; the
\* backend returns a status, at any time, or the connection to it breaks.
EndActs ==
  /\ \/ ~ctxDone /\ ~callerClosed /\ callerClosed' = TRUE /\ UNCHANGED <<cancelled, backend>>
     \/ ~ctxDone /\ cancelled' = TRUE /\ UNCHANGED <<callerClosed, backend>>
     \/ /\ backend = "live" /\ backend' \in {"ok", "failed"}
        /\ UNCHANGED <<callerClosed, cancelled>>
  /\ UNCHANGED <<messages, aborted, sendClosed, headerSent, forwarders, ret, handler>>

------------------------------------------------------------------------------

Init ==
  /\ sent = [d \in Dirs |-> <<>>] /\ queue = sent /\ delivered = sent
  /\ callerClosed = FALSE /\ cancelled = FALSE /\ aborted = FALSE
  /\ backend = "none" /\ sendClosed = FALSE /\ headerSent = FALSE
  /\ fpc = [d \in Dirs |-> "off"]
  /\ frame = [d \in Dirs |-> 0] /\ c = [d \in Dirs |-> 0]
  /\ err = [d \in Dirs |-> "none"] /\ ret = [d \in Dirs |-> "none"]
  /\ hpc = "dial" /\ i = 0 /\ result = "none"

Next == (\E d \in Dirs : Forward(d) \/ Sends(d)) \/ Handle \/ EndActs

Spec == Init /\ [][Next]_vars

\* Goroutines run, and what gRPC has received it hands out.  The connection to the
\* backend may take its time for a new stream until the context is done, and
\* neither the caller nor the backend owes anything: they need not read, so that
\* a SendMsg may wait until it fails.
Fairness ==
  /\ WF_vars((hpc = "select" \/ ctxDone) /\ Handle)
  /\ \A d \in Dirs : WF_vars(Advance(d))

FairSpec == Spec /\ Fairness

------------------------------------------------------------------------------
(* Properties.                                                             *)

InFrame(d) == IF fpc[d] \in {"header", "send"} THEN <<frame[d]>> ELSE <<>>

\* No message is lost, repeated or overtaken on its way through the proxy, as
\* long as the forwarder has met no error: what was delivered, the message in
\* its frame and what waits in the source stream make up what was sent.  After
\* an error the rest of the stream is lost, but never a part in the middle.
NothingLost ==
  \A d \in Dirs :
    /\ delivered[d] = SubSeq(sent[d], 1, Len(delivered[d]))
    /\ fpc[d] \notin {"retry", "done"} =>
         delivered[d] \o InFrame(d) \o queue[d] = sent[d]

\* The status the caller gets: what the handler returns, unless gRPC was first.
status == IF aborted THEN "tooLarge" ELSE result

\* The caller gets the status of the backend, and with it every message the
\* backend has sent; only a caller that has cancelled, or one of whose messages
\* was too large to be passed on, can get another one.
StatusFaithful ==
  /\ status \in {"ok", "failed"} =>
       backend = status /\ delivered["c2s"] = sent["c2s"]
  /\ status \in {"internal", "cancelled"} => cancelled
  /\ status = "tooLarge" => delivered["s2c"] # sent["s2c"]

\* The backend's stream is half-closed only when the caller's is and everything
\* the caller sent has been sent on, or when the backend has already ended it.
HalfCloseFaithful ==
  sendClosed => \/ callerClosed /\ delivered["s2c"] = sent["s2c"]
                \/ backend \in {"ok", "failed"}

\* "gRPC proxying should never reach this stage": the select never gets two
\* results of the same forwarder.
NeverReachesEnd == result # "never"

\* The gateway is transparent: each step of the handler and the forwarders is a
\* step of a call between the caller and the backend, or none that they notice
\* (handler.go:121-306).  The call is over when the caller has its status.
Call == INSTANCE ProxiedCall WITH result <- status

CallSpec == Call!CallSpec

CallerReads == WF_vars(SendOk("c2s"))

\* The handler returns, and gives its connection back, once the caller has
\* cancelled or was cut off, even if nobody reads and a SendMsg is waiting; and
\* once the backend has ended the stream, if the caller reads what there is
\* for it.  Without that it may keep the connection (handler.go:243).
ProxyEnds ==
  /\ cancelled \/ aborted ~> hpc = "returned"
  /\ CallerReads => (backend \in {"ok", "failed"} ~> hpc = "returned")

\* No forwarder outlives the stream: after the handler has returned both end,
\* although nobody receives from their channels any more.
ForwardersEnd ==
  \A d \in Dirs : (hpc = "returned" /\ fpc[d] # "off") ~> fpc[d] = "done"
==============================================================================
