----------------------------- MODULE ProxiedCall -----------------------------
(***************************************************************************)
(* What the gateway promises to the two ends of one proxied gRPC call,     *)
(* with no forwarder, no retry and no channel in sight.                    *)
(*                                                                         *)
(* "s2c" is the direction from the caller to the backend, "c2s" the one    *)
(* back.  Each end receives what the other has sent, in order and one at a *)
(* time; the caller receives the header first and the status last, and     *)
(* nothing after it; the backend learns that the caller has closed its     *)
(* side only when it has all the caller's messages.                        *)
(***************************************************************************)
EXTENDS Integers, Sequences

VARIABLES
  sent, delivered,          \* what was sent and what has arrived
  callerClosed, cancelled,  \* what the caller has done to its side
  backend,                  \* the call at the backend: none, live, ok, failed
  sendClosed,               \* the backend was told that the caller has closed
  headerSent, result        \* what the caller has got besides messages

callVars == <<sent, delivered, callerClosed, cancelled, backend, sendClosed,
              headerSent, result>>

Directions == {"s2c", "c2s"}

CallInit ==
  /\ sent = [d \in Directions |-> <<>>] /\ delivered = sent
  /\ callerClosed = FALSE /\ cancelled = FALSE /\ backend = "none"
  /\ sendClosed = FALSE /\ headerSent = FALSE /\ result = "none"

Over == result # "none"

Served == backend \in {"ok", "failed"}

Complete(d) == delivered[d] = sent[d]

\* The ends: each sends messages, numbered in order; the caller may close its
\* side or cancel while it has no status; the backend ends the call.
Send(d) ==
  /\ IF d = "s2c" THEN ~callerClosed /\ ~cancelled /\ ~Over ELSE backend = "live"
  /\ sent' = [sent EXCEPT ![d] = Append(@, Len(@) + 1)]
  /\ UNCHANGED <<delivered, callerClosed, cancelled, backend, sendClosed, headerSent, result>>

CallerActs ==
  /\ ~Over /\ ~cancelled
  /\ \/ callerClosed' = TRUE /\ UNCHANGED cancelled
     \/ cancelled' = TRUE /\ UNCHANGED callerClosed
  /\ UNCHANGED <<sent, delivered, backend, sendClosed, headerSent, result>>

BackendActs ==
  /\ \/ backend = "none" /\ backend' = "live" /\ ~Over
     \/ backend = "live" /\ backend' \in {"ok", "failed"}
  /\ UNCHANGED <<sent, delivered, callerClosed, cancelled, sendClosed, headerSent, result>>

\* The gateway: the next message, the header, the end of the caller's side and
\* the status.
Deliver(d) ==
  /\ ~Complete(d)
  /\ IF d = "s2c" THEN backend = "live" ELSE headerSent /\ ~Over
  /\ delivered' = [delivered EXCEPT ![d] = Append(@, sent[d][Len(@) + 1])]
  /\ UNCHANGED <<sent, callerClosed, cancelled, backend, sendClosed, headerSent, result>>

SendHeader ==
  /\ backend # "none" /\ ~Over
  /\ headerSent' = TRUE
  /\ UNCHANGED <<sent, delivered, callerClosed, cancelled, backend, sendClosed, result>>

HalfClose ==
  /\ ~Over
  /\ (callerClosed /\ Complete("s2c")) \/ Served
  /\ sendClosed' = TRUE
  /\ UNCHANGED <<sent, delivered, callerClosed, cancelled, backend, headerSent, result>>

\* The status is the backend's, after all its messages; another one comes only
\* of a cancellation, of a message of the caller that is not passed on, or of a
\* call the backend never had.
End ==
  /\ ~Over
  /\ \/ Served /\ Complete("c2s") /\ result' = backend
     \/ cancelled /\ result' \in {"cancelled", "internal"}
     \/ ~Complete("s2c") /\ result' = "tooLarge"
     \/ backend = "none" /\ result' = "noStream"
  /\ UNCHANGED <<sent, delivered, callerClosed, cancelled, backend, sendClosed, headerSent>>

CallNext ==
  \/ \E d \in Directions : Send(d) \/ Deliver(d)
  \/ CallerActs \/ BackendActs \/ SendHeader \/ HalfClose \/ End

CallSpec == CallInit /\ [][CallNext]_callVars
==============================================================================
