--------------------------- MODULE StreamProxyProofs ---------------------------
(***************************************************************************)
(* Theorems about StreamProxy, for every number of messages and retries,   *)
(* and that it implements ProxiedCall.                                     *)
(***************************************************************************)
EXTENDS StreamProxy, SequenceTheorems, TLAPS

\* Names for tuples of variables and for parts of actions, expanded throughout.
USE DEF Dirs, Errors, messages, ends, forwarders, handler, Fpc, Post, Return, Unmarshal,
        Marshal, MayRetry, RetriesOver, EndOfCaller, ctxDone, Advance

Complete(d) == delivered[d] = sent[d]

Served == backend \in {"ok", "failed"}

\* The program counters agree: the forwarders run from the moment there is a
\* stream, the handler has a result when it has returned, a result waits in a
\* channel only of a forwarder that is done, and of the caller's at most once.
ControlInv ==
  /\ \A d \in Dirs : fpc[d] = "off" <=> backend = "none"
  /\ hpc = "dial" => backend = "none"
  /\ hpc = "select" => backend # "none"
  /\ hpc = "returned" <=> result # "none"
  /\ \A d \in Dirs : ret[d] # "none" => fpc[d] = "done"
  /\ hpc = "select" => \/ i = 0
                       \/ i = 1 /\ fpc["s2c"] = "done" /\ ret["s2c"] = "none"

\* A forwarder that has a message to pass on has one in its frame.
FrameInv == \A d \in Dirs : fpc[d] \in {"header", "send"} => frame[d] # 0

\* The messages: as NothingLost, and no more were delivered than were sent.
MessageInv ==
  \A d \in Dirs :
    /\ Len(delivered[d]) <= Len(sent[d])
    /\ \A k \in 1 .. Len(delivered[d]) : delivered[d][k] = sent[d][k]
    /\ fpc[d] \notin {"retry", "done"} =>
         delivered[d] \o InFrame(d) \o queue[d] = sent[d]

\* What an error stands for, while the forwarder retries and once it has posted
\* it: a cancelled context, the status of the backend with all its messages, or
\* the end of the caller's stream.
Means(d, e) ==
  \/ e = "cancelled" /\ ctxDone
  \/ d = "c2s" /\ e = "failed" /\ backend = "failed" /\ Complete(d)
  \/ d = "c2s" /\ e = "EOF" /\ backend = "ok" /\ Complete(d)
  \/ d = "s2c" /\ e = "EOF" /\ (Served \/ (callerClosed /\ Complete(d)))

ErrorInv ==
  \A d \in Dirs :
    /\ fpc[d] = "retry" => Means(d, err[d])
    /\ ret[d] # "none" => Means(d, ret[d])

\* When gRPC aborts the stream of the caller, its forwarder is on its way out with
\* an error, and one of the caller's messages is not passed on.
AbortInv ==
  aborted => /\ fpc["s2c"] \in {"retry", "done"}
             /\ fpc["s2c"] = "retry" => err["s2c"] = "cancelled"
             /\ ret["s2c"] # "EOF"
             /\ ~Complete("s2c")

\* The header goes out before the first message to the caller.
HeaderInv ==
  /\ fpc["c2s"] = "off" => frame["c2s"] = 0
  /\ fpc["c2s"] = "recv" /\ frame["c2s"] # 0 => headerSent
  /\ fpc["c2s"] = "send" => headerSent

\* The backend's side is closed by a forwarder that is done.
CloseInv == sendClosed => fpc["s2c"] = "done" /\ Means("s2c", "EOF")

\* The result is that of a forwarder that is done, or the caller's stream was over.
StatusInv ==
  /\ result = "ok" => fpc["c2s"] = "done" /\ Means("c2s", "EOF")
  /\ result = "failed" => fpc["c2s"] = "done" /\ Means("c2s", "failed")
  /\ result \in {"internal", "cancelled"} => cancelled \/ aborted

IInv == /\ TypeOK /\ ControlInv /\ FrameInv /\ MessageInv /\ ErrorInv /\ AbortInv
        /\ HeaderInv /\ CloseInv /\ StatusInv /\ NeverReachesEnd

(***************************************************************************)
(* Type correctness.                                                       *)
(***************************************************************************)

\* TypeOK, with one conjunct per variable.
Types ==
  /\ sent \in [Dirs -> Seq(1 .. MaxMessages)]
  /\ queue \in [Dirs -> Seq(1 .. MaxMessages)]
  /\ delivered \in [Dirs -> Seq(1 .. MaxMessages)]
  /\ callerClosed \in BOOLEAN /\ cancelled \in BOOLEAN /\ aborted \in BOOLEAN
  /\ sendClosed \in BOOLEAN /\ headerSent \in BOOLEAN
  /\ backend \in {"none", "live", "ok", "failed"}
  /\ fpc \in [Dirs -> {"off", "recv", "header", "send", "retry", "done"}]
  /\ frame \in [Dirs -> 0 .. MaxMessages]
  /\ c \in [Dirs -> 0 .. RetryTimes]
  /\ err \in [Dirs -> {"none", "EOF", "failed", "cancelled"}]
  /\ ret \in [Dirs -> {"none", "EOF", "failed", "cancelled"}]
  /\ hpc \in {"dial", "select", "returned"}
  /\ i \in Nat /\ (hpc = "dial" => i <= RetryTimes)
  /\ result \in {"none", "ok", "noStream", "internal", "never", "failed", "cancelled"}

LEMMA TypeFacts == (TypeOK <=> Types) /\ (TypeOK' <=> Types')
  BY ZenonT(60) DEF TypeOK, Types

LEMMA InitType == Init => TypeOK
<1> SUFFICES ASSUME Init PROVE TypeOK
  OBVIOUS
<1>1. [d \in Dirs |-> <<>>] \in [Dirs -> Seq(1 .. MaxMessages)]
  BY EmptySeq
<1>2. 0 \in 0 .. MaxMessages /\ 0 \in 0 .. RetryTimes
  BY ProxyAssumption
<1>3. [d \in Dirs |-> 0] \in [Dirs -> 0 .. MaxMessages]
  BY <1>2
<1>4. [d \in Dirs |-> 0] \in [Dirs -> 0 .. RetryTimes]
  BY <1>2
<1>5. i \in Nat /\ i <= RetryTimes
  BY ProxyAssumption DEF Init
<1> QED
  BY <1>1, <1>3, <1>4, <1>5, TypeFacts DEF Init, Types

LEMMA NextType == TypeOK /\ FrameInv /\ [Next]_vars => TypeOK' /\ FrameInv'
<1> SUFFICES ASSUME Types, FrameInv, [Next]_vars PROVE Types' /\ FrameInv'
  BY TypeFacts
<1> DEFINE M == 1 .. MaxMessages
<1> USE DEF Types, FrameInv
<1>0. MaxMessages \in Nat /\ RetryTimes \in Nat
  BY ProxyAssumption
<1>1. ASSUME NEW d \in Dirs, RecvOk(d) PROVE Types' /\ FrameInv'
  <2>1. Head(queue[d]) \in M /\ Tail(queue[d]) \in Seq(M)
    BY <1>1, HeadTailProperties DEF RecvOk
  <2>2. queue' \in [Dirs -> Seq(M)]
    BY <1>1, <2>1 DEF RecvOk
  <2> DEFINE x == Head(queue[d])
             N == 0 .. MaxMessages
  <2>x. x \in N /\ x # 0 /\ frame \in [Dirs -> N] /\ frame' = [frame EXCEPT ![d] = x]
    <3>1. frame' = [frame EXCEPT ![d] = x] /\ frame \in [Dirs -> N]
      BY <1>1 DEF RecvOk
    <3>2. x \in M
      BY <2>1
    <3> HIDE DEF x, Types, FrameInv
    <3>3. x \in N /\ x # 0
      BY <1>0, <3>2
    <3> QED
      BY <3>1, <3>3
  <2>3. frame' \in [Dirs -> 0 .. MaxMessages]
    <3> HIDE DEF x, N
    <3>1. frame' \in [Dirs -> N]
      BY <2>x
    <3> QED
      BY <3>1 DEF N
  <2>4. fpc' \in [Dirs -> {"off", "recv", "header", "send", "retry", "done"}]
    BY <1>1 DEF RecvOk
  <2>5. FrameInv'
    <3> HIDE DEF x, N
    <3>1. frame'[d] # 0
      BY <2>x
    <3>2. \A b \in Dirs \ {d} : frame'[b] = frame[b]
      BY <2>x
    <3>3. \A b \in Dirs \ {d} : fpc'[b] = fpc[b]
      BY <1>1 DEF RecvOk
    <3> QED
      BY <3>1, <3>2, <3>3
  <2> QED
    BY <1>1, <2>2, <2>3, <2>4, <2>5 DEF RecvOk
<1>2. ASSUME NEW d \in Dirs, RecvEOF(d) PROVE Types' /\ FrameInv'
  BY <1>2 DEF RecvEOF
<1>3. ASSUME NEW d \in Dirs, NEW e \in Errors \cup {"EOF"}, StartRetry(d, e),
             aborted' \in {aborted, TRUE}
      PROVE  Types' /\ FrameInv'
  <2>1. c' \in [Dirs -> 0 .. RetryTimes]
    BY <1>0, <1>3 DEF StartRetry
  <2>2. /\ fpc' \in [Dirs -> {"off", "recv", "header", "send", "retry", "done"}]
        /\ err' \in [Dirs -> {"none", "EOF", "failed", "cancelled"}]
    BY <1>3 DEF StartRetry
  <2>3. aborted' \in BOOLEAN
    BY <1>3
  <2>4. FrameInv'
    BY <1>3 DEF StartRetry
  <2>5. UNCHANGED <<messages, callerClosed, cancelled, backend, sendClosed, headerSent, frame,
                    ret, handler>>
    BY <1>3 DEF StartRetry
  <2> QED
    BY <2>1, <2>2, <2>3, <2>4, <2>5
<1>4. ASSUME NEW d \in Dirs, Header(d) PROVE Types' /\ FrameInv'
  BY <1>4 DEF Header
<1>5. ASSUME NEW d \in Dirs, HeaderError(d) PROVE Types' /\ FrameInv'
  BY <1>5 DEF HeaderError
<1>6. ASSUME NEW d \in Dirs, SendOk(d) PROVE Types' /\ FrameInv'
  <2>1. frame[d] \in M
    BY <1>0, <1>6 DEF SendOk
  <2>2. Append(delivered[d], frame[d]) \in Seq(M)
    BY <2>1, AppendProperties
  <2> QED
    BY <1>6, <2>2 DEF SendOk
<1>7. ASSUME NEW d \in Dirs, Retry(d) PROVE Types' /\ FrameInv'
  <2>1. c[d] + 1 \in 0 .. RetryTimes
    BY <1>0, <1>7 DEF Retry
  <2> QED
    BY <1>7, <2>1 DEF Retry
<1>8. ASSUME NEW d \in Dirs, GiveUp(d) PROVE Types' /\ FrameInv'
  BY <1>8 DEF GiveUp
<1>9. ASSUME NEW d \in Dirs, Sends(d) PROVE Types' /\ FrameInv'
  <2>1. Len(sent[d]) + 1 \in M
    <3>1. Len(sent[d]) \in Nat
      BY LenProperties
    <3>2. Len(sent[d]) < MaxMessages
      BY <1>9 DEF Sends
    <3> HIDE DEF Types, FrameInv
    <3> QED
      BY <1>0, <3>1, <3>2
  <2>2. /\ Append(sent[d], Len(sent[d]) + 1) \in Seq(M)
        /\ Append(queue[d], Len(sent[d]) + 1) \in Seq(M)
    BY <2>1, AppendProperties
  <2>3. /\ sent' = [sent EXCEPT ![d] = Append(sent[d], Len(sent[d]) + 1)]
        /\ queue' = [queue EXCEPT ![d] = Append(queue[d], Len(sent[d]) + 1)]
    BY <1>9 DEF Sends
  <2>4. sent' \in [Dirs -> Seq(M)] /\ queue' \in [Dirs -> Seq(M)]
    <3>1. sent \in [Dirs -> Seq(M)] /\ queue \in [Dirs -> Seq(M)]
      OBVIOUS
    <3> HIDE DEF M, Types, FrameInv
    <3> QED
      BY <2>2, <2>3, <3>1
  <2>5. UNCHANGED <<delivered, ends, sendClosed, headerSent, forwarders, ret, handler>>
    BY <1>9 DEF Sends
  <2> QED
    BY <2>4, <2>5
<1>10. CASE NewStream
  BY <1>10 DEF NewStream
<1>11. CASE NewStreamFails
  <2>1. UNCHANGED <<messages, ends, sendClosed, headerSent, forwarders, ret>>
    BY <1>11 DEF NewStreamFails
  <2>2. /\ hpc' \in {"dial", "select", "returned"}
        /\ result' \in {"none", "ok", "noStream", "internal", "never", "failed", "cancelled"}
    BY <1>11 DEF NewStreamFails
  <2>3. i' \in Nat /\ (hpc' = "dial" => i' <= RetryTimes)
    <3>1. \/ i' = i + 1 /\ i < RetryTimes
          \/ i' = i /\ hpc' = "returned"
      BY <1>11 DEF NewStreamFails, MayRetry
    <3>2. i \in Nat
      OBVIOUS
    <3> HIDE DEF Types, FrameInv
    <3> QED
      BY <1>0, <3>1, <3>2
  <2> QED
    BY <2>1, <2>2, <2>3
<1>12. CASE S2CEnds
  BY <1>12 DEF S2CEnds, Take
<1>13. CASE S2CFails
  BY <1>13 DEF S2CFails, Take
<1>14. CASE C2SEnds
  BY <1>14 DEF C2SEnds, Take, StatusOf
<1>15. CASE EndActs
  <2>1. UNCHANGED <<messages, sendClosed, headerSent, forwarders, ret, handler>>
    BY <1>15 DEF EndActs
  <2>2. /\ callerClosed' \in BOOLEAN /\ cancelled' \in BOOLEAN /\ aborted' = aborted
        /\ backend' \in {"none", "live", "ok", "failed"}
    BY <1>15 DEF EndActs
  <2> QED
    BY <2>1, <2>2
<1>16. CASE UNCHANGED vars
  BY <1>16 DEF vars
<1>17. ASSUME NEW d \in Dirs, Forward(d) PROVE Types' /\ FrameInv'
  BY <1>1, <1>2, <1>3, <1>4, <1>5, <1>6, <1>7, <1>8, <1>17
  DEF Forward, RecvError, RecvTooLarge, SendFails
<1> HIDE DEF Types, FrameInv
<1> QED
  BY <1>9, <1>10, <1>11, <1>12, <1>13, <1>14, <1>15, <1>16, <1>17 DEF Next, Handle

(***************************************************************************)
(* The control: who may be where.                                          *)
(***************************************************************************)

LEMMA NextControl ==
  TypeOK /\ ControlInv /\ NeverReachesEnd /\ [Next]_vars => ControlInv' /\ NeverReachesEnd'
<1> SUFFICES ASSUME Types, ControlInv, NeverReachesEnd, [Next]_vars
             PROVE  ControlInv' /\ NeverReachesEnd'
  BY TypeFacts
<1> DEFINE Goal == ControlInv' /\ NeverReachesEnd'
<1> USE DEF Types, ControlInv, NeverReachesEnd
<1>1. ASSUME NEW d \in Dirs, RecvOk(d) PROVE Goal
  BY <1>1 DEF RecvOk
<1>2. ASSUME NEW d \in Dirs, RecvEOF(d) PROVE Goal
  BY <1>2 DEF RecvEOF
<1>3. ASSUME NEW d \in Dirs, NEW e \in Errors \cup {"EOF"}, fpc[d] \in {"recv", "send"},
             StartRetry(d, e)
      PROVE  Goal
  BY <1>3 DEF StartRetry
<1>4. ASSUME NEW d \in Dirs, Header(d) PROVE Goal
  BY <1>4 DEF Header
<1>5. ASSUME NEW d \in Dirs, HeaderError(d) PROVE Goal
  BY <1>5 DEF HeaderError
<1>6. ASSUME NEW d \in Dirs, SendOk(d) PROVE Goal
  BY <1>6 DEF SendOk
<1>7. ASSUME NEW d \in Dirs, Retry(d) PROVE Goal
  BY <1>7 DEF Retry
<1>8. ASSUME NEW d \in Dirs, GiveUp(d) PROVE Goal
  BY <1>8 DEF GiveUp
<1>9. ASSUME NEW d \in Dirs, Sends(d) PROVE Goal
  BY <1>9 DEF Sends
<1>10. CASE NewStream
  BY <1>10 DEF NewStream
<1>11. CASE NewStreamFails
  BY <1>11 DEF NewStreamFails
<1>12. CASE S2CEnds
  BY <1>12 DEF S2CEnds, Take
<1>13. CASE S2CFails
  BY <1>13 DEF S2CFails, Take
<1>14. CASE C2SEnds
  BY <1>14 DEF C2SEnds, Take, StatusOf
<1>15. CASE EndActs
  BY <1>15 DEF EndActs
<1>16. CASE UNCHANGED vars
  BY <1>16 DEF vars
<1>17. ASSUME NEW d \in Dirs, Forward(d) PROVE Goal
  BY <1>1, <1>2, <1>3, <1>4, <1>5, <1>6, <1>7, <1>8, <1>17
  DEF Forward, RecvError, RecvTooLarge, SendFails
<1> HIDE DEF Types, ControlInv, NeverReachesEnd
<1> QED
  BY <1>9, <1>10, <1>11, <1>12, <1>13, <1>14, <1>15, <1>16, <1>17 DEF Next, Handle

(***************************************************************************)
(* The messages: sequences of which the last part moves to the first.      *)
(***************************************************************************)

\* The head of the queue moves to the frame.
LEMMA HeadToFrame ==
  ASSUME NEW S, NEW a \in Seq(S), NEW q \in Seq(S), q # <<>>
  PROVE  (a \o <<Head(q)>>) \o Tail(q) = (a \o <<>>) \o q
<1>1. Head(q) \in S /\ Tail(q) \in Seq(S) /\ Len(Tail(q)) = Len(q) - 1
  BY HeadTailProperties
<1>2. <<Head(q)>> \in Seq(S)
  BY <1>1
<1>3. (a \o <<Head(q)>>) \o Tail(q) = a \o (<<Head(q)>> \o Tail(q))
  BY <1>1, <1>2, ConcatAssociative
<1>4. <<Head(q)>> \o Tail(q) = q
  <2>1. /\ <<Head(q)>> \o Tail(q) \in Seq(S)
        /\ Len(<<Head(q)>> \o Tail(q)) = Len(q)
        /\ \A j \in 1 .. Len(q) : (<<Head(q)>> \o Tail(q))[j] = q[j]
    BY <1>1, <1>2, HeadTailProperties, ConcatProperties, LenProperties
  <2> QED
    BY <2>1, SeqEqual
<1> QED
  BY <1>3, <1>4, ConcatEmptySeq

\* The frame is delivered.
LEMMA FrameToDelivered ==
  ASSUME NEW S, NEW a \in Seq(S), NEW f \in S, NEW q \in Seq(S)
  PROVE  (Append(a, f) \o <<>>) \o q = (a \o <<f>>) \o q
<1>1. Append(a, f) \in Seq(S) /\ Append(a, f) = a \o <<f>>
  BY AppendProperties, AppendIsConcat
<1> QED
  BY <1>1, ConcatEmptySeq

\* A message is sent.
LEMMA SentToQueue ==
  ASSUME NEW S, NEW a \in Seq(S), NEW b \in Seq(S), NEW q \in Seq(S), NEW x \in S
  PROVE  (a \o b) \o Append(q, x) = Append((a \o b) \o q, x)
<1>1. a \o b \in Seq(S) /\ (a \o b) \o q \in Seq(S) /\ <<x>> \in Seq(S)
  BY ConcatProperties
<1>2. Append(q, x) = q \o <<x>> /\ Append((a \o b) \o q, x) = ((a \o b) \o q) \o <<x>>
  BY <1>1, AppendIsConcat
<1> QED
  BY <1>1, <1>2, ConcatAssociative

\* The part in front is a prefix.
LEMMA FrontIsPrefix ==
  ASSUME NEW S, NEW a \in Seq(S), NEW b \in Seq(S), NEW q \in Seq(S), NEW s \in Seq(S),
         (a \o b) \o q = s
  PROVE  /\ Len(a) + Len(b) + Len(q) = Len(s)
         /\ \A k \in 1 .. Len(a) : a[k] = s[k]
<1>1. a \o b \in Seq(S) /\ Len(a \o b) = Len(a) + Len(b)
  BY ConcatProperties
<1>2. Len(a) \in Nat /\ Len(b) \in Nat /\ Len(q) \in Nat
  BY LenProperties
<1>3. /\ Len(s) = Len(a) + Len(b) + Len(q)
      /\ \A k \in 1 .. Len(s) :
           s[k] = IF k <= Len(a) + Len(b) THEN (a \o b)[k] ELSE q[k - (Len(a) + Len(b))]
  BY <1>1, <1>2, ConcatProperties
<1>4. \A k \in 1 .. Len(a) + Len(b) :
        (a \o b)[k] = IF k <= Len(a) THEN a[k] ELSE b[k - Len(a)]
  BY ConcatProperties
<1> QED
  BY <1>2, <1>3, <1>4

\* What comes after it is the next.
LEMMA MiddleIsNext ==
  ASSUME NEW S, NEW a \in Seq(S), NEW f \in S, NEW q \in Seq(S)
  PROVE  a # (a \o <<f>>) \o q /\ f = ((a \o <<f>>) \o q)[Len(a) + 1]
<1>1. <<f>> \in Seq(S) /\ Len(<<f>>) = 1
  OBVIOUS
<1>2. a \o <<f>> \in Seq(S) /\ Len(a \o <<f>>) = Len(a) + 1
  BY <1>1, ConcatProperties
<1>3. Len(a) \in Nat /\ Len(q) \in Nat
  BY LenProperties
<1>4. (a \o <<f>>)[Len(a) + 1] = f
  BY AppendIsConcat, AppendProperties
<1>5. Len((a \o <<f>>) \o q) = Len(a) + 1 + Len(q)
  BY <1>2, ConcatProperties
<1>6. ((a \o <<f>>) \o q)[Len(a) + 1] = (a \o <<f>>)[Len(a) + 1]
  BY <1>2, <1>3, ConcatProperties
<1>7. a # (a \o <<f>>) \o q
  BY <1>3, <1>5
<1> QED
  BY <1>4, <1>6, <1>7

\* InFrame is a sequence of messages.
LEMMA InFrameType ==
  ASSUME Types, FrameInv, NEW d \in Dirs
  PROVE  InFrame(d) \in Seq(1 .. MaxMessages)
<1>1. fpc[d] \in {"header", "send"} => frame[d] \in 1 .. MaxMessages
  BY ProxyAssumption DEF Types, FrameInv
<1>2. fpc[d] \in {"header", "send"} => <<frame[d]>> \in Seq(1 .. MaxMessages)
  BY <1>1
<1>3. <<>> \in Seq(1 .. MaxMessages)
  BY EmptySeq
<1> QED
  BY <1>2, <1>3 DEF InFrame

\* A step that leaves the messages alone, and puts no forwarder back to work.
LEMMA MessagesKept ==
  ASSUME MessageInv, UNCHANGED messages,
         \A d \in Dirs : fpc'[d] \notin {"retry", "done"} =>
            fpc[d] \notin {"retry", "done"} /\ InFrame(d)' = InFrame(d)
  PROVE  MessageInv'
<1> SUFFICES ASSUME NEW d \in Dirs
             PROVE  /\ Len(delivered'[d]) <= Len(sent'[d])
                    /\ \A k \in 1 .. Len(delivered'[d]) : delivered'[d][k] = sent'[d][k]
                    /\ fpc'[d] \notin {"retry", "done"} =>
                         delivered'[d] \o InFrame(d)' \o queue'[d] = sent'[d]
  BY DEF MessageInv
<1> QED
  BY DEF MessageInv

LEMMA NextMessage ==
  TypeOK /\ FrameInv /\ ControlInv /\ MessageInv /\ [Next]_vars => MessageInv'
<1> SUFFICES ASSUME Types, FrameInv, ControlInv, MessageInv, [Next]_vars PROVE MessageInv'
  BY TypeFacts
<1> DEFINE M == 1 .. MaxMessages
<1>0. \A d \in Dirs :
        /\ sent[d] \in Seq(M) /\ queue[d] \in Seq(M) /\ delivered[d] \in Seq(M)
        /\ InFrame(d) \in Seq(M)
  BY InFrameType DEF Types
<1>1. ASSUME NEW d \in Dirs, RecvOk(d) PROVE MessageInv'
  <2>1. (delivered[d] \o <<Head(queue[d])>>) \o Tail(queue[d]) = sent[d]
    <3>1. (delivered[d] \o <<>>) \o queue[d] = sent[d]
      BY <1>1 DEF RecvOk, MessageInv, InFrame
    <3>2. queue[d] # <<>>
      BY <1>1 DEF RecvOk
    <3> QED
      BY <1>0, <3>1, <3>2, HeadToFrame
  <2>2. queue'[d] = Tail(queue[d]) /\ InFrame(d)' = <<Head(queue[d])>>
    BY <1>1 DEF RecvOk, InFrame, Types
  <2>3. ASSUME NEW b \in Dirs, b # d
        PROVE  queue'[b] = queue[b] /\ fpc'[b] = fpc[b] /\ InFrame(b)' = InFrame(b)
    BY <1>1, <2>3 DEF RecvOk, InFrame, Types
  <2>4. sent' = sent /\ delivered' = delivered
    BY <1>1 DEF RecvOk
  <2> QED
    BY <2>1, <2>2, <2>3, <2>4 DEF MessageInv
<1>2. ASSUME NEW d \in Dirs, RecvEOF(d) PROVE MessageInv'
  BY <1>2, MessagesKept DEF RecvEOF, InFrame, Types
<1>3. ASSUME NEW d \in Dirs, NEW e \in Errors \cup {"EOF"}, StartRetry(d, e)
      PROVE  MessageInv'
  BY <1>3, MessagesKept DEF StartRetry, InFrame, Types
<1>4. ASSUME NEW d \in Dirs, Header(d) PROVE MessageInv'
  BY <1>4, MessagesKept DEF Header, InFrame, Types
<1>5. ASSUME NEW d \in Dirs, HeaderError(d) PROVE MessageInv'
  BY <1>5, MessagesKept DEF HeaderError, InFrame, Types
<1>6. ASSUME NEW d \in Dirs, SendOk(d) PROVE MessageInv'
  <2>1. frame[d] \in M /\ InFrame(d) = <<frame[d]>>
    BY <1>6, ProxyAssumption DEF SendOk, Types, FrameInv, InFrame
  <2>2. (delivered[d] \o <<frame[d]>>) \o queue[d] = sent[d]
    BY <1>6, <2>1 DEF SendOk, MessageInv
  <2>3. delivered'[d] = Append(delivered[d], frame[d]) /\ InFrame(d)' = <<>>
    BY <1>6 DEF SendOk, InFrame, Types
  <2>4. Append(delivered[d], frame[d]) \in Seq(M)
    BY <1>0, <2>1, AppendProperties
  <2>5. (Append(delivered[d], frame[d]) \o <<>>) \o queue[d] = sent[d]
    <3> DEFINE a == delivered[d]  q == queue[d]  f == frame[d]
    <3>1. a \in Seq(M) /\ f \in M /\ q \in Seq(M)
      BY <1>0, <2>1
    <3> HIDE DEF a, q, f
    <3>2. (Append(a, f) \o <<>>) \o q = (a \o <<f>>) \o q
      BY <3>1, FrameToDelivered
    <3> QED
      BY <2>2, <3>2 DEF a, q, f
  <2>6. /\ Len(Append(delivered[d], frame[d])) <= Len(sent[d])
        /\ \A k \in 1 .. Len(Append(delivered[d], frame[d])) :
             Append(delivered[d], frame[d])[k] = sent[d][k]
    <3> DEFINE a == Append(delivered[d], frame[d])  q == queue[d]  s == sent[d]
    <3>1. a \in Seq(M) /\ <<>> \in Seq(M) /\ q \in Seq(M) /\ s \in Seq(M)
      BY <1>0, <2>4, EmptySeq
    <3>2. (a \o <<>>) \o q = s
      BY <2>5
    <3> HIDE DEF a, q, s
    <3>3. Len(a) \in Nat /\ Len(q) \in Nat /\ Len(<<>>) = 0
      BY <3>1, LenProperties
    <3>4. /\ Len(a) + Len(<<>>) + Len(q) = Len(s)
          /\ \A k \in 1 .. Len(a) : a[k] = s[k]
      BY <3>1, <3>2, FrontIsPrefix
    <3>5. Len(a) <= Len(s)
      BY <3>3, <3>4
    <3> QED
      BY <3>4, <3>5 DEF a, s
  <2>7. ASSUME NEW b \in Dirs, b # d
        PROVE  delivered'[b] = delivered[b] /\ fpc'[b] = fpc[b] /\ InFrame(b)' = InFrame(b)
    BY <1>6, <2>7 DEF SendOk, InFrame, Types
  <2>8. sent' = sent /\ queue' = queue
    BY <1>6 DEF SendOk
  <2> SUFFICES ASSUME NEW b \in Dirs
               PROVE  /\ Len(delivered'[b]) <= Len(sent'[b])
                      /\ \A k \in 1 .. Len(delivered'[b]) : delivered'[b][k] = sent'[b][k]
                      /\ fpc'[b] \notin {"retry", "done"} =>
                           delivered'[b] \o InFrame(b)' \o queue'[b] = sent'[b]
    BY DEF MessageInv
  <2>9. CASE b = d
    BY <2>3, <2>5, <2>6, <2>8, <2>9
  <2>10. CASE b # d
    BY <2>7, <2>8, <2>10 DEF MessageInv
  <2> QED
    BY <2>9, <2>10
<1>7. ASSUME NEW d \in Dirs, Retry(d) PROVE MessageInv'
  BY <1>7, MessagesKept DEF Retry, InFrame, Types
<1>8. ASSUME NEW d \in Dirs, GiveUp(d) PROVE MessageInv'
  BY <1>8, MessagesKept DEF GiveUp, InFrame, Types
<1>9. ASSUME NEW d \in Dirs, Sends(d) PROVE MessageInv'
  <2> DEFINE x == Len(sent[d]) + 1
  <2>1. x \in M
    BY <1>0, <1>9, ProxyAssumption, LenProperties DEF Sends
  <2>2. sent'[d] = Append(sent[d], x) /\ queue'[d] = Append(queue[d], x)
    BY <1>9 DEF Sends, Types
  <2>3. delivered' = delivered /\ fpc' = fpc /\ \A b \in Dirs : InFrame(b)' = InFrame(b)
    BY <1>9 DEF Sends, InFrame
  <2>4. \A b \in Dirs \ {d} : sent'[b] = sent[b] /\ queue'[b] = queue[b]
    BY <1>9 DEF Sends, Types
  <2>5. /\ Len(sent'[d]) = Len(sent[d]) + 1
        /\ \A k \in 1 .. Len(sent[d]) : sent'[d][k] = sent[d][k]
    BY <1>0, <2>1, <2>2, AppendProperties
  <2>6. /\ Len(delivered[d]) <= Len(sent'[d])
        /\ \A k \in 1 .. Len(delivered[d]) : delivered[d][k] = sent'[d][k]
    <3>1. Len(delivered[d]) \in Nat /\ Len(sent[d]) \in Nat
      BY <1>0, LenProperties
    <3>2. /\ Len(delivered[d]) <= Len(sent[d])
          /\ \A k \in 1 .. Len(delivered[d]) : delivered[d][k] = sent[d][k]
      BY DEF MessageInv
    <3>3. \A k \in 1 .. Len(delivered[d]) : k \in 1 .. Len(sent[d])
      BY <3>1, <3>2
    <3> QED
      BY <2>5, <3>1, <3>2, <3>3
  <2>7. fpc[d] \notin {"retry", "done"} =>
          (delivered[d] \o InFrame(d)) \o queue'[d] = sent'[d]
    <3> DEFINE a == delivered[d]  b == InFrame(d)  q == queue[d]
    <3>1. a \in Seq(M) /\ b \in Seq(M) /\ q \in Seq(M)
      BY <1>0
    <3> HIDE DEF a, b, q, x, M
    <3>2. (a \o b) \o Append(q, x) = Append((a \o b) \o q, x)
      BY <2>1, <3>1, SentToQueue
    <3> QED
      BY <2>2, <3>2 DEF MessageInv, a, b, q
  <2> SUFFICES ASSUME NEW b \in Dirs
               PROVE  /\ Len(delivered[b]) <= Len(sent'[b])
                      /\ \A k \in 1 .. Len(delivered[b]) : delivered[b][k] = sent'[b][k]
                      /\ fpc[b] \notin {"retry", "done"} =>
                           (delivered[b] \o InFrame(b)) \o queue'[b] = sent'[b]
    BY <2>3 DEF MessageInv
  <2>8. CASE b = d
    BY <2>6, <2>7, <2>8
  <2>9. CASE b # d
    BY <2>4, <2>9 DEF MessageInv
  <2> QED
    BY <2>8, <2>9
<1>10. CASE NewStream
  BY <1>10, MessagesKept DEF NewStream, InFrame, Types, ControlInv
<1>11. CASE NewStreamFails
  BY <1>11, MessagesKept DEF NewStreamFails, InFrame
<1>12. CASE S2CEnds
  BY <1>12, MessagesKept DEF S2CEnds, Take, InFrame
<1>13. CASE S2CFails
  BY <1>13, MessagesKept DEF S2CFails, Take, InFrame
<1>14. CASE C2SEnds
  BY <1>14, MessagesKept DEF C2SEnds, Take, InFrame
<1>15. CASE EndActs
  BY <1>15, MessagesKept DEF EndActs, InFrame
<1>16. CASE UNCHANGED vars
  BY <1>16, MessagesKept DEF vars, InFrame
<1>17. ASSUME NEW d \in Dirs, Forward(d) PROVE MessageInv'
  BY <1>1, <1>2, <1>3, <1>4, <1>5, <1>6, <1>7, <1>8, <1>17
  DEF Forward, RecvError, RecvTooLarge, SendFails
<1> QED
  BY <1>9, <1>10, <1>11, <1>12, <1>13, <1>14, <1>15, <1>16, <1>17 DEF Next, Handle

\* MessageInv is stronger than NothingLost.
LEMMA MessageImpliesNothingLost == TypeOK /\ MessageInv => NothingLost
<1> SUFFICES ASSUME Types, MessageInv, NEW d \in Dirs
             PROVE  delivered[d] = SubSeq(sent[d], 1, Len(delivered[d]))
  BY TypeFacts DEF NothingLost, MessageInv
<1>1. sent[d] \in Seq(1 .. MaxMessages) /\ delivered[d] \in Seq(1 .. MaxMessages)
  BY DEF Types
<1>2. Len(delivered[d]) \in Nat /\ Len(sent[d]) \in Nat /\ Len(delivered[d]) <= Len(sent[d])
  BY <1>1, LenProperties DEF MessageInv
<1>3. \A k \in 1 .. Len(delivered[d]) : sent[d][k] \in 1 .. MaxMessages
  <2>1. \A k \in 1 .. Len(sent[d]) : sent[d][k] \in 1 .. MaxMessages
    BY <1>1, ElementOfSeq
  <2> QED
    BY <1>2, <2>1
<1>4. /\ SubSeq(sent[d], 1, Len(delivered[d])) \in Seq(1 .. MaxMessages)
      /\ Len(SubSeq(sent[d], 1, Len(delivered[d]))) = Len(delivered[d])
      /\ \A k \in 1 .. Len(delivered[d]) :
           SubSeq(sent[d], 1, Len(delivered[d]))[k] = sent[d][k]
  BY <1>2, <1>3, SubSeqProperties
<1> QED
  BY <1>1, <1>4, SeqEqual DEF MessageInv

(***************************************************************************)
(* What an error stands for.                                               *)
(***************************************************************************)

\* Once a forwarder has met the end of its direction, what the end stands for
\* stays true: nothing is sent or delivered in that direction any more.
LEMMA MeansStable ==
  ASSUME TypeOK, ControlInv, [Next]_vars,
         NEW d \in Dirs, fpc[d] \in {"retry", "done"}, NEW e, Means(d, e)
  PROVE  Means(d, e)'
<1>1. Types
  BY TypeFacts
<1>2. delivered'[d] = delivered[d]
  <2>1. ASSUME NEW b \in Dirs, SendOk(b) PROVE delivered'[d] = delivered[d]
    BY <1>1, <2>1 DEF SendOk, Types
  <2>2. (\A b \in Dirs : ~SendOk(b)) => delivered' = delivered
    BY DEF Next, Forward, Handle, vars, RecvOk, RecvEOF, Header, HeaderError, Retry, GiveUp,
           RecvError, RecvTooLarge, SendFails, StartRetry, Sends, NewStream, NewStreamFails, S2CEnds,
           S2CFails, C2SEnds, Take, EndActs
  <2> QED
    BY <2>1, <2>2
<1>3. /\ ctxDone => ctxDone'
      /\ callerClosed => callerClosed'
      /\ backend \in {"ok", "failed"} => backend' = backend
  BY <1>1
  DEF ControlInv, Types, Next, Forward, Handle, vars, RecvOk, RecvEOF, Header, HeaderError,
      SendOk, Retry, GiveUp, RecvError, RecvTooLarge, SendFails, StartRetry, Sends, NewStream,
      NewStreamFails, S2CEnds, S2CFails, C2SEnds, Take, EndActs
<1>4. (IF d = "s2c" THEN callerClosed ELSE backend # "live") => sent'[d] = sent[d]
  <2>1. ASSUME NEW b \in Dirs, Sends(b),
               IF d = "s2c" THEN callerClosed ELSE backend # "live"
        PROVE  sent'[d] = sent[d]
    BY <1>1, <2>1 DEF Sends, Types
  <2>2. (\A b \in Dirs : ~Sends(b)) => sent' = sent
    BY DEF Next, Forward, Handle, vars, RecvOk, RecvEOF, Header, HeaderError, SendOk, Retry,
           GiveUp, RecvError, RecvTooLarge, SendFails, StartRetry, NewStream, NewStreamFails, S2CEnds,
           S2CFails, C2SEnds, Take, EndActs
  <2> QED
    BY <2>1, <2>2
<1> QED
  BY <1>1, <1>2, <1>3, <1>4 DEF Means, Complete, Served, Types

\* A forwarder that is done stays so.
LEMMA DoneStays ==
  ASSUME TypeOK, ControlInv, [Next]_vars, NEW d \in Dirs, fpc[d] = "done"
  PROVE  fpc'[d] = "done"
<1>1. Types
  BY TypeFacts
<1>2. ASSUME NEW b \in Dirs, Forward(b) PROVE fpc'[d] = "done"
  BY <1>1, <1>2
  DEF Types, Forward, RecvOk, RecvEOF, Header, HeaderError, SendOk, Retry, GiveUp, RecvError,
      RecvTooLarge, SendFails, StartRetry
<1>3. CASE NewStream
  BY <1>3 DEF NewStream, ControlInv
<1>4. CASE \/ \E b \in Dirs : Sends(b)
           \/ NewStreamFails \/ S2CEnds \/ S2CFails \/ C2SEnds \/ EndActs \/ UNCHANGED vars
  BY <1>4 DEF Sends, NewStreamFails, S2CEnds, S2CFails, C2SEnds, Take, EndActs, vars
<1> QED
  BY <1>2, <1>3, <1>4 DEF Next, Handle

\* A forwarder that finds its source at the end has delivered everything.
LEMMA EmptySource ==
  ASSUME TypeOK, MessageInv, NEW d \in Dirs, fpc[d] = "recv", queue[d] = <<>>
  PROVE  Complete(d)
<1>1. (delivered[d] \o <<>>) \o <<>> = sent[d]
  BY DEF MessageInv, InFrame
<1>2. delivered[d] \in Seq(1 .. MaxMessages)
  BY TypeFacts DEF Types
<1> QED
  BY <1>1, <1>2, ConcatEmptySeq DEF Complete

LEMMA NextErrors ==
  TypeOK /\ ControlInv /\ MessageInv /\ ErrorInv /\ [Next]_vars => ErrorInv'
<1> SUFFICES ASSUME TypeOK, Types, ControlInv, MessageInv, ErrorInv, [Next]_vars
             PROVE  ErrorInv'
  BY TypeFacts
<1>0. \A d \in Dirs, e \in {"EOF", "failed", "cancelled"} :
        fpc[d] \in {"retry", "done"} /\ Means(d, e) => Means(d, e)'
  BY MeansStable
<1>a. \A d \in Dirs : /\ fpc[d] = "retry" => err[d] \in {"EOF", "failed", "cancelled"}
                      /\ ret[d] # "none" => ret[d] \in {"EOF", "failed", "cancelled"}
                      /\ ret[d] # "none" => fpc[d] = "done"
  BY DEF ErrorInv, ControlInv, Means, Types
<1>1. ASSUME NEW d \in Dirs, RecvOk(d) PROVE ErrorInv'
  BY <1>0, <1>a, <1>1 DEF RecvOk, ErrorInv, Types
<1>2. ASSUME NEW d \in Dirs, RecvEOF(d) PROVE ErrorInv'
  <2>1. Means(d, "EOF")
    BY <1>2, EmptySource DEF RecvEOF, SourceEOF, Means
  <2>2. Means(d, "EOF")'
    BY <1>2, <2>1 DEF RecvEOF, Means, Complete, Served
  <2> QED
    BY <1>0, <1>a, <1>2, <2>2 DEF RecvEOF, ErrorInv, Types
<1>3. ASSUME NEW d \in Dirs, NEW e \in Errors \cup {"EOF"}, Means(d, e)', StartRetry(d, e),
             fpc[d] \in {"recv", "send"}
      PROVE  ErrorInv'
  BY <1>0, <1>a, <1>3 DEF StartRetry, ErrorInv, Types
<1>b. ASSUME NEW d \in Dirs, NEW e \in Errors, RecvError(d, e)
      PROVE  Means(d, e)'
  <2>1. Means(d, e)
    BY <1>b, EmptySource DEF RecvError, SourceError, Means
  <2> QED
    BY <1>b, <2>1 DEF RecvError, StartRetry, Means, Complete, Served
<1>c. ASSUME NEW d \in Dirs, NEW e \in Errors \cup {"EOF"}, SendFails(d, e)
      PROVE  Means(d, e)'
  <2>1. Means(d, e)
    BY <1>c DEF SendFails, SendError, Means, Served
  <2> QED
    BY <1>c, <2>1 DEF SendFails, StartRetry, Means, Complete, Served
<1>4. ASSUME NEW d \in Dirs, Header(d) PROVE ErrorInv'
  BY <1>0, <1>a, <1>4 DEF Header, ErrorInv, Types
<1>5. ASSUME NEW d \in Dirs, HeaderError(d) PROVE ErrorInv'
  <2>1. Means(d, "cancelled")'
    BY <1>5 DEF HeaderError, Means
  <2> QED
    BY <1>0, <1>a, <1>5, <2>1 DEF HeaderError, ErrorInv, Types
<1>6. ASSUME NEW d \in Dirs, SendOk(d) PROVE ErrorInv'
  BY <1>0, <1>a, <1>6 DEF SendOk, ErrorInv, Types
<1>7. ASSUME NEW d \in Dirs, Retry(d) PROVE ErrorInv'
  BY <1>0, <1>a, <1>7 DEF Retry, ErrorInv, Types
<1>8. ASSUME NEW d \in Dirs, GiveUp(d) PROVE ErrorInv'
  BY <1>0, <1>a, <1>8 DEF GiveUp, ErrorInv, Types
<1>9. ASSUME NEW d \in Dirs, Sends(d) PROVE ErrorInv'
  BY <1>0, <1>a, <1>9 DEF Sends, ErrorInv, Types
<1>10. CASE NewStream
  BY <1>0, <1>a, <1>10 DEF NewStream, ErrorInv, ControlInv, Types
<1>11. CASE NewStreamFails
  BY <1>0, <1>a, <1>11 DEF NewStreamFails, ErrorInv, Types
<1>12. CASE S2CEnds
  BY <1>0, <1>a, <1>12 DEF S2CEnds, Take, ErrorInv, Types
<1>13. CASE S2CFails
  BY <1>0, <1>a, <1>13 DEF S2CFails, Take, ErrorInv, Types
<1>14. CASE C2SEnds
  BY <1>0, <1>a, <1>14 DEF C2SEnds, Take, ErrorInv, Types
<1>15. CASE EndActs
  BY <1>0, <1>a, <1>15 DEF EndActs, ErrorInv, Types
<1>16. CASE UNCHANGED vars
  BY <1>0, <1>a, <1>16 DEF vars, ErrorInv, Types
<1>17. ASSUME NEW d \in Dirs, Forward(d) PROVE ErrorInv'
  <2>1. ASSUME NEW e \in Errors, RecvError(d, e) PROVE ErrorInv'
    BY <1>3, <1>b, <2>1 DEF RecvError
  <2>2. ASSUME NEW e \in Errors \cup {"EOF"}, SendFails(d, e) PROVE ErrorInv'
    BY <1>3, <1>c, <2>2 DEF SendFails
  <2>3. ASSUME RecvTooLarge PROVE ErrorInv'
    <3>1. Means("s2c", "cancelled")'
      BY <2>3 DEF RecvTooLarge, Means
    <3> QED
      BY <1>3, <2>3, <3>1 DEF RecvTooLarge
  <2> QED
    BY <1>1, <1>2, <1>4, <1>5, <1>6, <1>7, <1>8, <1>17, <2>1, <2>2, <2>3 DEF Forward
<1> QED
  BY <1>9, <1>10, <1>11, <1>12, <1>13, <1>14, <1>15, <1>16, <1>17 DEF Next, Handle

(***************************************************************************)
(* The abort, the header, the half-close and the status.                   *)
(***************************************************************************)

\* A source with a message in it has not delivered everything.
LEMMA FullSource ==
  ASSUME TypeOK, MessageInv, NEW d \in Dirs, fpc[d] = "recv", queue[d] # <<>>
  PROVE  ~Complete(d)
<1> DEFINE a == delivered[d]  q == queue[d]  s == sent[d]  M == 1 .. MaxMessages
<1>1. a \in Seq(M) /\ q \in Seq(M) /\ s \in Seq(M) /\ <<>> \in Seq(M)
  BY TypeFacts, EmptySeq DEF Types
<1>2. (a \o <<>>) \o q = s
  BY DEF MessageInv, InFrame
<1>3. q # <<>>
  OBVIOUS
<1> HIDE DEF a, q, s, M
<1>4. Len(a) + Len(<<>>) + Len(q) = Len(s)
  BY <1>1, <1>2, FrontIsPrefix
<1>5. Len(a) \in Nat /\ Len(q) \in Nat /\ Len(q) # 0 /\ Len(<<>>) = 0
  BY <1>1, <1>3, EmptySeq, LenProperties
<1>6. a # s
  BY <1>4, <1>5
<1> QED
  BY <1>6 DEF a, s, Complete

LEMMA NextAbort ==
  TypeOK /\ ControlInv /\ MessageInv /\ AbortInv /\ [Next]_vars => AbortInv'
<1> SUFFICES ASSUME TypeOK, Types, ControlInv, MessageInv, AbortInv, [Next]_vars, aborted'
             PROVE  AbortInv'
  BY TypeFacts DEF AbortInv
<1>1. CASE RecvTooLarge
  <2>1. ~Complete("s2c")
    BY <1>1, FullSource DEF RecvTooLarge
  <2>2. ret["s2c"] = "none"
    BY <1>1 DEF RecvTooLarge, ControlInv
  <2> QED
    BY <1>1, <2>1, <2>2 DEF RecvTooLarge, StartRetry, AbortInv, Complete, Types
<1>2. CASE ~RecvTooLarge
  <2>1. aborted
    BY <1>2
    DEF Next, Forward, Handle, vars, RecvOk, RecvEOF, Header, HeaderError, SendOk, Retry,
        GiveUp, RecvError, SendFails, StartRetry, Sends, NewStream, NewStreamFails, S2CEnds,
        S2CFails, C2SEnds, Take, EndActs
  <2>2. fpc["s2c"] \in {"retry", "done"} /\ ret["s2c"] # "EOF" /\ ~Complete("s2c")
    BY <2>1 DEF AbortInv
  <2>3. delivered'["s2c"] = delivered["s2c"] /\ sent'["s2c"] = sent["s2c"]
    <3>1. ASSUME NEW b \in Dirs, SendOk(b) \/ Sends(b)
          PROVE  delivered'["s2c"] = delivered["s2c"] /\ sent'["s2c"] = sent["s2c"]
      BY <2>1, <2>2, <3>1 DEF SendOk, Sends, Types
    <3>2. (\A b \in Dirs : ~SendOk(b) /\ ~Sends(b)) => delivered' = delivered /\ sent' = sent
      BY DEF Next, Forward, Handle, vars, RecvOk, RecvEOF, Header, HeaderError, Retry, GiveUp,
             RecvError, RecvTooLarge, SendFails, StartRetry, NewStream, NewStreamFails, S2CEnds,
             S2CFails, C2SEnds, Take, EndActs
    <3> QED
      BY <3>1, <3>2
  <2>4. /\ fpc'["s2c"] \in {"retry", "done"}
        /\ fpc'["s2c"] = "retry" => fpc["s2c"] = "retry" /\ err'["s2c"] = err["s2c"]
        /\ ret'["s2c"] \in {ret["s2c"], "none", err["s2c"]}
        /\ ret'["s2c"] # ret["s2c"] => ret'["s2c"] = "none" \/ fpc["s2c"] = "retry"
    <3>1. ASSUME NEW b \in Dirs, Forward(b)
          PROVE  /\ fpc'["s2c"] \in {"retry", "done"}
                 /\ fpc'["s2c"] = "retry" => fpc["s2c"] = "retry" /\ err'["s2c"] = err["s2c"]
                 /\ ret'["s2c"] \in {ret["s2c"], "none", err["s2c"]}
                 /\ ret'["s2c"] # ret["s2c"] => ret'["s2c"] = "none" \/ fpc["s2c"] = "retry"
      BY <2>2, <3>1
      DEF Types, Forward, RecvOk, RecvEOF, Header, HeaderError, SendOk, Retry, GiveUp,
          RecvError, RecvTooLarge, SendFails, StartRetry
    <3>2. CASE NewStream
      BY <2>2, <3>2 DEF NewStream, ControlInv
    <3>3. CASE \/ \E b \in Dirs : Sends(b)
               \/ NewStreamFails \/ S2CEnds \/ S2CFails \/ C2SEnds \/ EndActs \/ UNCHANGED vars
      BY <2>2, <3>3
      DEF Types, Sends, NewStreamFails, S2CEnds, S2CFails, C2SEnds, Take, EndActs, vars
    <3> QED
      BY <3>1, <3>2, <3>3 DEF Next, Handle
  <2> QED
    BY <2>1, <2>2, <2>3, <2>4 DEF AbortInv, Complete
<1> QED
  BY <1>1, <1>2

LEMMA NextHeader == TypeOK /\ ControlInv /\ HeaderInv /\ [Next]_vars => HeaderInv'
<1> SUFFICES ASSUME Types, ControlInv, HeaderInv, [Next]_vars PROVE HeaderInv'
  BY TypeFacts
<1> USE DEF HeaderInv, Types
<1>1. ASSUME NEW d \in Dirs, RecvOk(d) PROVE HeaderInv'
  BY <1>1 DEF RecvOk
<1>2. ASSUME NEW d \in Dirs, Header(d) PROVE HeaderInv'
  BY <1>2 DEF Header
<1>3. ASSUME NEW d \in Dirs, SendOk(d) PROVE HeaderInv'
  BY <1>3 DEF SendOk
<1>4. ASSUME NEW d \in Dirs, Forward(d), ~RecvOk(d), ~Header(d), ~SendOk(d)
      PROVE  HeaderInv'
  BY <1>4 DEF Forward, RecvEOF, HeaderError, Retry, GiveUp, RecvError, RecvTooLarge, SendFails, StartRetry
<1>5. CASE NewStream
  BY <1>5 DEF NewStream, ControlInv
<1>6. CASE (\E d \in Dirs : Sends(d)) \/ (Handle /\ ~NewStream) \/ EndActs \/ UNCHANGED vars
  BY <1>6
  DEF Sends, Handle, NewStreamFails, S2CEnds, S2CFails, C2SEnds, Take, EndActs, vars
<1> QED
  BY <1>1, <1>2, <1>3, <1>4, <1>5, <1>6 DEF Next, Handle

LEMMA NextClose ==
  TypeOK /\ ControlInv /\ ErrorInv /\ CloseInv /\ [Next]_vars => CloseInv'
<1> SUFFICES ASSUME TypeOK, Types, ControlInv, ErrorInv, CloseInv, [Next]_vars PROVE CloseInv'
  BY TypeFacts
<1>1. CASE S2CEnds
  <2>1. fpc["s2c"] = "done" /\ Means("s2c", "EOF")
    BY <1>1 DEF S2CEnds, Take, ErrorInv, ControlInv
  <2>2. Means("s2c", "EOF")' /\ fpc' = fpc
    BY <1>1, <2>1, MeansStable DEF S2CEnds, Take
  <2> QED
    BY <2>1, <2>2 DEF CloseInv
<1>2. CASE ~S2CEnds
  <2>1. sendClosed' = sendClosed
    BY <1>2
    DEF Next, Forward, Handle, vars, RecvOk, RecvEOF, Header, HeaderError, SendOk, Retry,
        GiveUp, RecvError, RecvTooLarge, SendFails, StartRetry, Sends, NewStream, NewStreamFails,
        S2CFails, C2SEnds, Take, EndActs
  <2>2. fpc["s2c"] = "done" => fpc'["s2c"] = "done"
    BY DoneStays
  <2> QED
    BY <2>1, <2>2, MeansStable DEF CloseInv
<1> QED
  BY <1>1, <1>2

LEMMA NextStatus ==
  TypeOK /\ ControlInv /\ ErrorInv /\ StatusInv /\ [Next]_vars => StatusInv'
<1> SUFFICES ASSUME TypeOK, Types, ControlInv, ErrorInv, StatusInv, [Next]_vars
             PROVE  StatusInv'
  BY TypeFacts
<1>0. /\ fpc["c2s"] = "done" => fpc'["c2s"] = "done"
      /\ \A e : fpc["c2s"] = "done" /\ Means("c2s", e) => Means("c2s", e)'
  BY DoneStays, MeansStable
<1>1. CASE C2SEnds
  <2>1. /\ fpc["c2s"] = "done" /\ Means("c2s", ret["c2s"])
        /\ hpc = "select" /\ result' = StatusOf(ret["c2s"])
        /\ cancelled' = cancelled /\ aborted' = aborted
    BY <1>1 DEF C2SEnds, Take, ErrorInv, ControlInv
  <2>2. /\ result' = "ok" => ret["c2s"] = "EOF"
        /\ result' = "failed" => ret["c2s"] = "failed"
        /\ result' = "cancelled" => ret["c2s"] = "cancelled"
        /\ result' # "internal"
    BY <2>1 DEF StatusOf, Means
  <2>3. result' = "cancelled" => cancelled \/ aborted
    BY <2>1, <2>2 DEF Means
  <2> QED
    BY <1>0, <2>1, <2>2, <2>3 DEF StatusInv
<1>2. CASE S2CFails
  <2>1. /\ Means("s2c", ret["s2c"]) /\ ret["s2c"] # "EOF" /\ hpc = "select"
        /\ result' = "internal" /\ cancelled' = cancelled /\ aborted' = aborted
    BY <1>2 DEF S2CFails, Take, ErrorInv
  <2> QED
    BY <2>1 DEF StatusInv, Means
<1>3. CASE S2CEnds
  <2>1. result' \in {result, "never"} /\ cancelled' = cancelled /\ aborted' = aborted
    BY <1>3 DEF S2CEnds, Take
  <2> QED
    BY <1>0, <2>1 DEF StatusInv
<1>4. CASE NewStreamFails
  <2>1. result' \in {result, "noStream"} /\ cancelled' = cancelled /\ aborted' = aborted
    BY <1>4 DEF NewStreamFails
  <2> QED
    BY <1>0, <2>1 DEF StatusInv
<1>5. CASE ~C2SEnds /\ ~S2CFails /\ ~S2CEnds /\ ~NewStreamFails
  <2>1. result' = result /\ (cancelled => cancelled') /\ (aborted => aborted')
    BY <1>5
    DEF Next, Forward, Handle, vars, RecvOk, RecvEOF, Header, HeaderError, SendOk, Retry,
        GiveUp, RecvError, RecvTooLarge, SendFails, StartRetry, Sends, NewStream, EndActs
  <2> QED
    BY <1>0, <2>1 DEF StatusInv
<1> QED
  BY <1>1, <1>2, <1>3, <1>4, <1>5

(***************************************************************************)
(* The theorems.                                                           *)
(***************************************************************************)

LEMMA InitInv == Init => IInv
<1> SUFFICES ASSUME Init PROVE IInv
  OBVIOUS
<1>1. TypeOK
  BY InitType
<1>2. MessageInv
  <2>1. \A d \in Dirs : sent[d] = <<>> /\ queue[d] = <<>> /\ delivered[d] = <<>>
    BY DEF Init
  <2>2. \A d \in Dirs : InFrame(d) = <<>>
    BY DEF Init, InFrame
  <2>3. (<<>> \o <<>>) \o <<>> = <<>>
    BY ConcatEmptySeq, EmptySeq
  <2>4. Len(<<>>) = 0 /\ 1 .. 0 = {}
    OBVIOUS
  <2>5. \A d \in Dirs : /\ Len(delivered[d]) <= Len(sent[d])
                        /\ \A k \in 1 .. Len(delivered[d]) : delivered[d][k] = sent[d][k]
    BY <2>1, <2>4
  <2>6. \A d \in Dirs : delivered[d] \o InFrame(d) \o queue[d] = sent[d]
    BY <2>1, <2>2, <2>3
  <2> QED
    BY <2>5, <2>6 DEF MessageInv
<1>3. /\ ControlInv /\ FrameInv /\ ErrorInv /\ AbortInv /\ HeaderInv /\ CloseInv
      /\ StatusInv /\ NeverReachesEnd
  BY DEF Init, ControlInv, FrameInv, ErrorInv, AbortInv, HeaderInv, CloseInv, StatusInv,
         NeverReachesEnd
<1> QED
  BY <1>1, <1>2, <1>3 DEF IInv

LEMMA NextInv == IInv /\ [Next]_vars => IInv'
  BY NextType, NextControl, NextMessage, NextErrors, NextAbort, NextHeader, NextClose, NextStatus
  DEF IInv

\* The inductive invariant.
THEOREM Invariance == Spec => []IInv
  BY InitInv, NextInv, PTL DEF Spec

\* Every variable keeps its type.
THEOREM TypeCorrect == Spec => []TypeOK
<1>1. IInv => TypeOK
  BY DEF IInv
<1> QED
  BY <1>1, Invariance, PTL

\* No message is lost, repeated or overtaken between the two streams, for any
\* number of messages (handler.go:198-306).
THEOREM MessagesArrive == Spec => []NothingLost
<1>1. IInv => NothingLost
  BY MessageImpliesNothingLost DEF IInv
<1> QED
  BY <1>1, Invariance, PTL

\* The caller gets the backend's status, after all its messages, unless it has
\* cancelled or sent a message that is too large (handler.go:171-193).
THEOREM StatusIsTheBackends == Spec => []StatusFaithful
<1>1. IInv => StatusFaithful
  <2> SUFFICES ASSUME IInv PROVE StatusFaithful
    OBVIOUS
  <2>1. CASE aborted
    BY <2>1 DEF IInv, AbortInv, StatusFaithful, status, Complete
  <2>2. CASE ~aborted
    <3>1. status = result /\ result # "tooLarge"
      BY <2>2, TypeFacts DEF status, IInv, Types
    <3> QED
      BY <2>2, <3>1 DEF IInv, StatusInv, StatusFaithful, Means, Complete
  <2> QED
    BY <2>1, <2>2
<1> QED
  BY <1>1, Invariance, PTL

\* CloseSend is called after the last of the caller's messages, or when the
\* backend no longer listens (handler.go:167-170).
THEOREM HalfCloseIsLast == Spec => []HalfCloseFaithful
<1>1. IInv => HalfCloseFaithful
  BY DEF IInv, CloseInv, HalfCloseFaithful, Means, Complete, Served
<1> QED
  BY <1>1, Invariance, PTL

\* The statement after the handler's loop is never reached (handler.go:195).
THEOREM EndUnreachable == Spec => []NeverReachesEnd
<1>1. IInv => NeverReachesEnd
  BY DEF IInv
<1> QED
  BY <1>1, Invariance, PTL

(***************************************************************************)
(* The refinement.                                                         *)
(***************************************************************************)

\* Delivering the message in the frame delivers the next of those sent.
LEMMA FrameIsNext ==
  ASSUME IInv, NEW d \in Dirs, fpc[d] = "send"
  PROVE  delivered[d] # sent[d] /\ frame[d] = sent[d][Len(delivered[d]) + 1]
<1> DEFINE a == delivered[d]  f == frame[d]  q == queue[d]  s == sent[d]
           M == 1 .. MaxMessages
<1>1. Types /\ FrameInv /\ MessageInv
  BY TypeFacts DEF IInv
<1>2. a \in Seq(M) /\ q \in Seq(M) /\ s \in Seq(M)
  BY <1>1 DEF Types
<1>3. f \in M
  BY <1>1, ProxyAssumption DEF Types, FrameInv
<1>4. (a \o <<f>>) \o q = s
  BY <1>1 DEF MessageInv, InFrame
<1> HIDE DEF a, f, q, s, M
<1>5. a # (a \o <<f>>) \o q /\ f = ((a \o <<f>>) \o q)[Len(a) + 1]
  BY <1>2, <1>3, MiddleIsNext
<1> QED
  BY <1>4, <1>5 DEF a, f, s

LEMMA InitRefines == Init => Call!CallInit
  BY DEF Init, Call!CallInit, Call!Directions, status

LEMMA NextRefines == IInv /\ [Next]_vars => [Call!CallNext]_(Call!callVars)
<1> SUFFICES ASSUME IInv, [Next]_vars PROVE Call!CallNext \/ UNCHANGED Call!callVars
  OBVIOUS
<1> USE DEF Call!callVars, Call!Directions, status
<1>0. Types /\ ControlInv /\ AbortInv
  BY TypeFacts DEF IInv
<1>a. aborted => backend # "none" /\ hpc # "dial"
  BY <1>0 DEF AbortInv, ControlInv
<1>1. ASSUME NEW d \in Dirs, Forward(d), ~Header(d), ~SendOk(d), ~RecvTooLarge
      PROVE  UNCHANGED Call!callVars
  BY <1>1
  DEF Forward, RecvOk, RecvEOF, HeaderError, Retry, GiveUp, RecvError, SendFails, StartRetry
<1>b. CASE RecvTooLarge
  <2>1. ~Complete("s2c")
    BY <1>b, FullSource DEF RecvTooLarge, IInv
  <2>2. ~Call!Over /\ status' = "tooLarge"
    BY <1>0, <1>b DEF RecvTooLarge, ControlInv, Types, Call!Over
  <2>3. Call!End
    BY <1>b, <2>1, <2>2
    DEF RecvTooLarge, StartRetry, Complete, Call!End, Call!Complete
  <2> QED
    BY <2>3 DEF Call!CallNext
<1>2. ASSUME NEW d \in Dirs, Header(d) PROVE Call!SendHeader
  BY <1>0, <1>2 DEF Header, ControlInv, Types, Call!SendHeader, Call!Over
<1>3. ASSUME NEW d \in Dirs, SendOk(d) PROVE Call!Deliver(d)
  <2>1. delivered[d] # sent[d] /\ frame[d] = sent[d][Len(delivered[d]) + 1]
    BY <1>3, FrameIsNext DEF SendOk
  <2>2. IF d = "s2c" THEN backend = "live" ELSE headerSent /\ ~Call!Over
    BY <1>0, <1>3 DEF SendOk, SendAccepted, IInv, HeaderInv, ControlInv, Call!Over
  <2> QED
    BY <1>0, <1>3, <2>1, <2>2 DEF SendOk, Types, Call!Deliver, Call!Complete
<1>4. ASSUME NEW d \in Dirs, Sends(d) PROVE Call!Send(d)
  BY <1>0, <1>4 DEF Sends, ControlInv, Types, Call!Send, Call!Over
<1>5. CASE NewStream
  BY <1>0, <1>a, <1>5 DEF NewStream, ControlInv, Call!BackendActs, Call!CallNext, Call!Over
<1>6. CASE NewStreamFails
  BY <1>0, <1>a, <1>6 DEF NewStreamFails, ControlInv, Call!End, Call!CallNext, Call!Over
<1>7. CASE S2CEnds
  <2>1. ret["s2c"] = "EOF" /\ hpc = "select"
    BY <1>7 DEF S2CEnds, Take
  <2>2. Means("s2c", "EOF") /\ ~Call!Over
    BY <1>0, <2>1 DEF IInv, ErrorInv, ControlInv, AbortInv, Call!Over
  <2>3. status' = status /\ sendClosed' = TRUE
    BY <1>0, <1>7, <2>1 DEF S2CEnds, Take, ControlInv
  <2>4. Call!HalfClose
    BY <1>7, <2>2, <2>3
    DEF S2CEnds, Take, Means, Complete, Served, Call!HalfClose, Call!Complete, Call!Served
  <2> QED
    BY <2>4 DEF Call!CallNext
<1>8. CASE S2CFails
  <2>1. Means("s2c", ret["s2c"]) /\ ret["s2c"] # "EOF" /\ hpc = "select"
    BY <1>8 DEF S2CFails, Take, IInv, ErrorInv
  <2>2. ~aborted => cancelled /\ ~Call!Over
    BY <1>0, <2>1 DEF Means, ControlInv, Call!Over
  <2> QED
    BY <1>8, <2>2 DEF S2CFails, Take, Call!End, Call!CallNext
<1>9. CASE C2SEnds
  <2>1. Means("c2s", ret["c2s"]) /\ hpc = "select" /\ result' = StatusOf(ret["c2s"])
    BY <1>9 DEF C2SEnds, Take, IInv, ErrorInv
  <2>2. aborted => UNCHANGED Call!callVars
    BY <1>9 DEF C2SEnds, Take
  <2> SUFFICES ASSUME ~aborted PROVE Call!CallNext
    BY <2>2
  <2>5. ~Call!Over
    BY <1>0, <2>1 DEF ControlInv, Call!Over
  <2>3. \/ cancelled /\ result' = "cancelled"
        \/ backend \in {"ok", "failed"} /\ delivered["c2s"] = sent["c2s"] /\ result' = backend
    BY <2>1 DEF Means, Complete, Served, StatusOf
  <2>4. Call!End
    BY <1>9, <2>3, <2>5 DEF C2SEnds, Take, Call!End, Call!Complete, Call!Served
  <2> QED
    BY <2>4 DEF Call!CallNext
<1>10. CASE EndActs
  BY <1>0, <1>10
  DEF EndActs, ControlInv, Call!CallerActs, Call!BackendActs, Call!CallNext, Call!Over
<1>11. CASE UNCHANGED vars
  BY <1>11 DEF vars
<1> QED
  BY <1>1, <1>b, <1>2, <1>3, <1>4, <1>5, <1>6, <1>7, <1>8, <1>9, <1>10, <1>11
  DEF Next, Handle, Call!CallNext

\* The gateway is transparent: what the handler and its forwarders do is, for the
\* caller and the backend, a call between the two (handler.go:121-306).
THEOREM Transparent == Spec => CallSpec
<1>1. Init => Call!CallInit
  BY InitRefines
<1>2. IInv /\ [Next]_vars => [Call!CallNext]_(Call!callVars)
  BY NextRefines
<1> QED
  BY <1>1, <1>2, Invariance, PTL DEF Spec, CallSpec, Call!CallSpec
==============================================================================
