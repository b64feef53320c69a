------------------------------- MODULE Plugins -------------------------------
(***************************************************************************)
(* main of src/server.go and the plugins it starts.                        *)
(*                                                                         *)
(* registerPlugins makes a plugin record of its own, with a channel, and   *)
(* runs the factory in a goroutine.  The factory is a method of another    *)
(* record, of the zero value main has declared: the Status it sends to     *)
(* when the plugin ends is that record's field.  The gRPC plugin returns   *)
(* at once; its listeners, one per enabled proxy, have a copy of the       *)
(* record and send when they end.                                          *)
(***************************************************************************)
EXTENDS Integers, Sequences

CONSTANTS
  Listeners,   \* goroutines of vsGrpcInitServer, none of them in PluginNames
  nil          \* the nil channel

\* main registers the plugins in one order and waits for them in another.
RegisterOrder == <<"http", "gRPC", "metrics", "vs">>
WaitOrder == <<"http", "gRPC", "vs", "metrics">>

PluginNames == {"http", "gRPC", "metrics", "vs"}

Goroutines == PluginNames \cup Listeners

VARIABLES
  step,     \* statements of main: 1 .. 4 register, 5 .. 8 receive, 9 returned
  chan,     \* the channel registerPlugins has made for each plugin
  status,   \* the Status field of the record each factory belongs to
  gpc       \* off, running, sending (the deferred send), ended

vars == <<step, chan, status, gpc>>

\* The record whose Status goroutine g sends to.
Record(g) == IF g \in Listeners THEN "gRPC" ELSE g

\* Does goroutine g send when it ends?  GRPCServer has no deferred send.
Reports(g) == g # "gRPC"

registerPlugins ==
  /\ step <= 4
  /\ chan' = [chan EXCEPT ![RegisterOrder[step]] = RegisterOrder[step]]
  /\ gpc' = [gpc EXCEPT ![RegisterOrder[step]] = "running"]
  /\ step' = step + 1
  /\ UNCHANGED status

\* GRPCServer starts its listeners and returns.
GRPCServer ==
  /\ gpc["gRPC"] = "running"
  /\ gpc' = [g \in Goroutines |-> IF g = "gRPC" THEN "ended"
                                  ELSE IF g \in Listeners THEN "running" ELSE gpc[g]]
  /\ UNCHANGED <<step, chan, status>>

\* Another plugin or a listener ends: its server stops, or its work is done.
Ends(g) ==
  /\ gpc[g] = "running" /\ Reports(g)
  /\ gpc' = [gpc EXCEPT ![g] = "sending"]
  /\ UNCHANGED <<step, chan, status>>

\* The deferred send, on an unbuffered channel, meets main's receive.  Either
\* of them blocks for ever on a nil channel.
Reported(g) ==
  /\ gpc[g] = "sending"
  /\ step \in 5 .. 8
  /\ status[Record(g)] # nil /\ status[Record(g)] = chan[WaitOrder[step - 4]]
  /\ gpc' = [gpc EXCEPT ![g] = "ended"]
  /\ step' = step + 1
  /\ UNCHANGED <<chan, status>>

Init ==
  /\ step = 1
  /\ chan = [p \in PluginNames |-> nil]
  /\ status = [p \in PluginNames |-> nil]
  /\ gpc = [g \in Goroutines |-> "off"]

Next == registerPlugins \/ GRPCServer \/ \E g \in Goroutines : Ends(g) \/ Reported(g)

Spec == Init /\ [][Next]_vars

FairSpec ==
  /\ Spec
  /\ WF_vars(registerPlugins) /\ WF_vars(GRPCServer)
  /\ \A g \in Goroutines : WF_vars(Reported(g))

\* main receives the status every plugin sends when it ends ("return status
\* chan"), so that the process ends when all its plugins have.
MainLearnsOfTheEnd ==
  (\A g \in Goroutines : gpc[g] \in {"sending", "ended"}) ~> step = 9
==============================================================================
