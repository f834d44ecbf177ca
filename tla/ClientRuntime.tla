---------------------------- MODULE ClientRuntime ----------------------------
(***************************************************************************)
(* A messaging client between Start and Stop: kafka, rabbitmq, mqtt,       *)
(* redis_stream, redis_pubsub and sqs_receiver.                            *)
(*                                                                         *)
(* Start is a list of steps, any of which may fail; what it built is only  *)
(* visible to the other calls once it is published in the client's fields. *)
(* A running receiver hands deliveries to its subscriber and settles them; *)
(* events are sent through the client's senders meanwhile.  The drivers    *)
(* (franz-go, amqp, paho, go-redis, the AWS SDK) are external: a receiver  *)
(* that runs delivers, one that is drained, stopped or cancelled does not. *)
(***************************************************************************)
EXTENDS Naturals, Sequences, FiniteSets

CONSTANTS
  Kinds,         \* the clients a run covers
  MaxSenders,    \* bound: senders of the client
  MaxReceivers,  \* bound: receivers of the client
  MaxInFlight,   \* bound: unsettled deliveries of a receiver
  MaxFlips,      \* bound: connections gained and lost
  MaxEvents      \* bound: events sent through the client

VARIABLES
  client,     \* kind, senders, receivers, whether a sender is asynchronous
  phase,      \* "off", "starting", "up", "failed", "draining", "stopping", "stopped"
  pc,         \* steps of Start taken
  open,       \* the connection exists
  connecting, \* rabbitmq, mqtt: the first connection is sought in the background
  wired,      \* senders a proxy can reach
  running,    \* receivers that deliver
  published,  \* the fields are set
  inflight,   \* receiver -> deliveries not settled
  drained,    \* "no", "clean" or "late"
  reported,   \* what the health reporter was last told
  hooks,      \* connection callbacks not yet run
  flips,
  event       \* the event on its way through OnEvent

vars == <<client, phase, pc, open, connecting, wired, running, published,
          inflight, drained, reported, hooks, flips, event>>

Receivers == 1..client.receivers
Each(n, steps) == [i \in 1..(n * Len(steps)) |-> steps[((i - 1) % Len(steps)) + 1]]

----------------------------------------------------------------------------
(* Start.                                                                  *)

KafkaStart ==
  (IF client.senders > 0 THEN <<"open">> ELSE <<>>)
  \o Each(client.senders, <<"wire">>) \o Each(client.receivers, <<"build", "run">>)
  \o <<"publish">>
RabbitStart ==
  Each(client.senders, <<"wire">>) \o Each(client.receivers, <<"build">>)
  \o <<"publish", "connect later">>
MqttStart ==
  <<"new client">> \o Each(client.senders, <<"wire">>)
  \o Each(client.receivers, <<"build">>) \o <<"publish", "connect later">>
RedisStart == Each(client.receivers, <<"run">>)
SqsStart == <<"run">>

StartSteps ==
  CASE client.kind = "kafka"        -> KafkaStart
    [] client.kind = "rabbitmq"     -> RabbitStart
    [] client.kind = "mqtt"         -> MqttStart
    [] client.kind = "sqs_receiver" -> SqsStart
    [] OTHER                        -> RedisStart

\* redis and sqs set their fields while the block is processed.
EarlyFields == {"redis_stream", "redis_pubsub", "sqs_receiver"}
Pushes == {"rabbitmq", "mqtt"}  \* clients that report their connection
Drains == {"kafka", "rabbitmq", "redis_stream", "sqs_receiver"}
Clients ==
  {c \in [kind : Kinds, senders : 0..MaxSenders, receivers : 0..MaxReceivers,
          async : BOOLEAN] :
     /\ c.async => c.senders > 0
     /\ c.kind = "sqs_receiver" => c.receivers = 1 /\ c.senders = 0}

Init ==
  /\ client \in Clients
  /\ phase = "off" /\ pc = 1 /\ open = FALSE /\ connecting = FALSE /\ wired = 0
  /\ running = {} /\ published = (client.kind \in EarlyFields)
  /\ inflight = [r \in Receivers |-> 0] /\ drained = "no"
  /\ reported = "unset" /\ hooks = <<>> /\ flips = 0
  /\ event = [at |-> "none", n |-> 0]

Start ==
  /\ phase = "off" /\ phase' = "starting"
  /\ UNCHANGED <<client, pc, open, connecting, wired, running, published, inflight,
                 drained, reported, hooks, flips, event>>

Step == StartSteps[pc]
\* Broken form: the fields are never set.
PublishesLate == FALSE

Publishes == Step = "publish"

StartStep ==
  /\ phase = "starting" /\ pc <= Len(StartSteps)
  /\ pc' = pc + 1
  /\ open' = (open \/ Step = "open")
  /\ connecting' = (connecting \/ Step = "connect later")
  /\ wired' = IF Step = "wire" THEN wired + 1 ELSE wired
  /\ running' = IF Step = "run" THEN running \cup {Cardinality(running) + 1} ELSE running
  /\ published' = (published \/ Publishes)
  /\ UNCHANGED <<client, phase, inflight, drained, reported, hooks, flips, event>>

Started ==
  /\ phase = "starting" /\ pc > Len(StartSteps)
  /\ phase' = "up"
  /\ UNCHANGED <<client, pc, open, connecting, wired, running, published, inflight,
                 drained, reported, hooks, flips, event>>

\* Broken form: what was started by then goes on.
FailureLeavesRunning == running

\* A step fails: kafka cancels, stops the receivers already running and
\* closes its connection; redis stops them; rabbitmq, which can be refused the
\* launch of its connection, and mqtt, which cannot, have started nothing.  The
\* proxies keep the senders they were given.
FailureStops == {}

StartFails ==
  /\ phase = "starting" /\ pc <= Len(StartSteps)
  /\ \/ Step \in {"open", "wire", "build", "run", "new client"}
     \/ Step = "connect later" /\ client.kind = "rabbitmq"
  /\ phase' = "failed"
  /\ open' = FALSE /\ running' = FailureStops
  /\ UNCHANGED <<client, pc, connecting, wired, published, inflight, drained,
                 reported, hooks, flips, event>>

\* The driver's connection callback, queued in order.
Notify(up) == hooks' = IF client.kind \in Pushes THEN Append(hooks, up) ELSE hooks

\* The background connection is made at any time until Stop has ended it, or
\* never; mqtt's may give up for good.
ConnectLater ==
  /\ connecting
  /\ connecting' = FALSE
  /\ \/ open' = TRUE /\ running' = Receivers /\ Notify(TRUE)
     \/ client.kind = "mqtt" /\ UNCHANGED <<open, running, hooks>>
  /\ UNCHANGED <<client, phase, pc, wired, published, inflight, drained, reported,
                 flips, event>>

----------------------------------------------------------------------------
(* The connection, and what the health monitor hears of it.                *)

\* A connection is lost, or made again.
Flip ==
  /\ client.kind \in Pushes /\ phase \in {"starting", "up", "draining", "stopping"}
  /\ open \/ flips # 0
  /\ flips < MaxFlips
  /\ flips' = flips + 1 /\ open' = ~open /\ Notify(~open)
  /\ UNCHANGED <<client, phase, pc, connecting, wired, running, published, inflight,
                 drained, reported, event>>

\* makeLifecycleHook: the reporter first, then the user's expression.
Hook ==
  /\ hooks # <<>>
  /\ reported' = IF Head(hooks) THEN "ready" ELSE "not connected"
  /\ hooks' = Tail(hooks)
  /\ UNCHANGED <<client, phase, pc, open, connecting, wired, running, published,
                 inflight, drained, flips, event>>

\* Ready, for the clients that ask their connection.
Ready == published /\ open

----------------------------------------------------------------------------
(* Deliveries.                                                             *)

Deliver(r) ==
  /\ r \in running /\ inflight[r] < MaxInFlight /\ phase # "draining" /\ drained = "no"
  /\ inflight' = [inflight EXCEPT ![r] = @ + 1]
  /\ UNCHANGED <<client, phase, pc, open, connecting, wired, running, published,
                 drained, reported, hooks, flips, event>>

Settle(r) ==
  /\ inflight[r] > 0
  /\ inflight' = [inflight EXCEPT ![r] = @ - 1]
  /\ UNCHANGED <<client, phase, pc, open, connecting, wired, running, published,
                 drained, reported, hooks, flips, event>>

\* unsettled, the InFlight count of a receiver.
Unsettled(r) == IF published THEN inflight[r] ELSE 0

\* Drain: every receiver at once, each until its deliveries are settled or the
\* time is up; Drain returns when the last of them has.
Drain ==
  /\ phase = "up" /\ client.kind \in Drains
  /\ phase' = "draining"
  /\ UNCHANGED <<client, pc, open, connecting, wired, running, published, inflight,
                 drained, reported, hooks, flips, event>>

\* Broken form: the first receiver to finish decides.
OneDrained == running = {} \/ \E r \in running : inflight[r] = 0

AllDrained == \A r \in running : inflight[r] = 0

DrainReturns ==
  /\ phase = "draining" /\ drained = "no"
  /\ drained' = IF AllDrained THEN "clean" ELSE "late"
  /\ UNCHANGED <<client, phase, pc, open, connecting, wired, running, published,
                 inflight, reported, hooks, flips, event>>

\* The driver's callback for a connection that Stop closes: rabbitmq's library
\* runs it, mqtt's need not.
NotifyClosed ==
  \/ open /\ Notify(FALSE)
  \/ (~open \/ client.kind # "rabbitmq") /\ UNCHANGED hooks

\* Stop, of a client that is up, drained or failed to start.  Only published
\* fields are stopped.
Stop ==
  /\ \/ phase \in {"up", "failed"}
     \/ phase = "draining" /\ drained # "no"
  /\ phase' = IF client.kind \in Pushes /\ published THEN "stopping" ELSE "stopped"
  /\ IF published THEN open' = FALSE /\ running' = {} /\ NotifyClosed
                  ELSE UNCHANGED <<open, running, hooks>>
  /\ UNCHANGED <<client, pc, connecting, wired, published, inflight, drained,
                 reported, flips, event>>

\* Broken form: the background connection is left to itself.
NoCancel == connecting

\* rabbitmq's loop ends before Stop returns; mqtt cancels its connection after
\* the client was told to stop.  A connection made in between ends too.
CancelConnection == FALSE

StopEnds ==
  /\ phase = "stopping" /\ phase' = "stopped"
  /\ connecting' = CancelConnection /\ open' = FALSE /\ running' = {} /\ NotifyClosed
  /\ UNCHANGED <<client, pc, wired, published, inflight, drained, reported, flips,
                 event>>

----------------------------------------------------------------------------
(* An event through the client's own senders, and the disposition its      *)
(* caller reads afterwards.                                                *)

Senders == IF published THEN client.senders ELSE 0

\* OnEvent: every sender is tried, whatever the others say.
Answer(failed) ==
  CASE client.senders = 0 -> "no senders"
    [] Senders = 0        -> "not started"
    [] failed > 0         -> "error"
    [] OTHER              -> "ok"

OnEvent ==
  /\ event.at = "none" /\ event.n < MaxEvents
  /\ \E failed \in 0..client.senders :
       /\ ~open /\ client.kind \notin EarlyFields => failed = client.senders
       /\ event' = [at |-> "answered", n |-> event.n + 1, answer |-> Answer(failed),
                    took |-> IF Senders = 0 THEN 0 ELSE Senders - failed]
  /\ UNCHANGED <<client, phase, pc, open, connecting, wired, running, published,
                 inflight, drained, reported, hooks, flips>>

\* Broken form: the wired senders decide.
DispositionOfWired == IF wired = client.senders /\ client.async THEN "handled" ELSE "deferred"

\* DeliveryDisposition: deferred if any sender is.
Disposition == IF Senders > 0 /\ client.async THEN "deferred" ELSE "handled"

ReadDisposition ==
  /\ event.at = "answered"
  /\ event' = [event EXCEPT !.at = IF event.answer = "ok" /\ Disposition = "handled"
                                   THEN "acknowledged" ELSE "left"]
  /\ UNCHANGED <<client, phase, pc, open, connecting, wired, running, published,
                 inflight, drained, reported, hooks, flips>>

NextEvent ==
  /\ event.at \in {"acknowledged", "left"}
  /\ event' = [at |-> "none", n |-> event.n]
  /\ UNCHANGED <<client, phase, pc, open, connecting, wired, running, published,
                 inflight, drained, reported, hooks, flips>>

Next ==
  \/ Start \/ StartStep \/ Started \/ StartFails \/ ConnectLater
  \/ Flip \/ Hook
  \/ \E r \in Receivers : Deliver(r) \/ Settle(r)
  \/ Drain \/ DrainReturns \/ Stop \/ StopEnds
  \/ OnEvent \/ ReadDisposition \/ NextEvent

Spec == Init /\ [][Next]_vars

----------------------------------------------------------------------------
(* Properties.                                                             *)

TypeOK ==
  /\ client \in Clients /\ pc \in Nat /\ running \subseteq Receivers
  /\ inflight \in [Receivers -> 0..MaxInFlight]

\* A client whose Start failed, and one that was stopped, has no receiver
\* delivering and no connection, whichever step failed and whatever
\* connected late.
NothingRunsAfter ==
  /\ phase \in {"failed", "stopped"} => running = {} /\ ~open
  /\ phase = "stopped" => ~connecting

\* Once Start has returned, quiesce can count every unsettled delivery.
CountsHonest == phase \in {"up", "draining"} => \A r \in Receivers : Unsettled(r) = inflight[r]

\* A clean drain left nothing unsettled, for Stop to cut off.
CleanDrain == drained = "clean" => \A r \in running : inflight[r] = 0

\* A message is acknowledged upstream on a sender's word only when every
\* sender of the client took it, and none of them settles it later.
AckedMeansSent ==
  event.at = "acknowledged" => event.took = client.senders /\ ~client.async

\* When no callback is outstanding, the state pushed to the health monitor is
\* the one Ready would answer, a client that was never told of a connection
\* being not ready: for rabbitmq to the end of Stop, for mqtt until Stop, whose
\* disconnection its library does not promise to report.
ReportCurrent ==
  client.kind \in Pushes /\ hooks = <<>>
  /\ (client.kind = "mqtt" => phase \notin {"stopping", "stopped"}) =>
       (reported = "ready") = Ready
=============================================================================
