----------------------------- MODULE Lifecycle -----------------------------
(***************************************************************************)
(* The process from Build to exit (config/config.go Build, discard.go,     *)
(* cmd/startup.go, cmd/serve.go): blocks are processed in dependency       *)
(* order and register what they need of each phase; a failed build is      *)
(* discarded; startAll brings the components up, one of them perhaps       *)
(* failing for good; shutdown drains, runs the shutdown triggers, waits    *)
(* for the pipeline to empty, closes the queues and stops the transports.  *)
(*                                                                         *)
(* The configuration is a bus, a subscription to it (with a queue or not), *)
(* one acknowledging receiver per element of Receivers publishing to the   *)
(* bus (the first with a queue), a plain source that acknowledges nothing, *)
(* a `trigger "interval"` or "watchdog" whose goroutine runs an action     *)
(* (the ticker), and a `trigger "shutdown"` whose action sends to the bus. *)
(* Either action may never return.  Each source has one message to carry,  *)
(* the ticker one action to run.                                           *)
(***************************************************************************)
EXTENDS Integers, Sequences, FiniteSets

CONSTANTS Receivers,       \* sequence of acknowledging receivers
          SubQueue,        \* whether the subscription has queue_size
          Stuck,           \* whether an action may never return
          BuildFails       \* whether a block's processing may fail


Rcv == {Receivers[i] : i \in DOMAIN Receivers}
\* What the two triggers' actions do: the ticker's run, and the message the
\* shutdown trigger's sends.
Sent == {"tick", "farewell"}
Messages == Rcv \cup {"plain"} \cup Sent
Queued == IF Receivers = <<>> THEN {} ELSE {Receivers[1]}

\* The blocks in dependency order: a subscription and a receiver name the bus.
Blocks == <<"bus", "sub">> \o Receivers \o <<"plain", "ticker", "trigger">>

VARIABLES phase,      \* where runServer is
          at,         \* how far the phase's loop is
          built,      \* blocks processed so far
          config,     \* what they registered of each phase, in order
          up,         \* components running: dispatchers, queues, transports
          accepting,  \* sources still taking messages in
          where,      \* per message: where it is
          settled,    \* per receiver's message: "no", "acked", "nacked", "refused"
          closed,     \* queues closed
          readings,   \* quiesce's consecutive empty readings
          sum,        \* pendingWork's running total
          late,       \* the phase's deadline has passed
          closer,     \* closeQueues' goroutine: index of the holder it is at
          warned      \* a warning about unfinished work was logged

vars == <<phase, at, built, config, up, accepting, where, settled, closed, readings, sum,
          late, closer, warned>>

-----------------------------------------------------------------------------
(* What the blocks register, in registration order.                        *)

Holder(name, pend, closes) == [name |-> name, pend |-> pend, closes |-> closes]

(* Broken form: a receiver registers its queue only. *)
RegistersNoUnsettled(b) ==
  CASE b = "bus" -> <<Holder("bus", {"bus"}, FALSE)>>
    [] b = "sub" -> IF SubQueue THEN <<Holder("subq", {"subq"}, TRUE)>> ELSE <<>>
    [] b \in Queued -> <<Holder(b, {"rq"}, TRUE)>>
    [] OTHER -> <<>>

\* A bus registers a depth and no Close; a queue both; a receiver what it has
\* delivered and nothing has settled.
Registers(b) ==
  CASE b = "bus" -> <<Holder("bus", {"bus"}, FALSE)>>
    [] b = "sub" -> IF SubQueue THEN <<Holder("subq", {"subq"}, TRUE)>> ELSE <<>>
    [] b \in Rcv -> (IF b \in Queued THEN <<Holder(b, {"rq"}, TRUE)>> ELSE <<>>)
                    \o <<Holder(b, {"unsettled"}, FALSE)>>
    [] OTHER -> <<>>

\* What a processed block appends to the configuration's lists.
Registered(c, b) ==
  [Startables    |-> IF b \in Rcv \cup {"plain"} THEN Append(c.Startables, b) ELSE c.Startables,
   Drainables    |-> IF b \in Rcv THEN Append(c.Drainables, b) ELSE c.Drainables,
   InFlight      |-> c.InFlight \o Registers(b),
   PreStoppables |-> IF b = "trigger" THEN Append(c.PreStoppables, b) ELSE c.PreStoppables,
   Stoppables    |-> IF b \in Rcv \cup {"plain", "ticker"} THEN Append(c.Stoppables, b) ELSE c.Stoppables]

Startables == config.Startables
Drainables == config.Drainables
InFlight == config.InFlight
PreStoppables == config.PreStoppables
Stoppables == config.Stoppables

\* Started while processed: the bus's dispatcher, a queue's worker, a pool.
StartedByBuild(b) ==
  CASE b = "bus" -> {"bus"}
    [] b = "sub" /\ SubQueue -> {"subq"}
    [] b \in Queued -> {"rq"}
    [] OTHER -> {}

Queues == {"subq", "rq"}
Running(q) == CASE q = "rq" -> "rq running" [] q = "bus" -> "bus running" [] q = "subq" -> "subq running"
-----------------------------------------------------------------------------
(* Messages on the way.                                                    *)

\* How many messages a holder reports.
Pending(h) ==
  CASE h.pend = {"unsettled"} ->
         IF where[h.name] \notin {"source", "broker"} /\ settled[h.name] = "no" THEN 1 ELSE 0
    [] h.pend = {"rq"} -> IF where[h.name] = "rq" THEN 1 ELSE 0
    [] OTHER -> Cardinality({m \in Messages : where[m] \in h.pend})

Keep == UNCHANGED <<phase, at, built, config, readings, sum, late, closer, warned>>

\* An open source takes a message in: a receiver's goes to its queue or, on
\* the receive loop itself, to the bus.
Receive(m) ==
  /\ m \notin Sent /\ m \in accepting /\ m \in up /\ where[m] = "source"
  /\ where' = [where EXCEPT ![m] =
       IF m \notin Queued THEN "bus" ELSE IF "rq" \in closed THEN "refused" ELSE "rq"]
  /\ settled' = IF m \in Queued /\ "rq" \in closed THEN [settled EXCEPT ![m] = "nacked"] ELSE settled
  /\ UNCHANGED <<up, accepting, closed>> /\ Keep

\* A worker takes the message off its queue; nothing counts it while it runs.
Take(m, q) ==
  /\ where[m] = q /\ \A n \in Messages : where[n] # Running(q)
  /\ where' = [where EXCEPT ![m] = Running(q)]
  /\ UNCHANGED <<up, accepting, settled, closed>> /\ Keep

\* The settle that follows the work travels over the receiver's transport.
SettledAs(m, end) ==
  IF m \notin up THEN "refused" ELSE IF end = "done" THEN "acked" ELSE "nacked"
Finish(m, end) ==
  /\ where' = [where EXCEPT ![m] = end]
  /\ settled' = IF m \in Rcv THEN [settled EXCEPT ![m] = SettledAs(m, end)] ELSE settled

\* The receiver's queue worker publishes to the bus.
PublishFromQueue(m) ==
  /\ where[m] = "rq running" /\ where' = [where EXCEPT ![m] = "bus"]
  /\ UNCHANGED <<up, accepting, settled, closed>> /\ Keep

\* The bus's dispatcher delivers: into the subscription's queue, which
\* refuses once closed, or by running the action itself.
Dispatch(m) ==
  /\ where[m] = "bus running"
  /\ IF SubQueue
       THEN IF "subq" \in closed THEN Finish(m, "refused")
            ELSE where' = [where EXCEPT ![m] = "subq"] /\ UNCHANGED settled
       ELSE Finish(m, "done")
  /\ UNCHANGED <<up, accepting, closed>> /\ Keep

Act(m) ==
  /\ where[m] = "subq running" /\ Finish(m, "done")
  /\ UNCHANGED <<up, accepting, closed>> /\ Keep

\* With no queue the action runs on the dispatcher, and may be the stuck one.
Work(m) == \/ \E q \in {"rq", "bus", "subq"} : Take(m, q)
           \/ PublishFromQueue(m) \/ Dispatch(m) \/ Act(m)

\* The ticker's goroutine runs its action, under no deadline, until it returns.
TickBegins ==
  /\ "ticker" \in up /\ where["tick"] = "source" /\ where' = [where EXCEPT !["tick"] = "acting"]
  /\ UNCHANGED <<up, accepting, settled, closed>> /\ Keep
TickEnds ==
  /\ where["tick"] = "acting" /\ where' = [where EXCEPT !["tick"] = "done"]
  /\ UNCHANGED <<up, accepting, settled, closed>> /\ Keep

-----------------------------------------------------------------------------
(* Build and Discard.                                                      *)

Messaging == <<where, settled, closed>>
Quiet == <<readings, sum, late, closer, warned>>

ProcessBlock ==
  /\ phase = "build" /\ built < Len(Blocks)
  /\ built' = built + 1 /\ config' = Registered(config, Blocks[built + 1])
  /\ up' = up \cup StartedByBuild(Blocks[built + 1])
  /\ UNCHANGED <<phase, at, accepting>> /\ UNCHANGED Messaging /\ UNCHANGED Quiet

\* A block's diagnostics fail the build after every block was processed; the
\* failing block itself may have started its queue before it was refused.
BuildFailed ==
  /\ phase = "build" /\ built = Len(Blocks) /\ BuildFails
  /\ phase' = "discard drain" /\ at' = Len(Drainables)
  /\ UNCHANGED <<built, config, up, accepting>> /\ UNCHANGED Messaging /\ UNCHANGED Quiet

Built ==
  /\ phase = "build" /\ built = Len(Blocks)
  /\ phase' = "start" /\ at' = 1
  /\ UNCHANGED <<built, config, up, accepting>> /\ UNCHANGED Messaging /\ UNCHANGED Quiet

(* Broken form: buses are left to the process's exit. *)
DiscardStopsNoBus == up \ {Stoppables[i] : i \in DOMAIN Stoppables}

\* Discard: drain, stop, then every bus; the queues have no step.
DiscardStops == up \ ({"bus"} \cup {Stoppables[i] : i \in DOMAIN Stoppables})

Discard ==
  /\ phase = "discard drain"
  /\ phase' = "discarded" /\ up' = DiscardStops /\ accepting' = {}
  /\ UNCHANGED <<at, built, config>> /\ UNCHANGED Messaging /\ UNCHANGED Quiet

-----------------------------------------------------------------------------
(* startAll: a plain error is a degraded start, a terminal one ends it.    *)

StartOne ==
  /\ phase = "start" /\ at <= Len(Startables)
  /\ at' = at + 1
  /\ \/ up' = up \cup {Startables[at]} /\ accepting' = accepting \cup {Startables[at]}
     \/ UNCHANGED <<up, accepting>>                       \* started degraded
  /\ UNCHANGED <<phase, built, config>> /\ UNCHANGED Messaging /\ UNCHANGED Quiet

StartTerminal ==
  /\ phase = "start" /\ at <= Len(Startables)
  /\ phase' = "drain" /\ at' = Len(Drainables)
  /\ UNCHANGED <<built, config, up, accepting>> /\ UNCHANGED Messaging /\ UNCHANGED Quiet

\* The PostStartables come last; the ticker's PostStart launches its goroutine.
Started ==
  /\ phase = "start" /\ at > Len(Startables)
  /\ phase' = "run" /\ at' = 0 /\ up' = up \cup {"ticker"}
  /\ UNCHANGED <<built, config, accepting>> /\ UNCHANGED Messaging /\ UNCHANGED Quiet

Signal ==
  /\ phase = "run" /\ phase' = "drain" /\ at' = Len(Drainables)
  /\ UNCHANGED <<built, config, up, accepting>> /\ UNCHANGED Messaging /\ UNCHANGED Quiet

-----------------------------------------------------------------------------
(* shutdown.                                                               *)

\* drain: each in reverse order under one budget; one that outlasts it is
\* reported, and its poll loop may still be running.
DrainOne ==
  /\ phase = "drain" /\ at >= 1
  /\ at' = at - 1
  /\ \/ accepting' = accepting \ {Drainables[at]} /\ UNCHANGED warned
     \/ UNCHANGED accepting /\ warned' = TRUE
  /\ UNCHANGED <<phase, built, config, up, readings, sum, late, closer>> /\ UNCHANGED Messaging

Drained ==
  /\ phase = "drain" /\ at = 0
  /\ phase' = "prestop" /\ at' = Len(PreStoppables)
  /\ UNCHANGED <<built, config, up, accepting>> /\ UNCHANGED Messaging /\ UNCHANGED Quiet

\* PreStop runs the shutdown trigger's action inline, under no budget; the
\* action sends to the bus or fails, and its errors stay inside.
PreStopOne ==
  /\ phase = "prestop" /\ at >= 1 /\ where["farewell"] = "source"
  /\ where' = [where EXCEPT !["farewell"] = "acting"]
  /\ UNCHANGED <<phase, at, built, config, up, accepting, settled, closed>> /\ UNCHANGED Quiet
PreStopReturns ==
  /\ phase = "prestop" /\ at >= 1 /\ where["farewell"] = "acting"
  /\ at' = at - 1 /\ \E w \in {"bus", "done"} : where' = [where EXCEPT !["farewell"] = w]
  /\ UNCHANGED <<phase, built, config, up, accepting, settled, closed>> /\ UNCHANGED Quiet

PreStopped ==
  /\ phase = "prestop" /\ at = 0
  /\ IF InFlight = <<>> THEN phase' = "stop" /\ at' = Len(Stoppables)
                        ELSE phase' = "quiesce" /\ at' = 1
  /\ UNCHANGED <<built, config, up, accepting>> /\ UNCHANGED Messaging /\ UNCHANGED Quiet

\* pendingWork reads the holders one after the other.
PendingWork ==
  /\ phase = "quiesce" /\ at <= Len(InFlight)
  /\ sum' = sum + Pending(InFlight[at]) /\ at' = at + 1
  /\ UNCHANGED <<phase, built, config, up, accepting, readings, late, closer, warned>> /\ UNCHANGED Messaging

ReadingsNeeded == 2

\* One turn of quiesce's loop.
Quiesce ==
  /\ phase = "quiesce" /\ at > Len(InFlight)
  /\ sum' = 0
  /\ \/ /\ sum = 0 /\ readings + 1 >= ReadingsNeeded
        /\ readings' = readings + 1 /\ phase' = "close" /\ at' = 0 /\ UNCHANGED warned
     \/ /\ sum = 0 /\ readings + 1 < ReadingsNeeded
        /\ readings' = readings + 1 /\ at' = 1 /\ UNCHANGED <<phase, warned>>
     \/ /\ sum # 0 /\ ~late
        /\ readings' = 0 /\ at' = 1 /\ UNCHANGED <<phase, warned>>
     \/ /\ sum # 0 /\ late
        /\ readings' = 0 /\ phase' = "close" /\ at' = 0 /\ warned' = TRUE
  /\ closer' = IF phase' = "close" THEN Len(InFlight) ELSE closer
  /\ UNCHANGED <<built, config, up, accepting, late>> /\ UNCHANGED Messaging

\* The budget is one for quiesce and closeQueues together.
Deadline ==
  /\ phase \in {"quiesce", "close"} /\ ~late /\ late' = TRUE
  /\ UNCHANGED <<phase, at, built, config, up, accepting, readings, sum, closer, warned>> /\ UNCHANGED Messaging

\* closeQueues' goroutine.  Close refuses what arrives next, finishes what
\* the queue holds and waits for the message its worker is running; a holder
\* without a Close is skipped.
QueueOf(h) == IF h.name = "subq" THEN "subq" ELSE "rq"
CloseStep ==
  /\ closer > 0
  /\ LET h == InFlight[closer] IN
       IF h.closes
         THEN \/ /\ QueueOf(h) \notin closed /\ closed' = closed \cup {QueueOf(h)} /\ UNCHANGED closer
              \/ /\ QueueOf(h) \in closed /\ UNCHANGED closed
                 /\ \A m \in Messages : where[m] \notin {QueueOf(h), Running(QueueOf(h))}
                 /\ closer' = closer - 1
         ELSE closer' = closer - 1 /\ UNCHANGED closed
  /\ UNCHANGED <<phase, at, built, config, up, accepting, where, settled, readings, sum, late, warned>>

(* Broken form: the goroutine is started and not waited for. *)
CloseQueuesAsync ==
  /\ phase = "close"
  /\ phase' = "stop" /\ at' = Len(Stoppables)
  /\ UNCHANGED <<built, config, up, accepting, readings, sum, late, closer, warned>> /\ UNCHANGED Messaging

(* Broken form: closing has no budget of its own. *)
CloseQueuesUnbounded ==
  /\ phase = "close" /\ closer = 0
  /\ phase' = "stop" /\ at' = Len(Stoppables)
  /\ UNCHANGED <<built, config, up, accepting, readings, sum, late, closer, warned>> /\ UNCHANGED Messaging

\* closeQueues returns when the goroutine is done or the budget is.
CloseQueues ==
  /\ phase = "close"
  /\ \/ closer = 0 /\ UNCHANGED warned
     \/ closer > 0 /\ late /\ warned' = TRUE
  /\ phase' = "stop" /\ at' = Len(Stoppables)
  /\ UNCHANGED <<built, config, up, accepting, readings, sum, late, closer>> /\ UNCHANGED Messaging

\* Stop returns; the ticker's only once its goroutine is out of the action.
StopOne ==
  /\ phase = "stop" /\ at >= 1
  /\ Stoppables[at] = "ticker" => where["tick"] # "acting"
  /\ at' = at - 1
  /\ up' = up \ {Stoppables[at]} /\ accepting' = accepting \ {Stoppables[at]}
  /\ UNCHANGED <<phase, built, config>> /\ UNCHANGED Messaging /\ UNCHANGED Quiet

Exit ==
  /\ phase = "stop" /\ at = 0
  /\ phase' = "exited"
  /\ UNCHANGED <<at, built, config, up, accepting>> /\ UNCHANGED Messaging /\ UNCHANGED Quiet

-----------------------------------------------------------------------------
Init ==
  /\ phase = "build" /\ at = 0 /\ built = 0
  /\ config = [Startables |-> <<>>, Drainables |-> <<>>, InFlight |-> <<>>,
               PreStoppables |-> <<>>, Stoppables |-> <<>>]
  /\ up = {} /\ accepting = {}
  /\ where = [m \in Messages |-> "source"]
  /\ settled = [m \in Rcv |-> "no"]
  /\ closed = {} /\ readings = 0 /\ sum = 0 /\ late = FALSE /\ closer = 0 /\ warned = FALSE

Main ==
  \/ ProcessBlock \/ BuildFailed \/ Built \/ Discard
  \/ StartOne \/ StartTerminal \/ Started \/ Signal
  \/ DrainOne \/ Drained \/ PreStopOne \/ PreStopped
  \/ PendingWork \/ Quiesce \/ CloseQueues \/ StopOne \/ Exit

\* Once the process has exited nothing runs.
Alive == phase \notin {"exited", "discarded"}

Next == /\ Alive
        /\ Main \/ PreStopReturns \/ Deadline \/ CloseStep \/ TickBegins \/ TickEnds
           \/ \E m \in Messages : Receive(m) \/ Work(m)

Spec == Init /\ [][Next]_vars

\* The main goroutine and the clock go on; what runs an action does unless the
\* action is stuck.
Fairness ==
  /\ WF_vars(Alive /\ Main) /\ WF_vars(Alive /\ Deadline) /\ WF_vars(Alive /\ CloseStep)
  /\ ~Stuck => /\ WF_vars(Alive /\ \E m \in Messages : Work(m))
               /\ WF_vars(Alive /\ PreStopReturns) /\ WF_vars(Alive /\ TickEnds)
FairSpec == Spec /\ Fairness

-----------------------------------------------------------------------------
(* Properties.                                                             *)

\* An acknowledgement meets a closed transport, and a delivery a closed
\* queue, only when the log said that shutdown was going ahead with work
\* unfinished: while every receiver drained, what the pipeline carries is
\* counted until it is settled (quiesce, the receivers' InFlightHolder).
RefusedOnlyWarned ==
  \A m \in Rcv : settled[m] \in {"nacked", "refused"} => warned

\* When the transports begin to stop, no queue still holds or runs a message
\* it accepted, unless the log says so (closeQueues).
QueuesEmptyAtStop ==
  phase \in {"stop", "exited"} /\ ~warned =>
    \A m \in Messages : where[m] \notin {"rq", "rq running", "subq", "subq running"}

\* A terminal failure half-way through startAll, or a failed build, leaves no
\* transport, no trigger's goroutine or action and, after Discard, no bus running.
NothingLeftRunning ==
  /\ phase = "exited" => up \cap (Rcv \cup {"plain", "ticker"}) = {} /\ where["tick"] # "acting"
  /\ phase = "discarded" => up \subseteq Queues

\* Shutdown ends, whatever is never settled and whichever queue's or bus's
\* action never returns; two actions alone can hold it for ever, because the
\* main goroutine waits for them with no budget: the shutdown trigger's own, and
\* one that the Stop of an interval or watchdog trigger finds running.
ShuttingDown == phase = "drain"
Exited == phase = "exited"
Held == \/ phase = "prestop" /\ where["farewell"] = "acting"
        \/ phase = "stop" /\ at >= 1 /\ Stoppables[at] = "ticker" /\ where["tick"] = "acting"
ShutdownEnds == (ShuttingDown ~> Exited) \/ <>[]Held

\* What cmd/serve.go says of a message two empty readings missed: it is
\* refused and redelivered rather than lost.  A message without a broker
\* behind it has nobody to redeliver it.
SlipIsRedelivered ==
  phase = "exited" /\ ~warned =>
    \A m \in Messages : where[m] \notin {"source", "done"} => m \in Rcv
=============================================================================
