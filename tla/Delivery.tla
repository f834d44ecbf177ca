------------------------------ MODULE Delivery ------------------------------
(***************************************************************************)
(* One message from an acknowledging transport, on its way through the     *)
(* subscribers a receiver block builds: the baggage filter, the            *)
(* settle_timeout wrapper, the async queue, transforms, and at the end an  *)
(* action, a bus with a subscription behind it, or a client's producers    *)
(* (config/subs.go, config/settle.go, config/ack.go, functions/inbound.go).*)
(*                                                                         *)
(* A settle point (the receiver, a queue's worker, a bus) hands the        *)
(* message on and, under ack = "auto", settles the delivery when that call *)
(* returns, unless the chain in front of it defers the work.  The deadline *)
(* and the configuration settle concurrently.  The settler itself, the     *)
(* queue, the bus and the producers are libraries; they are modelled from  *)
(* how this code uses them.                                                *)
(***************************************************************************)
EXTENDS Integers, Sequences, FiniteSets, FiniteSetsExt

CONSTANTS AckValues,       \* the `ack` attribute as written; "" is omitted
          Extra,           \* the mode a receiver adds: "periodic", "none" or ""
          TimeoutValues,   \* settle_timeout as written; see below
          Targets          \* what the receiver's subscriber may be

\* settle_timeout is "" (omitted), "bad" (does not parse), "-1", "0" or "5".

VARIABLES policy,    \* the AckPolicy the receiver was given
          chain,     \* the subscribers, outermost first
          point,     \* per settle point: where its delivery stands
          work,      \* "todo", "ok" or "failed": the work the message asks for
          outcome,   \* the settler: "open", "acked", "nacked" or "lapsed"
          by,        \* who settled it
          timer,     \* the deadline's timer
          logs,      \* the deadline's log lines
          told       \* what the last settle call told the action

vars == <<policy, chain, point, work, outcome, by, timer, logs, told>>

-----------------------------------------------------------------------------
(* The policy: ResolveAck.                                                 *)

Refused == [mode |-> "refused", timeout |-> 0]
ParseDuration(t) == CASE t = "5" -> 5 [] t = "0" -> 0 [] OTHER -> -1

(* Broken form. *)
ResolveAckNoBound(ack, timeout) ==
  [mode |-> IF ack = "" THEN "auto" ELSE ack, timeout |-> IF timeout = "" THEN 0 ELSE ParseDuration(timeout)]

ResolveAck(ack, timeout) ==
  LET mode == IF ack = "" THEN "auto" ELSE ack
      allowed == IF timeout = "" THEN mode # "manual"
                 ELSE /\ mode \in {"auto", "manual"}
                      /\ timeout # "bad" /\ ParseDuration(timeout) > 0
  IN  IF mode \in {"auto", "manual", Extra} /\ allowed
        THEN [mode |-> mode, timeout |-> IF timeout = "" THEN 0 ELSE ParseDuration(timeout)]
        ELSE Refused

-----------------------------------------------------------------------------
(* The chain: ResolveQueue, inside the wrappers every receiver adds.       *)

\* SubscriberSource: exactly one of subscriber and action; a queue, and
\* partitions only over a queue, a partition_key only over partitions.
Sources == [action : BOOLEAN, target : Targets \cup {"unset"}, transforms : BOOLEAN,
            queue : BOOLEAN, partitions : {-1, 0, 1, 2}, key : BOOLEAN]
NoPartitions == -1

ResolveQueueOK(s) ==
  /\ s.action # (s.target # "unset")
  /\ s.partitions # NoPartitions => s.queue
  /\ s.key => s.partitions # NoPartitions
  /\ s.partitions # NoPartitions => s.partitions >= 1

\* What the subscriber expression evaluates to, and what stands behind it.
GetSubscriberFromExpression(t) ==
  CASE t = "bus"   -> <<"handle", "bus", "action">>
    [] t = "busq"  -> <<"handle", "bus", "queue", "action">>
    [] t = "sync"  -> <<"producers">>
    [] t = "async" -> <<"deferring producers">>
    [] t = "proxy" -> <<"proxy", "async producer">>

ResolveQueue(s) ==
  (IF s.queue THEN <<"queue">> ELSE <<>>)
  \o (IF s.transforms THEN <<"transform">> ELSE <<>>)
  \o (IF s.action THEN <<"action">> ELSE GetSubscriberFromExpression(s.target))

NewSettleTimeoutSubscriber(p, inner) ==
  IF p.timeout <= 0 THEN inner ELSE <<"settle">> \o inner

NewBaggageFilterSubscriber(inner) == <<"baggage">> \o inner

-----------------------------------------------------------------------------
(* What a delivery's return means: DispositionOf, over the Unwrap and      *)
(* DeliveryDisposition methods of this repository's subscribers.           *)

(* Broken form: a wrapper without an Unwrap method. *)
NoUnwrap == {}

SettleUnwrap == {"settle"}
BaggageUnwrap == {"baggage"}
HandleUnwrap  == {"handle"}
ProxyUnwrap   == {"proxy"}
(* Broken form: the client does not report a producer's deferral. *)
NeverDeferred(s) == "handled"

DeliveryDisposition(s) == IF s = "deferring producers" THEN "deferred" ELSE "handled"

Unwraps(s) == s \in SettleUnwrap \cup BaggageUnwrap \cup HandleUnwrap \cup ProxyUnwrap \cup {"transform"}
\* The library's queue, bus and asynchronous producer report themselves deferred.
Defers(s) == s \in {"queue", "bus", "async producer"} \/ DeliveryDisposition(s) = "deferred"

DispositionOf(i) ==
  LET end == Min({j \in i..Len(chain) : j = Len(chain) \/ ~Unwraps(chain[j])})
  IN  IF Defers(chain[end]) THEN "deferred" ELSE "handled"

\* Where a delivery handed on at i stops: the next subscriber that takes the
\* message over, or the end.
TakesOver(s) == s \in {"queue", "bus", "async producer", "deferring producers"}
NextStop(i) == Min({j \in (i + 1)..Len(chain) : TakesOver(chain[j]) \/ j = Len(chain)})

Points == {0} \cup {j \in 1..Len(chain) : TakesOver(chain[j])}

\* A settle point past the settle_timeout wrapper holds the deadline's settler.
Bounded(i) == \E j \in 1..i : chain[j] = "settle"

-----------------------------------------------------------------------------
(* The settler underneath, with the broker behind it.                      *)

\* One call: it settles, is too late, fails at the broker, or is stale.
Attempt(how, who, result) ==
  CASE outcome = "open" ->
         \/ result = "settled" /\ outcome' = how /\ by' = who
         \/ result = "error" /\ UNCHANGED <<outcome, by>>
    [] outcome = "lapsed" -> result = "stale" /\ UNCHANGED <<outcome, by>>
    [] OTHER -> result = "late" /\ UNCHANGED <<outcome, by>>

Results == {"settled", "error", "stale", "late"}

Lapse == /\ outcome = "open" /\ outcome' = "lapsed"
         /\ UNCHANGED <<policy, chain, point, work, by, timer, logs, told>>

-----------------------------------------------------------------------------
(* The deadline: settleTimeoutSubscriber and deadlineSettler.              *)

(* Broken form: any answered call stops the clock. *)
SettledAlways(result) == IF timer = "armed" THEN "stopped" ELSE timer

(* Broken form: only a call that failed leaves the clock running. *)
SettledWithoutError(result) == IF result # "error" /\ timer = "armed" THEN "stopped" ELSE timer

\* deadlineSettler.settled: only a call that settled stops the clock, and
\* stopping a timer that has fired does nothing.
Settled(result) == IF result = "settled" /\ timer = "armed" THEN "stopped" ELSE timer

Fire == /\ timer = "armed" /\ timer' = "fired"
        /\ UNCHANGED <<policy, chain, point, work, outcome, by, logs, told>>

(* Broken form: a nack that lost the race is reported as well. *)
ExpireLogAll(result) == IF result \in {"error", "stale"} THEN {"error"} ELSE {"warn"}

\* expire: the nack, and whether it is worth a line.
ExpireLog(result) ==
  CASE result = "late" -> {}
    [] result \in {"error", "stale"} -> {"error"}
    [] OTHER -> {"warn"}

Expire == /\ timer = "fired" /\ timer' = "done"
          /\ \E r \in Results : Attempt("nacked", "deadline", r) /\ logs' = logs \cup ExpireLog(r)
          /\ UNCHANGED <<policy, chain, point, work, told>>

-----------------------------------------------------------------------------
(* The hops.                                                               *)

\* A settle point hands the message on.  Passing the settle_timeout wrapper
\* arms the timer before the delivery, not after.
Deliver(i) ==
  LET n == NextStop(i)
  IN  /\ point[i] = "waiting"
      /\ timer' = IF timer = "unarmed" /\ \E j \in (i + 1)..n : chain[j] = "settle"
                    THEN "armed" ELSE timer
      /\ IF TakesOver(chain[n]) /\ n # i
           THEN point' = [point EXCEPT ![i] = "nil", ![n] = "waiting"]
           ELSE point' = [point EXCEPT ![i] = "acting"]
      /\ UNCHANGED <<policy, chain, work, outcome, by, logs, told>>

\* The last element, when it takes the message over, does the work itself.
Produce(i) ==
  /\ i = Len(chain) /\ point[i] = "waiting"
  /\ point' = [point EXCEPT ![i] = "acting"]
  /\ UNCHANGED <<policy, chain, work, outcome, by, timer, logs, told>>

\* inbound::ack, inbound::nack: settleResult hides a stale token from the
\* action, and a broker's error fails it.
SettleResult(result) ==
  CASE result = "stale" -> "false" [] result = "error" -> "fails"
    [] result = "settled" -> "true" [] OTHER -> "false"

InboundSettle(i, how) ==
  /\ point[i] = "acting" /\ chain[Len(chain)] = "action" /\ told # "fails"
  /\ \E r \in Results :
       /\ Attempt(how, "config", r)
       /\ told' = SettleResult(r)
       /\ timer' = IF Bounded(Len(chain)) THEN Settled(r) ELSE timer
  /\ UNCHANGED <<policy, chain, point, work, logs>>

InboundAck(i) == InboundSettle(i, "acked")
InboundNack(i) == InboundSettle(i, "nacked")

\* The action or the producer returns.  A failed settle call is its failure.
Return(i, ok) ==
  /\ point[i] = "acting" /\ (told = "fails" => ~ok)
  /\ work' = IF ok THEN "ok" ELSE "failed"
  /\ point' = [point EXCEPT ![i] = IF ok THEN "nil" ELSE "err"]
  /\ UNCHANGED <<policy, chain, outcome, by, timer, logs, told>>

\* The settle point's turn, after its delivery returned: under auto it
\* settles unless the chain in front of it has deferred the work.
SettleOnReturn(i) ==
  /\ point[i] \in {"nil", "err"}
  /\ point' = [point EXCEPT ![i] = "done"]
  /\ IF /\ policy.mode = "auto"
        /\ point[i] = "err" \/ i = Len(chain) \/ DispositionOf(i + 1) = "handled"
       THEN \E r \in Results :
              /\ Attempt(IF point[i] = "nil" THEN "acked" ELSE "nacked", "framework", r)
              /\ timer' = IF Bounded(i) THEN Settled(r) ELSE timer
       ELSE UNCHANGED <<outcome, by, timer>>
  /\ UNCHANGED <<policy, chain, work, logs, told>>

-----------------------------------------------------------------------------
Init ==
  /\ \E a \in AckValues, t \in TimeoutValues : policy = ResolveAck(a, t)
  /\ policy # Refused
  /\ \E s \in Sources :
       /\ ResolveQueueOK(s)
       /\ chain = NewBaggageFilterSubscriber(NewSettleTimeoutSubscriber(policy, ResolveQueue(s)))
  /\ point = [i \in Points |-> IF i = 0 THEN "waiting" ELSE "none"]
  /\ work = "todo" /\ outcome = "open" /\ by = "nobody"
  /\ timer = "unarmed" /\ logs = {} /\ told = "nothing"

Hop(i) ==
  \/ i < Len(chain) /\ Deliver(i)
  \/ Produce(i)
  \/ \E ok \in BOOLEAN : Return(i, ok)
  \/ SettleOnReturn(i)

Next ==
  \/ \E i \in Points : Hop(i) \/ InboundAck(i) \/ InboundNack(i)
  \/ Fire \/ Expire \/ Lapse

Spec == Init /\ [][Next]_vars

\* Workers run, timers fire and their functions run; brokers promise nothing.
Fairness == WF_vars(\E i \in Points : Hop(i)) /\ WF_vars(Fire) /\ WF_vars(Expire)
FairSpec == Spec /\ Fairness

-----------------------------------------------------------------------------
(* Properties.                                                             *)

TypeOK ==
  /\ policy \in [mode : {"auto", "manual", Extra}, timeout : {0, 5}]
  /\ point \in [Points -> {"none", "waiting", "acting", "nil", "err", "done"}]
  /\ work \in {"todo", "ok", "failed"} /\ outcome \in {"open", "acked", "nacked", "lapsed"}
  /\ timer \in {"unarmed", "armed", "stopped", "fired", "done"}
  /\ logs \subseteq {"warn", "error"} /\ told \in {"nothing", "true", "false", "fails"}

\* The deadline as a receiver promises it.
Clock == IF timer = "unarmed" THEN "off" ELSE IF timer \in {"armed", "fired"} THEN "on" ELSE "over"

Promise == INSTANCE SettlePromise WITH clock <- Clock

\* Every path keeps the receiver's promise: the framework settles by the work's
\* result, found behind any chain of wrappers, the configuration within its
\* action, and the clock ends by the settlement it saw or by an expiry that is
\* accounted for (DispositionOf, deadlineSettler.settled, expire).
SettlesAsPromised == Promise!Spec

\* Under auto the framework acknowledges only work that is done: a queue, a
\* bus or an asynchronous producer behind any number of wrappers is never
\* mistaken for a subscriber that handled the message (the Unwrap methods).
NoEarlyAck == by = "framework" /\ outcome = "acked" => work = "ok"

\* The log tells the truth about the race between the deadline and everyone
\* else: it claims a nack exactly when the deadline's nack settled the
\* delivery (expire).
LogTellsTruth == timer = "done" => (("warn" \in logs) <=> (by = "deadline"))

\* A bounded delivery that nobody settled keeps its deadline, whatever calls
\* failed at the broker, until the deadline itself has failed and said so
\* (deadlineSettler.settled).
DeadlineHeld ==
  policy.timeout > 0 /\ outcome = "open" /\ point[0] # "waiting"
    => timer \in {"armed", "fired"} \/ "error" \in logs

\* A message nobody settles does not stay unsettled in silence: with ack =
\* "manual", ResolveAck insists on a bound, and the bound ends in a nack or
\* in an error logged against the receiver.
Manual == policy.mode = "manual"
SettledOrReported == outcome # "open" \/ "error" \in logs
ManualBounded == Manual ~> SettledOrReported
=============================================================================
