--------------------------- MODULE Subscriptions ---------------------------
(***************************************************************************)
(* A bus, the subscriptions on it and their partitioned queues             *)
(* (config/bus.go, config/subs.go, config/partition.go).                   *)
(*                                                                         *)
(* The blocks are processed in order; then messages are sent to the bus,   *)
(* whose one goroutine hands each to the subscriptions that match it: a    *)
(* subscription without queue_size does the work in that call, one with it *)
(* queues the message in the partition of its key and a worker per         *)
(* partition does the work.  The bus and the queue are libraries, modelled *)
(* from how this code uses them; which partition a key hashes to is any    *)
(* function of the key.                                                    *)
(***************************************************************************)
EXTENDS Naturals, Sequences, FiniteSets, FiniteSetsExt

CONSTANTS Configs,     \* [bus, subs]: bus is [ok, queue, undeliverable, null]; a sub is [name,
                       \*   disabled, ok, queue, partitions, key, topics], 0 for no queue
          Messages,    \* [topic, field, value, payload]
          Hashes,      \* the functions from keys to partitions that are tried
          MaxSends,    \* messages sent
          MaxBusDrops  \* messages the bus drops

VARIABLES cfg, phase,
          built,       \* how many subscription blocks have been processed
          handles,     \* the names bound under `subscription`
          subscribed,  \* the subscriptions on the bus
          hash,        \* the partition of each key
          sent,        \* every message put to the bus, in order
          busq,        \* the bus's queue: positions in sent
          current,     \* the message the bus hands on: [id, todo]
          queues,      \* queues[s][p]
          working,     \* working[s][p]: the message the worker has, 0 for none
          ended,       \* ended[s]: the messages whose work is done, in order
          dropped,     \* dropped[s]: the queue's count
          busDropped, undelivered

vars == <<cfg, phase, built, handles, subscribed, hash, sent, busq, current, queues, working,
          ended, dropped, busDropped, undelivered>>

Subs == 1..Len(cfg.subs)
Parts(s) == 1..cfg.subs[s].partitions
MaxParts == 2
Nothing == [id |-> 0, todo |-> {}]

(***************************************************************************)
(* Building.                                                               *)
(***************************************************************************)
Init ==
    /\ cfg \in Configs
    /\ phase = "bus" /\ built = 0 /\ handles = {} /\ subscribed = {}
    /\ hash \in Hashes
    /\ sent = << >> /\ busq = << >> /\ current = Nothing
    /\ queues = [s \in Subs |-> [p \in Parts(s) |-> << >>]]
    /\ working = [s \in Subs |-> [p \in Parts(s) |-> 0]]
    /\ ended = [s \in Subs |-> << >>]
    /\ dropped = [s \in Subs |-> 0] /\ busDropped = 0 /\ undelivered = 0

Quiet == UNCHANGED <<cfg, hash, sent, busq, current, queues, working, ended, dropped,
                     busDropped, undelivered>>

\* BuildEventBus: the metrics and tracing backends, the queue, Start.
BuildEventBus ==
    /\ phase = "bus"
    /\ phase' = IF cfg.bus.ok THEN "subs" ELSE "refused"
    /\ Quiet /\ UNCHANGED <<built, handles, subscribed>>

\* The subscription's source resolves: partitions need a queue, a key needs
\* partitions, and at least one partition.
SourceOK(b) ==
    /\ b.ok
    /\ b.partitions # 1 => b.queue > 0 /\ b.partitions >= 1
    /\ b.key # "none" => b.queue > 0

\* One subscription block: a disabled one does nothing, a second of one name
\* is refused, and the handle is bound before the target is looked up.
Process ==
    /\ phase = "subs" /\ built < Len(cfg.subs)
    /\ LET s == built + 1
           b == cfg.subs[s]
           refused == ~b.disabled /\ (b.name \in handles \/ ~SourceOK(b) \/ cfg.bus.null)
       IN  /\ phase' = IF refused THEN "refused" ELSE phase
           /\ handles' = IF b.disabled \/ ~SourceOK(b) THEN handles ELSE handles \cup {b.name}
           /\ subscribed' = IF b.disabled \/ refused THEN subscribed ELSE subscribed \cup {s}
    /\ built' = built + 1
    /\ Quiet

Serve ==
    /\ phase = "subs" /\ built = Len(cfg.subs)
    /\ phase' = "running"
    /\ Quiet /\ UNCHANGED <<built, handles, subscribed>>

(***************************************************************************)
(* The partition key.                                                      *)
(***************************************************************************)
\* Broken form: a null key falls back to the topic.
KeyNullFallsBack(key, m) ==
    CASE key \in {"none", "topic"} -> m.topic
      [] key = "field" -> IF m.field # "" THEN m.field ELSE m.topic
      [] OTHER -> IF m.value \in {"null", "list", "fails"} THEN m.topic ELSE m.value

\* A key that cannot be had (no such field, a payload that does not convert,
\* an expression that fails, a value that is no string, number or boolean)
\* falls back to the topic; a null one is the empty key.
PartitionKey(key, m) ==
    CASE key \in {"none", "topic"} -> m.topic
      [] key = "field" -> IF m.field # "" THEN m.field ELSE m.topic
      [] OTHER -> IF (key = "msg" /\ ~m.payload) \/ m.value \in {"list", "fails"} THEN m.topic
                  ELSE IF m.value = "null" THEN "" ELSE m.value

\* partition_key = null asks for no order at all.
Unordered(s) == cfg.subs[s].key = "null"

PartsFor(s, m) ==
    IF Unordered(s) \/ cfg.subs[s].partitions = 1 THEN Parts(s)
    ELSE {hash[PartitionKey(cfg.subs[s].key, m)]}

(***************************************************************************)
(* What get(subscription.x, member) reads.                                 *)
(***************************************************************************)
QueueDepth(s) == Len(queues[s][1]) + IF cfg.subs[s].partitions = 2 THEN Len(queues[s][2]) ELSE 0
MaxQueueDepth(s) == Max({Len(queues[s][p]) : p \in Parts(s)})
QueueCapacity(s) == cfg.subs[s].queue * cfg.subs[s].partitions

\* Broken form: the pressure is the mean over the partitions.
RatioOfTotal(s) == [num |-> QueueDepth(s), den |-> QueueCapacity(s)]

\* The fullest partition against one partition's capacity.
QueueRatio(s) == [num |-> MaxQueueDepth(s), den |-> QueueCapacity(s) \div cfg.subs[s].partitions]

QueueSkew(s) == IF QueueDepth(s) = 0 THEN [num |-> 1, den |-> 1]
                ELSE [num |-> MaxQueueDepth(s) * cfg.subs[s].partitions, den |-> QueueDepth(s)]

(***************************************************************************)
(* Sending and delivering.                                                 *)
(***************************************************************************)
Fixed == UNCHANGED <<cfg, phase, built, handles, subscribed, hash>>

\* send() to the bus: a full queue drops the message and counts it.
Send(m) ==
    /\ phase = "running" /\ Len(sent) < MaxSends
    /\ IF Len(busq) < cfg.bus.queue
       THEN sent' = Append(sent, m) /\ busq' = Append(busq, Len(sent) + 1) /\ UNCHANGED busDropped
       ELSE busDropped' = busDropped + 1 /\ busDropped < MaxBusDrops /\ UNCHANGED <<sent, busq>>
    /\ Fixed /\ UNCHANGED <<current, queues, working, ended, dropped, undelivered>>

Matching(m) == {s \in subscribed : m.topic \in cfg.subs[s].topics}

\* Broken form: an unhandled $undeliverable is republished again.
RepublishesAll(m) == cfg.bus.undeliverable

\* An unmatched message is republished unless its topic is reserved.
Republishes(m) == cfg.bus.undeliverable /\ m.topic # "$undeliverable"

BusTakes ==
    /\ busq # << >> /\ current = Nothing
    /\ LET id == Head(busq)
           m == sent[id]
       IN  IF Matching(m) # {}
           THEN /\ current' = [id |-> id, todo |-> Matching(m)] /\ busq' = Tail(busq)
                /\ UNCHANGED <<sent, undelivered>>
           ELSE /\ undelivered' = undelivered + 1
                /\ IF Republishes(m)
                   THEN /\ sent' = Append(sent, [m EXCEPT !.topic = "$undeliverable"])
                        /\ busq' = Append(Tail(busq), Len(sent) + 1)
                   ELSE busq' = Tail(busq) /\ UNCHANGED sent
                /\ UNCHANGED current
    /\ Fixed /\ UNCHANGED <<queues, working, ended, dropped, busDropped>>

HandedOn(s) == LET left == current.todo \ {s}
               IN  current' = IF left = {} THEN Nothing ELSE [current EXCEPT !.todo = left]

\* Broken form: a full partition discards the message without counting it.
DroppedSilently(s) == 0

DroppedOne(s) == 1

\* A queued subscription: the partition of the key, or dropped when it is full.
Enqueue(s, p) ==
    /\ current # Nothing /\ s \in current.todo /\ cfg.subs[s].queue > 0
    /\ p \in PartsFor(s, sent[current.id])
    /\ IF Len(queues[s][p]) < cfg.subs[s].queue
       THEN queues' = [queues EXCEPT ![s][p] = Append(@, current.id)] /\ UNCHANGED dropped
       ELSE dropped' = [dropped EXCEPT ![s] = @ + DroppedOne(s)] /\ UNCHANGED queues
    /\ HandedOn(s)
    /\ Fixed /\ UNCHANGED <<sent, busq, working, ended, busDropped, undelivered>>

\* Without a queue the action runs in the bus's own goroutine.
OnEvent(s) ==
    /\ current # Nothing /\ s \in current.todo /\ cfg.subs[s].queue = 0
    /\ ended' = [ended EXCEPT ![s] = Append(@, current.id)]
    /\ HandedOn(s)
    /\ Fixed /\ UNCHANGED <<sent, busq, queues, working, dropped, busDropped, undelivered>>

WorkerTakes(s, p) ==
    /\ working[s][p] = 0 /\ queues[s][p] # << >>
    /\ working' = [working EXCEPT ![s][p] = Head(queues[s][p])]
    /\ queues' = [queues EXCEPT ![s][p] = Tail(@)]
    /\ Fixed /\ UNCHANGED <<sent, busq, current, ended, dropped, busDropped, undelivered>>

WorkerEnds(s, p) ==
    /\ working[s][p] # 0
    /\ ended' = [ended EXCEPT ![s] = Append(@, working[s][p])]
    /\ working' = [working EXCEPT ![s][p] = 0]
    /\ Fixed /\ UNCHANGED <<sent, busq, current, queues, dropped, busDropped, undelivered>>

Idle == /\ phase = "refused" \/ (phase = "running" /\ Len(sent) >= MaxSends)
        /\ busq = << >> /\ current = Nothing
        /\ \A s \in Subs, p \in 1..MaxParts : p \in Parts(s) => queues[s][p] = << >> /\ working[s][p] = 0

Next ==
    \/ BuildEventBus \/ Process \/ Serve \/ BusTakes
    \/ \E m \in Messages : Send(m)
    \/ \E s \in Subs :
          \/ OnEvent(s)
          \/ \E p \in Parts(s) : Enqueue(s, p) \/ WorkerTakes(s, p) \/ WorkerEnds(s, p)
    \/ Idle /\ UNCHANGED vars

Spec == Init /\ [][Next]_vars

-----------------------------------------------------------------------------
TypeOK ==
    /\ phase \in {"bus", "subs", "running", "refused"}
    /\ built \in 0..Len(cfg.subs) /\ subscribed \subseteq Subs
    /\ Len(busq) <= cfg.bus.queue + 1
    /\ \A s \in Subs, p \in 1..MaxParts : p \in Parts(s) => Len(queues[s][p]) <= cfg.subs[s].queue

\* The key partition.go promises for a message: what the expression gives,
\* the empty key for null, the topic when it gives nothing usable.
Promised(s, m) ==
    LET k == cfg.subs[s].key
    IN  IF k \in {"expr", "msg"} /\ m.value = "null" /\ (k = "expr" \/ m.payload) THEN ""
        ELSE IF k = "field" /\ m.field # "" THEN m.field
        ELSE IF k \in {"expr", "msg"} /\ m.value \notin {"list", "fails"} /\ (k = "expr" \/ m.payload)
             THEN m.value ELSE m.topic

\* Work on messages of one key is done in the order they were sent and never
\* two at a time, whatever partitions run beside it (partition.go:118-190).
KeyOrder ==
    \A s \in Subs : ~Unordered(s) =>
       \A i, j \in 1..Len(ended[s]) :
          i < j /\ Promised(s, sent[ended[s][i]]) = Promised(s, sent[ended[s][j]])
             => ended[s][i] < ended[s][j]

\* Every message the bus handed to a queue is waiting, being worked on, done
\* or counted as dropped (subs.go:390, bus.go:111).
CountsTrue ==
    \A s \in subscribed :
       Cardinality({i \in 1..Len(sent) : /\ sent[i].topic \in cfg.subs[s].topics
                                         /\ \A k \in 1..Len(busq) : busq[k] # i
                                         /\ ~(current.id = i /\ s \in current.todo)})
         = QueueDepth(s) + Cardinality({p \in Parts(s) : working[s][p] # 0})
           + Len(ended[s]) + dropped[s]

\* The fullest partition holds between the mean and all of what is queued, so
\* queue_skew lies between 1 and the number of partitions (subs.go:353-357).
SkewInRange ==
    \A s \in subscribed :
       LET k == QueueSkew(s) IN k.den <= k.num /\ k.num <= k.den * cfg.subs[s].partitions

\* Of every step: a message is dropped only while queue_ratio reads 1: the member a
\* configuration watches for pressure sees it wherever it is (subs.go:376-388).
PressureSeen ==
    \A s \in Subs : dropped'[s] # dropped[s] => QueueRatio(s).num = QueueRatio(s).den

\* A message is republished as undeliverable at most once (bus.go:257-260).
NoUndeliverableLoop ==
    Cardinality({i \in 1..Len(sent) : sent[i].topic = "$undeliverable"})
       <= Cardinality({i \in 1..Len(sent) : sent[i].topic # "$undeliverable"})
=============================================================================
