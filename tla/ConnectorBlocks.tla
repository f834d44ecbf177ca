--------------------------- MODULE ConnectorBlocks ---------------------------
(***************************************************************************)
(* Processing of one client or server block, up to the fate of the         *)
(* configuration it is in.                                                 *)
(*                                                                         *)
(* Every processor is a list of steps in the order its code takes them.    *)
(* Most steps are checks: passing goes on, failing returns diagnostics     *)
(* there and then.  The others leave something behind: a Startable,        *)
(* Drainable or Stoppable, an InFlight holder, a running queue with the    *)
(* holder that closes it, a connection pool, a telemetry provider.  A      *)
(* refused block, or a later one, makes Build call Discard.                *)
(***************************************************************************)
EXTENDS Naturals, Sequences

CONSTANTS
  Kinds,          \* the processors a run covers
  MaxSenders,     \* bound: sender, producer or publisher blocks inside
  MaxReceivers    \* bound: receiver, consumer or subscriber blocks inside

VARIABLES
  block,   \* kind, what is inside it, whether its receivers have queues
  pc,      \* steps taken
  left,    \* effect -> how often it was left behind
  phase    \* "processing", "refused", "accepted", "built" or "discarded"

vars == <<block, pc, left, phase>>

Effects == {"startable", "drainable", "stoppable", "inflight",
            "queue", "pool", "tracer", "meter", "runtime metrics"}

----------------------------------------------------------------------------
(* The processors.  b is the block.                                        *)

When(cond, steps) == IF cond THEN steps ELSE <<>>
Each(n, steps) == [i \in 1..(n * Len(steps)) |-> steps[((i - 1) % Len(steps)) + 1]]

\* SubscriberSource.ResolveQueue: with queue_size the queue is started and
\* its holder appended as the last thing it does.
Source(b) ==
  <<"subscriber or action", "partitions need a queue", "key needs partitions",
    "subscriber", "transforms">>
  \o When(b.queue, <<"partition count", "partition key", "queue">>)

\* Broken form: the client is left out of the drain phase.
RegisterUndrained(b) == <<"startable", "stoppable">> \o Each(b.receivers, <<"inflight">>)

\* The registration the clients with acknowledging receivers share.
Register(b) ==
  <<"startable">> \o When(b.receivers > 0, <<"drainable">>) \o <<"stoppable">>
  \o Each(b.receivers, <<"inflight">>)

\* tls blocks: BuildTLSClientConfig and BuildTLSServerConfig.
CertPool == <<"ca_cert file", "ca_cert certificates">>
KeyPair == <<"cert and key", "key pair">>
SelfSigned == <<"cert or self_signed", "key", "serial", "certificate", "encoding", "pair">>
TlsClient == CertPool \o KeyPair
TlsServer(b) == (IF b.selfSigned THEN SelfSigned ELSE <<"cert given">> \o KeyPair) \o CertPool

KafkaSasl == <<"password", "password type", "mechanism">>
KafkaAcks == <<"acks", "compression">>
KafkaConnection(b) ==
  <<"renamed", "decode", "brokers", "blocks", "unique senders", "unique receivers">>
  \o TlsClient \o KafkaSasl \o <<"durations">>
  \o When(b.senders > 0, KafkaAcks \o <<"linger">>)
KafkaSender == <<"produce_mode", "topic transform">>
KafkaReceiver(b) ==
  <<"group", "offset", "ack", "baggage">> \o Source(b) \o <<"subscriptions">>
Kafka(b) ==
  KafkaConnection(b) \o Each(b.senders, KafkaSender) \o <<"metrics", "tracing">>
  \o Each(b.receivers, KafkaReceiver(b)) \o <<"wire_format">> \o Register(b)

RabbitBrokers == <<"broker URL", "broker scheme">>
RabbitNames == <<"unique senders", "unique receivers">>
RabbitTls == <<"tls and scheme">> \o TlsClient
RabbitConnection ==
  <<"renamed", "decode", "brokers">> \o RabbitBrokers \o RabbitNames \o RabbitTls
  \o <<"timeouts", "auth", "reconnect", "metrics", "tracing", "wire_format">>
RabbitSender == <<"topic transform">>
RabbitReceiver(b) == <<"ack", "key transform", "baggage">> \o Source(b)
Rabbit(b) ==
  RabbitConnection \o Each(b.senders, RabbitSender)
  \o Each(b.receivers, RabbitReceiver(b)) \o Register(b)

MqttConnection ==
  <<"decode", "brokers", "blocks", "unique senders", "unique receivers",
    "broker URLs", "client_id">> \o TlsClient \o <<"durations", "auth">>
MqttSession ==
  <<"will topic", "will payload", "reconnect", "metrics", "tracing", "wire_format">>
MqttSender == <<"topic transform">>
MqttReceiver(b) == <<"baggage">> \o Source(b) \o <<"subscriptions">>
Mqtt(b) ==
  MqttConnection \o MqttSession \o Each(b.senders, MqttSender)
  \o Each(b.receivers, MqttReceiver(b)) \o <<"startable", "stoppable">>

RedisConsumer(b) ==
  <<"duplicate", "baggage", "ack">> \o Source(b)
  \o <<"stream", "group", "consumer name", "batch", "block_timeout", "group_create",
       "fields_mode", "reclaim", "dead_letter", "inflight">>
RedisProducer == <<"duplicate", "transforms", "maxlen", "fields_mode">>
RedisStream(b) ==
  <<"renamed", "decode", "connection", "blocks", "metrics", "tracing", "wire_format">>
  \o Each(b.senders, RedisProducer) \o Each(b.receivers, RedisConsumer(b))
  \o When(b.receivers > 0, <<"startable", "drainable", "stoppable">>)

RedisSubscriber(b) == <<"duplicate">> \o Source(b) \o <<"subscriptions", "channel">>
RedisPublisher == <<"duplicate", "transforms", "mappings">>
RedisPubsub(b) ==
  <<"decode", "connection", "blocks", "metrics", "tracing", "wire_format">>
  \o Each(b.senders, RedisPublisher) \o Each(b.receivers, RedisSubscriber(b))
  \o When(b.receivers > 0, <<"startable", "stoppable">>)

SqsReceiver(b) ==
  <<"renamed", "decode", "aws", "queue_url", "metrics", "tracing", "baggage", "ack">>
  \o Source(b) \o <<"wire_format", "wait_time", "visibility", "build">> \o Register(b)
SqsSender ==
  <<"decode", "aws", "queue_url", "wire_format", "metrics", "tracing", "build",
    "startable", "stoppable">>
SnsSender ==
  <<"decode", "aws", "wire_format", "metrics", "tracing", "topic", "build",
    "startable", "stoppable">>

\* A mode says which of these it takes.
RedisMode == <<"address", "addresses", "master_name", "database">>
Redis ==
  <<"decode">> \o RedisMode \o TlsClient
  \o <<"passwords", "dial_timeout", "pool", "startable", "stoppable">>
RedisKV == <<"decode", "connection", "wire_format", "ttl", "metrics">>

\* otlp starts its tracer provider before it knows that the metric exporter
\* can be built.
OtlpProviders ==
  TlsClient \o <<"trace exporter", "tracer", "metric exporter", "meter">>
Otlp ==
  <<"decode", "headers", "record_baggage", "metric_interval">> \o OtlpProviders
  \o <<"startable", "stoppable">>

SqlQuery == <<"duplicate", "cardinality", "on_zero", "timeout">>
Sql(b) ==
  <<"decode", "dialect", "durations">> \o Each(b.receivers, SqlQuery) \o <<"startable", "stoppable">>

VwsClient == <<"decode", "duplicate", "dial_timeout", "reconnect">>
OpenAI == <<"decode", "base_url", "tracing", "metrics", "timeout">>
AwsConfig == <<"access key", "secret key", "session token", "endpoint", "load">>
Aws == <<"decode">> \o AwsConfig
HttpRetry ==
  <<"max_attempts", "initial_delay", "max_delay", "backoff_factor", "retry_on">>
Http ==
  <<"decode", "base_url", "headers">> \o TlsClient \o <<"redirects", "timeout">>
  \o HttpRetry
  \o <<"auth lifetime", "auth failures", "auth backoff", "cookies", "tracing", "metrics">>

\* The servers.  A server inside an http server's route has no listener of
\* its own; the websocket servers drain, since an upgraded connection is
\* invisible to the http server's drain.
FilesRoute == <<"pattern", "method", "base directory", "route auth", "mux">>
HandleRoute == <<"action or handler", "route auth", "handler", "mux">>
HttpServer(b) ==
  <<"decode", "auth", "baggage", "duplicate", "tracing", "metrics", "real_ip",
    "shutdown_timeout", "external_url">>
  \o Each(b.senders, FilesRoute) \o Each(b.receivers, HandleRoute)
  \o <<"auth routes", "auth mux", "health">> \o TlsServer(b) \o <<"startable", "drainable">>
MetricsServer(b) ==
  <<"decode">> \o TlsServer(b)
  \o <<"auth", "tracing", "shutdown_timeout", "exporter", "runtime metrics">>
  \o When(b.senders > 0, <<"startable", "drainable">>)
\* mcp collects what is wrong with its parts and refuses once, at the end.
McpParams == <<"param type", "param default", "param enum">>
McpResources == <<"resource action", "resource URI">>
McpTools == <<"tool action">> \o McpParams
McpPrompts == <<"prompt action">> \o McpParams
McpServer ==
  <<"decode">> \o McpResources \o McpTools \o McpPrompts \o <<"tracing", "metrics", "build">>
VwsServer ==
  <<"decode", "duplicate", "baggage", "bus", "ping_interval", "write_timeout",
    "outbound_transforms", "inbound_transforms", "metrics", "build",
    "shutdown_timeout", "drainable">>
WebsocketServer ==
  <<"decode", "duplicate", "bus", "ping_interval", "write_timeout",
    "outbound_transforms", "inbound_transforms", "build", "shutdown_timeout",
    "drainable">>

Steps(b) ==
  CASE b.kind = "kafka"            -> Kafka(b)
    [] b.kind = "rabbitmq"         -> Rabbit(b)
    [] b.kind = "mqtt"             -> Mqtt(b)
    [] b.kind = "redis_stream"     -> RedisStream(b)
    [] b.kind = "redis_pubsub"     -> RedisPubsub(b)
    [] b.kind = "sqs_receiver"     -> SqsReceiver(b)
    [] b.kind = "sqs_sender"       -> SqsSender
    [] b.kind = "sns_sender"       -> SnsSender
    [] b.kind = "redis"            -> Redis
    [] b.kind = "redis_kv"         -> RedisKV
    [] b.kind = "otlp"             -> Otlp
    [] b.kind = "sql"              -> Sql(b)
    [] b.kind = "vws"              -> VwsClient
    [] b.kind = "openai"           -> OpenAI
    [] b.kind = "aws"              -> Aws
    [] b.kind = "http"             -> Http
    [] b.kind = "server http"      -> HttpServer(b)
    [] b.kind = "server metrics"   -> MetricsServer(b)
    [] b.kind = "server mcp"       -> McpServer
    [] b.kind = "server vws"       -> VwsServer
    [] b.kind = "server websocket" -> WebsocketServer

Acknowledging == {"kafka", "rabbitmq", "redis_stream", "sqs_receiver"}
Queueing == Acknowledging \cup {"mqtt", "redis_pubsub"}
Single == {"sqs_receiver"}  \* the block is itself the receiver

Blocks ==
  {b \in [kind : Kinds, senders : 0..MaxSenders, receivers : 0..MaxReceivers,
          queue : BOOLEAN, selfSigned : BOOLEAN] :
     /\ b.selfSigned => b.kind \in {"server http", "server metrics"}
     /\ b.kind \in Single => b.receivers = 1 /\ b.senders = 0
     /\ b.queue => b.kind \in Queueing /\ b.receivers > 0}

----------------------------------------------------------------------------
Init ==
  /\ block \in Blocks
  /\ pc = 1 /\ left = [e \in Effects |-> 0] /\ phase = "processing"

Taking == phase = "processing" /\ pc <= Len(Steps(block))

Pass ==
  /\ Taking
  /\ pc' = pc + 1
  /\ left' = IF Steps(block)[pc] \in Effects
             THEN [left EXCEPT ![Steps(block)[pc]] = @ + 1] ELSE left
  /\ UNCHANGED <<block, phase>>

Refuse ==
  /\ Taking /\ Steps(block)[pc] \notin Effects
  /\ phase' = "refused" /\ UNCHANGED <<block, pc, left>>

Accept ==
  /\ phase = "processing" /\ pc > Len(Steps(block))
  /\ phase' = "accepted" /\ UNCHANGED <<block, pc, left>>

\* The rest of Build succeeds.
Built == phase = "accepted" /\ phase' = "built" /\ UNCHANGED <<block, pc, left>>

\* Broken form: Stoppables are not told.
ReleasesDrainables(l) == [l EXCEPT !["drainable"] = 0, !["startable"] = 0]

\* Discard after a failure, of this block or of a later one: Drainables and
\* Stoppables are told; what only an InFlight holder can close is not.
Released(l) ==
  IF l["stoppable"] = 0 THEN [l EXCEPT !["drainable"] = 0, !["startable"] = 0]
  ELSE [e \in Effects |-> IF e = "queue" THEN l[e] ELSE 0]

Discard ==
  /\ phase \in {"refused", "accepted"}
  /\ phase' = "discarded" /\ left' = Released(left)
  /\ UNCHANGED <<block, pc>>

Next == Pass \/ Refuse \/ Accept \/ Built \/ Discard

Spec == Init /\ [][Next]_vars

----------------------------------------------------------------------------
(* Properties.                                                             *)

TypeOK ==
  /\ block \in Blocks /\ pc \in 1..(Len(Steps(block)) + 1) /\ left \in [Effects -> Nat]
  /\ phase \in {"processing", "refused", "accepted", "built", "discarded"}

\* A refused block is not in the lists serve and Discard walk: it is never
\* started, drained or stopped, whichever check turned it down.
RefusedUnlisted ==
  phase = "refused" =>
    left["startable"] = 0 /\ left["drainable"] = 0 /\ left["stoppable"] = 0

\* Everything in a finished block that shutdown must reach is reachable: what
\* is started can be stopped or drained, a client that holds deliveries it
\* has to acknowledge drains, and quiesce can count every one of its receivers.
Accounted ==
  phase = "built" =>
    /\ left["startable"] > 0 => left["stoppable"] + left["drainable"] > 0
    /\ block.kind \in Acknowledging /\ block.receivers > 0 =>
         /\ left["drainable"] = 1 /\ left["stoppable"] = 1
         /\ left["inflight"] = block.receivers

\* What Discard cannot release: the queues of a block, and the telemetry of
\* one refused half-way; every pool and provider of a finished block is gone.
DiscardReleases ==
  phase = "discarded" =>
    \A e \in Effects \ {"queue"} :
      left[e] > 0 => \/ e = "inflight"
                     \/ pc <= Len(Steps(block)) /\ e = "tracer"
                     \/ block.kind = "server metrics"
=============================================================================
