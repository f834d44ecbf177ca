------------------------------ MODULE Metrics ------------------------------
(***************************************************************************)
(* Metric blocks and the metric values they publish (config/metrics.go,    *)
(* types/metric.go).                                                       *)
(*                                                                         *)
(* The blocks are preprocessed, then processed one after another; an       *)
(* accepted configuration runs.  A metric holds one number per label       *)
(* series and an instrument of the metrics backend that only takes         *)
(* additions: every update changes the number under the metric's mutex and *)
(* adds the difference to the instrument after unlocking, so callers       *)
(* overlap between the two.  A computed metric has a polling goroutine     *)
(* instead of callers.  A name is the sequence of its characters, of which *)
(* only the dot and the underscore matter.                                 *)
(***************************************************************************)
EXTENDS Integers, Sequences, FiniteSets

CONSTANTS Configs,     \* [blocks, backends]: a block is [kind, name, ns, labels, value, interval,
                       \*   server]; a backend is whether it is marked as the default
          Callers,     \* goroutines that call set() and increment()
          MaxValue,    \* values stay within -MaxValue .. MaxValue
          MaxPolls     \* polls of each computed metric

VARIABLES cfg, phase,
          names,       \* the names preprocessing recorded, in order
          done,        \* how many blocks have been processed
          published,   \* the metric object: [key |-> block] pairs
          started,     \* the computed metrics with a Startable
          val,         \* val[m][s]: the number metric m holds for series s
          exported,    \* exported[m][s]: the sum the instrument was given
          call,        \* what each caller is doing
          poll,        \* poll[m]: the polling goroutine
          fault,       \* fault[m]: the failure last logged as an error, "" for none
          told,        \* told[m]: the last line logged above debug level, and how often in a row
          polls

vars == <<cfg, phase, names, done, published, started, val, exported, call, poll, fault, told, polls>>

Series == {"none", "l"}
Blocks == cfg.blocks
Metrics == 1..Len(Blocks)
Idle == [op |-> "idle", m |-> 0, s |-> "none", delta |-> 0]
Quiet == [state |-> "off", value |-> 0]

(***************************************************************************)
(* Building.                                                               *)
(***************************************************************************)
Key(n) == [i \in DOMAIN n |-> IF n[i] = "." THEN "_" ELSE n[i]]
VclKey(b) == IF b.ns = << >> THEN Key(b.name) ELSE Key(b.ns) \o <<"_">> \o Key(b.name)

Init ==
    /\ cfg \in Configs
    /\ phase = "preprocess" /\ names = << >> /\ done = 0
    /\ published = {} /\ started = {}
    /\ val = [m \in Metrics |-> [s \in Series |-> 0]] /\ exported = val
    /\ call = [c \in Callers |-> Idle]
    /\ poll = [m \in Metrics |-> Quiet]
    /\ fault = [m \in Metrics |-> ""]
    /\ told = [m \in Metrics |-> [line |-> "", run |-> 0]]
    /\ polls = [m \in Metrics |-> 0]

Unrun == UNCHANGED <<val, exported, call, poll, fault, told, polls>>

\* A block of an unknown kind or with a name already seen is refused.
Preprocess ==
    /\ phase = "preprocess" /\ Len(names) < Len(Blocks)
    /\ LET b == Blocks[Len(names) + 1]
           bad == \/ b.kind \notin {"gauge", "counter", "histogram"}
                  \/ \E k \in 1..Len(names) : names[k] = b.name
       IN  /\ phase' = IF bad THEN "refused" ELSE phase
           /\ names' = IF bad THEN names ELSE Append(names, b.name)
    /\ UNCHANGED <<cfg, done, published, started>> /\ Unrun

FinishPreprocessing ==
    /\ phase = "preprocess" /\ Len(names) = Len(Blocks)
    /\ phase' = "process"
    /\ UNCHANGED <<cfg, names, done, published, started>> /\ Unrun

\* The only backend, or the only one marked as the default.
Default ==
    LET marked == {k \in 1..Len(cfg.backends) : cfg.backends[k]}
    IN  IF Len(cfg.backends) = 1 THEN {1}
        ELSE IF Cardinality(marked) = 1 THEN marked ELSE {}

\* The meter provider: the server the block names, else the default one.
Provider(b) == IF b.server # 0 THEN {b.server} \cap 1..Len(cfg.backends) ELSE Default

\* Broken form: a key is compared with the names, not with their keys.
CollidesByName(b) == \E k \in 1..Len(names) : names[k] # b.name /\ names[k] = VclKey(b)

\* The block's key is the key of another block's name.
Collides(b) == \E k \in 1..Len(names) : names[k] # b.name /\ Key(names[k]) = VclKey(b)

Valid(b) ==
    /\ Provider(b) # {}
    /\ ~Collides(b)
    /\ ~b.value => b.interval = "unset"
    /\ b.value => ~b.labels
    /\ b.interval # "bad"

Process ==
    /\ phase = "process" /\ done < Len(Blocks)
    /\ LET b == Blocks[done + 1]
       IN  IF Valid(b)
           THEN /\ done' = done + 1 /\ phase' = phase
                /\ published' = {p \in published : p.key # Key(b.name)}
                                \cup {[key |-> Key(b.name), m |-> done + 1]}
                /\ started' = IF b.value THEN started \cup {done + 1} ELSE started
           ELSE phase' = "refused" /\ UNCHANGED <<done, published, started>>
    /\ UNCHANGED <<cfg, names>> /\ Unrun

\* computedMetricStarter.Start of every computed metric: its first poll is
\* due at once.
Start ==
    /\ phase = "process" /\ done = Len(Blocks)
    /\ phase' = "running"
    /\ poll' = [m \in Metrics |-> IF m \in started THEN [Quiet EXCEPT !.state = "due"] ELSE Quiet]
    /\ UNCHANGED <<cfg, names, done, published, started, val, exported, call, fault, told, polls>>

Stop ==
    /\ phase = "running"
    /\ phase' = "stopped"
    /\ UNCHANGED <<cfg, names, done, published, started>> /\ Unrun

(***************************************************************************)
(* set() and increment().                                                  *)
(***************************************************************************)
InRange(v) == v \in (-MaxValue)..MaxValue
Live == phase \in {"running", "stopped"}
Built == UNCHANGED <<cfg, phase, names, done, published, started, poll, fault, told, polls>>

\* The labels given must be the labels declared; none is always accepted.
LabelsFit(m, s) == s = "none" \/ Blocks[m].labels

Plain(m) == Blocks[m].kind \in {"gauge", "counter"} /\ ~Blocks[m].value

\* Broken form: a counter is set to a lower value too.
SettlesAnyValue(m, old, new) == new - old

\* What set() adds: a gauge moves to the value, a counter only up to it.
SetDelta(m, old, new) ==
    IF Blocks[m].kind = "counter" /\ new < old THEN 0 ELSE new - old

\* The critical section: the number changes, the difference is still to add.
Set(c, m, s, v) ==
    /\ Live /\ call[c] = Idle /\ Plain(m) /\ LabelsFit(m, s)
    /\ LET d == SetDelta(m, val[m][s], v)
       IN  /\ val' = [val EXCEPT ![m][s] = @ + d]
           /\ call' = [call EXCEPT ![c] = [op |-> "add", m |-> m, s |-> s, delta |-> d]]
    /\ Built /\ UNCHANGED exported

\* A counter refuses a negative delta.
Increment(c, m, s, d) ==
    /\ Live /\ call[c] = Idle /\ Plain(m) /\ LabelsFit(m, s)
    /\ Blocks[m].kind = "counter" => d >= 0
    /\ InRange(val[m][s] + d)
    /\ val' = [val EXCEPT ![m][s] = @ + d]
    /\ call' = [call EXCEPT ![c] = [op |-> "add", m |-> m, s |-> s, delta |-> d]]
    /\ Built /\ UNCHANGED exported

\* Broken form: the instrument is given the number the metric holds by now.
AddedCurrent(k) == val[k.m][k.s] - exported[k.m][k.s]

\* What the instrument is given once the mutex is released.
Added(k) == k.delta

Add(c) ==
    /\ call[c].op = "add"
    /\ exported' = [exported EXCEPT ![call[c].m][call[c].s] = @ + Added(call[c])]
    /\ call' = [call EXCEPT ![c] = Idle]
    /\ Built /\ UNCHANGED val

\* observe() keeps no number: the histogram is given the sample itself.
Observe(c, m, s, v) ==
    /\ Live /\ call[c] = Idle
    /\ Blocks[m].kind = "histogram" /\ LabelsFit(m, s)
    /\ InRange(exported[m][s] + v)
    /\ exported' = [exported EXCEPT ![m][s] = @ + v]
    /\ Built /\ UNCHANGED <<val, call>>

(***************************************************************************)
(* Computed metrics.                                                       *)
(***************************************************************************)
Polling == UNCHANGED <<cfg, phase, names, done, published, started, call>>
Log(m, line) ==
    told' = [told EXCEPT ![m] = [line |-> line, run |-> IF line = @.line THEN @.run + 1 ELSE 1]]

\* The expression has a value.  A failure before it is logged as recovered.
PollSucceeds(m, v) ==
    /\ poll[m].state = "due"
    /\ Blocks[m].kind = "histogram" => InRange(exported[m]["none"] + v)
    /\ poll' = [poll EXCEPT ![m] = [state |-> "apply", value |-> v]]
    /\ IF fault[m] = "" THEN UNCHANGED told ELSE Log(m, "recovered")
    /\ fault' = [fault EXCEPT ![m] = ""]
    /\ Polling /\ UNCHANGED <<val, exported, polls>>

\* Broken form: every failure is logged as an error.
RepeatNever(m, what) == FALSE

\* The failure is the one already logged.
Repeats(m, what) == what = fault[m]

PollFails(m, what) ==
    /\ poll[m].state = "due"
    /\ IF Repeats(m, what) THEN UNCHANGED <<fault, told>>
       ELSE fault' = [fault EXCEPT ![m] = what] /\ Log(m, what)
    /\ poll' = [poll EXCEPT ![m].state = "waiting"]
    /\ Polling /\ UNCHANGED <<val, exported, polls>>

\* The new value under the mutex, the instrument included.
PollApplies(m) ==
    /\ poll[m].state = "apply"
    /\ LET d == SetDelta(m, val[m]["none"], poll[m].value)
       IN  IF Blocks[m].kind = "histogram"
           THEN exported' = [exported EXCEPT ![m]["none"] = @ + poll[m].value] /\ UNCHANGED val
           ELSE /\ val' = [val EXCEPT ![m]["none"] = @ + d]
                /\ exported' = [exported EXCEPT ![m]["none"] = @ + d]
    /\ poll' = [poll EXCEPT ![m] = [Quiet EXCEPT !.state = "waiting"]]
    /\ Polling /\ UNCHANGED <<fault, told, polls>>

\* The select: the ticker, or the cancelled context; either when both are ready.
Ticks(m) ==
    /\ poll[m].state = "waiting" /\ polls[m] < MaxPolls
    /\ poll' = [poll EXCEPT ![m].state = "due"]
    /\ polls' = [polls EXCEPT ![m] = @ + 1]
    /\ Polling /\ UNCHANGED <<val, exported, fault, told>>

PollingEnds(m) ==
    /\ poll[m].state = "waiting" /\ phase = "stopped"
    /\ poll' = [poll EXCEPT ![m] = Quiet]
    /\ Polling /\ UNCHANGED <<val, exported, fault, told, polls>>

Next ==
    \/ Preprocess \/ FinishPreprocessing \/ Process \/ Start \/ Stop
    \/ \E c \in Callers, m \in Metrics, s \in Series, v \in {-1, 1} :
          Increment(c, m, s, v) \/ Observe(c, m, s, v)
    \/ \E c \in Callers, m \in Metrics, s \in Series, v \in {0, MaxValue} : Set(c, m, s, v)
    \/ \E c \in Callers : Add(c)
    \/ \E m \in Metrics :
          \/ PollApplies(m) \/ Ticks(m) \/ PollingEnds(m)
          \/ \E v \in 0..1 : PollSucceeds(m, v)
          \/ \E what \in {"evaluation", "type"} : PollFails(m, what)
    \/ phase \in {"refused", "stopped"} /\ UNCHANGED vars

Spec == Init /\ [][Next]_vars

-----------------------------------------------------------------------------
TypeOK ==
    /\ phase \in {"preprocess", "process", "running", "stopped", "refused"}
    /\ done \in 0..Len(Blocks) /\ started \subseteq Metrics
    /\ \A m \in Metrics, s \in Series : InRange(val[m][s])
    /\ \A m \in Metrics : poll[m].state \in {"off", "due", "apply", "waiting"}

\* The backend and the metric agree: what the instrument was given, and what
\* the calls between unlocking and adding still owe it, is the number the
\* metric holds (metric.go:186-191, :225-229).
ExportAgrees ==
    \A m \in {k \in Metrics : Blocks[k].kind # "histogram"}, s \in Series :
       LET owed(d) == Cardinality({c \in Callers : call[c].op = "add" /\ call[c].m = m
                                       /\ call[c].s = s /\ call[c].delta = d})
           D == (-2 * MaxValue)..(2 * MaxValue)
           Sum[k \in D] == k * owed(k) + IF k = -2 * MaxValue THEN 0 ELSE Sum[k - 1]
       IN  val[m][s] = exported[m][s] + Sum[2 * MaxValue]

\* Of every step: a counter's instrument never goes down, whatever callers set and however
\* they overlap (metric.go:302, :336, :598).
CountersRise ==
    \A m \in Metrics : Blocks[m].kind = "counter" =>
       \A s \in Series : exported'[m][s] >= exported[m][s]

\* An unbroken run of one failure is logged as an error once, and a recovery
\* once (metric.go:453, :466).
FailuresToldOnce == \A m \in Metrics : told[m].run <= 1

\* Without namespaces, every metric that was accepted is the one its name
\* refers to (metrics.go:499).
NoneHidden ==
    (\A m \in Metrics : Blocks[m].ns = << >>) =>
       \A m \in 1..done : [key |-> Key(Blocks[m].name), m |-> m] \in published
=============================================================================
