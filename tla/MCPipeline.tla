----------------------------- MODULE MCPipeline -----------------------------
(***************************************************************************)
(* One run over the two modules of the message pipeline.  A behaviour is   *)
(* that of one of them, `unit` says of which; the variables are lent to    *)
(* the module that runs, the rest stay at Idle.                            *)
(***************************************************************************)
EXTENDS Naturals, Sequences, TLAPS

VARIABLES unit, x1, x2, x3, x4, x5, x6, x7, x8, x9, x10, x11, x12, x13, x14

Idle == "-"
Lent == <<x1, x2, x3, x4, x5, x6, x7, x8, x9, x10, x11, x12, x13, x14>>
Dv == <<x1, x2, x3, x4, x5, x6, x7, x8, x9>>

\* The two modules share the slots: a behaviour belongs to one of them.
P == INSTANCE PipelineProofs WITH
       AckValues <- {"", "auto", "manual", "periodic", "none"}, Extra <- "periodic",
       TimeoutValues <- {"", "bad", "-1", "0", "5"},
       Targets <- {"bus", "busq", "sync", "async", "proxy"},
       policy <- x1, chain <- x2, point <- x3, work <- x4, outcome <- x5, by <- x6,
       timer <- x7, logs <- x8, told <- x9,
       Receivers <- <<"r1">>, SubQueue <- TRUE, Stuck <- TRUE, BuildFails <- TRUE,
       phase <- x1, at <- x2, built <- x3, config <- x14, up <- x4, accepting <- x5,
       where <- x6, settled <- x7, closed <- x8, readings <- x9, sum <- x10, late <- x11,
       closer <- x12, warned <- x13

Init == \/ /\ unit = "delivery" /\ P!Delivery!Init
           /\ x10 = Idle /\ x11 = Idle /\ x12 = Idle /\ x13 = Idle /\ x14 = Idle
        \/ unit = "lifecycle" /\ P!Init

Next == \/ unit = "delivery" /\ P!Delivery!Next /\ UNCHANGED <<unit, x10, x11, x12, x13, x14>>
        \/ unit = "lifecycle" /\ P!Next /\ UNCHANGED unit

\* The fairness of the two modules, over the lent variables.
Fairness ==
  /\ WF_Dv(unit = "delivery" /\ \E i \in P!Delivery!Points : P!Delivery!Hop(i))
  /\ WF_Dv(unit = "delivery" /\ P!Delivery!Fire)
  /\ WF_Dv(unit = "delivery" /\ P!Delivery!Expire)
  /\ WF_Lent(unit = "lifecycle" /\ P!Alive /\ P!Main)
  /\ WF_Lent(unit = "lifecycle" /\ P!Alive /\ P!Deadline)
  /\ WF_Lent(unit = "lifecycle" /\ P!Alive /\ P!CloseStep)

Spec == Init /\ [][Next]_<<unit, Lent>> /\ Fairness

\* Nothing is acknowledged before the work it stands for is done.
NoEarlyAck == unit = "delivery" => P!Delivery!NoEarlyAck
\* What the log says of a settlement and of a deadline is what happened.
LogTellsTruth == unit = "delivery" => P!Delivery!LogTellsTruth
\* A delivery nobody has settled yet still has its deadline running.
DeadlineHeld == unit = "delivery" => P!Delivery!DeadlineHeld
\* An acknowledgement is refused by a closed transport only after a warning.
RefusedOnlyWarned == unit = "lifecycle" => P!RefusedOnlyWarned
\* No queue holds a message when the transports stop, unless the log says so.
QueuesEmptyAtStop == unit = "lifecycle" => P!QueuesEmptyAtStop
\* A failed build or start leaves no transport running.
NothingLeftRunning == unit = "lifecycle" => P!NothingLeftRunning

\* A delivery implements SettlePromise; the other unit has no delivery to map.
Promise == INSTANCE SettlePromise WITH
             work <- IF unit = "delivery" THEN x4 ELSE "todo",
             outcome <- IF unit = "delivery" THEN x5 ELSE "open",
             by <- IF unit = "delivery" THEN x6 ELSE "nobody",
             clock <- IF unit = "delivery" THEN P!Delivery!Clock ELSE "off",
             logs <- IF unit = "delivery" THEN x8 ELSE {}
SettlesAsPromised == Promise!Spec

\* A manual delivery with a deadline is settled or reported in the end.
ManualBounded ==
  (unit = "delivery" /\ P!Delivery!Manual) ~> (unit = "delivery" /\ P!Delivery!SettledOrReported)
\* A shutdown that began ends in the process's exit, unless it waits for a
\* trigger's action that never returns.
ShutdownEnds ==
  \/ (unit = "lifecycle" /\ P!ShuttingDown) ~> (unit = "lifecycle" /\ P!Exited)
  \/ <>[](unit = "lifecycle" /\ P!Held)

-----------------------------------------------------------------------------
(* The run's invariants and its refinement, from the theorems of the two   *)
(* modules: for every length of behaviour, with the constants above.       *)

\* Each behaviour is a behaviour of one of the two modules.
LEMMA StartsAsOne ==
  Init => (unit = "delivery" /\ P!Delivery!Init) \/ (unit = "lifecycle" /\ P!Init)
BY DEF Init
LEMMA StaysDelivery ==
  unit = "delivery" /\ [Next]_<<unit, Lent>> => (unit = "delivery")' /\ [P!Delivery!Next]_P!Delivery!vars
BY DEF Next, Lent, P!Delivery!vars
LEMMA StaysLifecycle ==
  unit = "lifecycle" /\ [Next]_<<unit, Lent>> => (unit = "lifecycle")' /\ [P!Next]_P!vars
BY DEF Next, Lent, P!vars

LEMMA TwoNames == ~(unit = "delivery" /\ unit = "lifecycle")
OBVIOUS

\* The parts of Config have names of their own.
LEMMA Configured == P!ConfigOK
BY DEF P!ConfigOK, P!Rcv

\* Whatever chain a receiver builds, nothing is acknowledged under
\* ack = "auto" before its work is done (DispositionOf, Unwrap).
THEOREM PipelineNeverAcksEarly == Spec => []NoEarlyAck
<1>1. P!Delivery!Init /\ [][P!Delivery!Next]_P!Delivery!vars => []P!Delivery!NoEarlyAck
  BY P!NeverAckedEarly DEF P!Delivery!Spec, P!TargetsOK
<1>2. NoEarlyAck <=> (unit = "delivery" => P!Delivery!NoEarlyAck)
  BY DEF NoEarlyAck
<1> QED BY <1>1, <1>2, TwoNames, StartsAsOne, StaysDelivery, StaysLifecycle, PTL DEF Spec

\* The log claims what the race of expiry, framework and configuration came to
\* (expire, logLapse).
THEOREM PipelineLogIsTrue == Spec => []LogTellsTruth
<1>1. P!Delivery!Init /\ [][P!Delivery!Next]_P!Delivery!vars => []P!Delivery!LogTellsTruth
  BY P!LogIsTrue DEF P!Delivery!Spec, P!TargetsOK
<1>2. LogTellsTruth <=> (unit = "delivery" => P!Delivery!LogTellsTruth)
  BY DEF LogTellsTruth
<1> QED BY <1>1, <1>2, TwoNames, StartsAsOne, StaysDelivery, StaysLifecycle, PTL DEF Spec

\* A bounded delivery nobody settled keeps its deadline until the deadline has
\* failed and said so (settle_timeout).
THEOREM PipelineHoldsDeadlines == Spec => []DeadlineHeld
<1>1. P!Delivery!Init /\ [][P!Delivery!Next]_P!Delivery!vars => []P!Delivery!DeadlineHeld
  BY P!DeadlineAlwaysHeld DEF P!Delivery!Spec, P!TargetsOK
<1>2. DeadlineHeld <=> (unit = "delivery" => P!Delivery!DeadlineHeld)
  BY DEF DeadlineHeld
<1> QED BY <1>1, <1>2, TwoNames, StartsAsOne, StaysDelivery, StaysLifecycle, PTL DEF Spec

\* An acknowledgement meets a closed transport only after shutdown warned that
\* it goes on with work unfinished (quiesce).
THEOREM PipelineRefusesAloud == Spec => []RefusedOnlyWarned
<1>1. P!Init /\ [][P!Next]_P!vars => []P!RefusedOnlyWarned
  BY P!NoSilentRefusal, Configured DEF P!Spec
<1>2. RefusedOnlyWarned <=> (unit = "lifecycle" => P!RefusedOnlyWarned)
  BY DEF RefusedOnlyWarned
<1> QED BY <1>1, <1>2, TwoNames, StartsAsOne, StaysDelivery, StaysLifecycle, PTL DEF Spec

\* No queue holds a message when the transports stop, unless the log says so
\* (closeQueues).
THEOREM PipelineDrains == Spec => []QueuesEmptyAtStop
<1>1. P!Init /\ [][P!Next]_P!vars => []P!QueuesEmptyAtStop
  BY P!QueuesDrained, Configured DEF P!Spec
<1>2. QueuesEmptyAtStop <=> (unit = "lifecycle" => P!QueuesEmptyAtStop)
  BY DEF QueuesEmptyAtStop
<1> QED BY <1>1, <1>2, TwoNames, StartsAsOne, StaysDelivery, StaysLifecycle, PTL DEF Spec

\* A process that exits, or discards its build, leaves nothing it started
\* running (shutdown, Discard).
THEOREM PipelineStopsAll == Spec => []NothingLeftRunning
<1>1. P!Init /\ [][P!Next]_P!vars => []P!NothingLeftRunning
  BY P!AllStopped, Configured DEF P!Spec
<1>2. NothingLeftRunning <=> (unit = "lifecycle" => P!NothingLeftRunning)
  BY DEF NothingLeftRunning
<1> QED BY <1>1, <1>2, TwoNames, StartsAsOne, StaysDelivery, StaysLifecycle, PTL DEF Spec

\* Refinement: the delivery of a behaviour implements SettlePromise, and a
\* behaviour of the process's lifecycle delivers nothing (SettleOnReturn,
\* deadlineSettler.settled, expire).
THEOREM PipelineSettlesAsPromised == Spec => SettlesAsPromised
<1>1. Init => Promise!Init
  BY P!StartsAsPromised DEF Init, Promise!Init, P!Delivery!Promise!Init
<1>2. unit = "delivery" /\ P!IndInv /\ [Next]_<<unit, Lent>> => [Promise!Next]_Promise!vars
  <2> SUFFICES ASSUME unit = "delivery", P!IndInv, [Next]_<<unit, Lent>>
               PROVE  [Promise!Next]_Promise!vars
    OBVIOUS
  <2>1. [P!Delivery!Next]_P!Delivery!vars /\ unit' = "delivery"
    BY StaysDelivery
  <2>2. [P!Delivery!Promise!Next]_P!PromisedState
    BY <2>1, P!StepAsPromised
  <2> QED BY <2>1, <2>2
    DEF P!PromisedState, Promise!vars, P!Delivery!Promise!Next, P!Delivery!Promise!Arm,
        P!Delivery!Promise!Work, P!Delivery!Promise!Framework, P!Delivery!Promise!Config,
        P!Delivery!Promise!Settle, P!Delivery!Promise!Expire, P!Delivery!Promise!Lapse,
        Promise!Next, Promise!Arm, Promise!Work, Promise!Framework, Promise!Config,
        Promise!Settle, Promise!Expire, Promise!Lapse
<1>3. unit = "lifecycle" /\ [Next]_<<unit, Lent>> => [Promise!Next]_Promise!vars
  BY StaysLifecycle DEF Promise!vars
<1>4. P!Delivery!Init /\ [][P!Delivery!Next]_P!Delivery!vars => []P!IndInv
  BY P!Invariance DEF P!Delivery!Spec, P!TargetsOK
<1> QED BY <1>1, <1>2, <1>3, <1>4, TwoNames, StartsAsOne, StaysDelivery, StaysLifecycle, PTL
  DEF Spec, SettlesAsPromised, Promise!Spec
=============================================================================
