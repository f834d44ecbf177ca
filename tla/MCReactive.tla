----------------------------- MODULE MCReactive -----------------------------
(***************************************************************************)
(* One run over the conditions' filters, the triggers and the fsm block. A *)
(* behaviour is that of one of them, `unit` says of which; the variables   *)
(* are lent to the module that runs, the rest stay at Idle.                *)
(***************************************************************************)
EXTENDS Integers, Sequences, TLC, TLAPS

VARIABLES unit,
          x1, x2, x3, x4, x5, x6, x7, x8, x9, x10, x11, x12, x13, x14

Idle == "-"  \* a variable no module has been lent

CONSTANTS Null,     \* no value
          Callers,  \* goroutines that call a condition or a trigger
          DebIds,   \* identities of debounce timers
          TimerIds, \* identities of a machine's timers
          Presets, Initials, Windows, Deltas, MaxCount, High, Low,
          Values, Debounces, MaxFired, Sources, Shapes, Overrides,
          MaxRuns, MaxCalls, Files, SubFiles, MaxEvents, MaxTimers,
          Notifiers, MaxChanges, Readers, MaxSends, QueueSizes

Symmetry == Permutations(Callers) \cup Permutations(DebIds) \cup Permutations(TimerIds)

UpAndDown == {1, -1, 2}
Feeds ==
  {[set |-> "a", reset |-> "b", toggle |-> "unwired", gate |-> "unwired", from |-> "unwired"],
   [set |-> "a", reset |-> "a", toggle |-> "b", gate |-> "unwired", from |-> "unwired"],
   [set |-> "a", reset |-> "unwired", toggle |-> "a", gate |-> "b", from |-> "unwired"],
   [set |-> "unwired", reset |-> "unwired", toggle |-> "unwired", gate |-> "b", from |-> "a"]}
Wirings ==
  {[feeds |-> f, edge |-> [w \in {"set", "reset", "toggle"} |-> ev] @@ ("gate" :> ge),
    dominantSet |-> TRUE, startActive |-> FALSE] :
     f \in Feeds, ev \in {"rising", "both"}, ge \in {"high", "falling"}}

\* The components, each on the slots its variables are lent.
Part == INSTANCE ReactiveProofs WITH
       WatchValues <- {1, 2}, Window <- 2, InitialGrace <- 0,
       Repeat <- FALSE, MaxMisses <- 0, HasStopWhen <- TRUE,
       ActionFails <- TRUE, Feeders <- {"f1"}, Prompt <- TRUE, raw <- x3,
       pc <- x1, overlap <- x2, body <- x4, count <- x7, events <- x5,
       timer <- x8, launched <- x9, started <- x6, form <- x5, value <- x4,
       derived <- x6, stable <- x7, ref <- x8, deb <- x9, fired <- x10,
       shape <- x5, val <- x4, pending <- x6, prev <- x7,
       gateAsserting <- x8, desired <- x9, moved <- x10, delay <- x12,
       override <- x7, runs <- x6, lastErr <- x13, result <- x14,
       setCh <- x5, resetCh <- x8, stop <- x3, call <- x9, calls <- x10,
       last <- x11, read <- x12, scheduled <- x13, owed <- x14,
       watched <- x1, queue <- x2, timerOf <- x7, eventOf <- x8,
       armed <- x9, waiting <- x10, inflight <- x11, loop <- x12,
       watching <- x5, stopped <- x6, at <- x1, lastValue <- x7,
       tasks <- x8, changes <- x2, raced <- x9, kind <- x2, phase <- x3,
       stored <- x4, reader <- x5, answer <- x7, def <- x5,
       lastWasTrue <- x6, seen <- x7, mailbox <- x8, state <- x9,
       errors <- x10, sends <- x11, sent <- x12, refused <- x13,
       stale <- x14, left <- x2, missCount <- x3, miss <- x4, lastSet <- x6,
       stopping <- x7, feeds <- x8, age <- x9

\* A second watchdog: two goroutines feed it, and time may pass before them.
Fed == INSTANCE ReactiveProofs WITH
       WatchValues <- {1, 2}, Window <- 2, InitialGrace <- 3,
       Repeat <- FALSE, MaxMisses <- 2, HasStopWhen <- FALSE,
       ActionFails <- FALSE, Feeders <- {"f1", "f2"}, Prompt <- FALSE,
       raw <- x3, pc <- x1, overlap <- x2, body <- x4, count <- x7,
       events <- x5, timer <- x8, launched <- x9, started <- x6, form <- x5,
       value <- x4, derived <- x6, stable <- x7, ref <- x8, deb <- x9,
       fired <- x10, shape <- x5, val <- x4, pending <- x6, prev <- x7,
       gateAsserting <- x8, desired <- x9, moved <- x10, delay <- x12,
       override <- x7, runs <- x6, lastErr <- x13, result <- x14,
       setCh <- x5, resetCh <- x8, stop <- x3, call <- x9, calls <- x10,
       last <- x11, read <- x12, scheduled <- x13, owed <- x14,
       watched <- x1, queue <- x2, timerOf <- x7, eventOf <- x8,
       armed <- x9, waiting <- x10, inflight <- x11, loop <- x12,
       watching <- x5, stopped <- x6, at <- x1, lastValue <- x7,
       tasks <- x8, changes <- x2, raced <- x9, kind <- x2, phase <- x3,
       stored <- x4, reader <- x5, answer <- x7, def <- x5,
       lastWasTrue <- x6, seen <- x7, mailbox <- x8, state <- x9,
       errors <- x10, sends <- x11, sent <- x12, refused <- x13,
       stale <- x14, left <- x2, missCount <- x3, miss <- x4, lastSet <- x6,
       stopping <- x7, feeds <- x8, age <- x9

T == INSTANCE ConditionProofs WITH
       ActivateAfter <- 0, DeactivateAfter <- 0, Timeout <- 0,
       Cooldown <- 0, Latch <- FALSE, Invert <- FALSE,
       Retentive <- FALSE, StartActive <- FALSE, Concurrent <- TRUE,
       TimerIds <- TimerIds, NoTimer <- Null, MaxNotices <- 1,
       Debounce <- 0, HasInput <- TRUE, Callers <- {"c1"},
       DebIds <- {"d1"}, Nobody <- "nobody", sm <- x1, notices <- x2,
       balance <- x3, heard <- x4, hist <- x5, t <- x6, deb <- x7,
       tasks <- x8, source <- x9, wanted <- x10, solo <- x11

U == INSTANCE ConditionProofs WITH
       ActivateAfter <- 0, DeactivateAfter <- 0, Timeout <- 1,
       Cooldown <- 0, Latch <- FALSE, Invert <- FALSE,
       Retentive <- FALSE, StartActive <- FALSE, Concurrent <- TRUE,
       TimerIds <- TimerIds, NoTimer <- Null, MaxNotices <- 1,
       Debounce <- 1, HasInput <- FALSE, Callers <- Callers,
       DebIds <- DebIds, Nobody <- "nobody", sm <- x1, notices <- x2,
       balance <- x3, heard <- x4, hist <- x5, t <- x6, deb <- x7,
       tasks <- x8, source <- x9, wanted <- x10, solo <- x11

\* Attributes are integers, wires read sources, and names are different.
ASSUME BlocksOK ==
  /\ Part!CounterOK /\ Part!ThresholdOK /\ Part!FlipflopOK
  /\ Part!WatchdogOK /\ Fed!WatchdogOK
ASSUME NamesOK ==
  /\ TimerIds # {} /\ Null \notin TimerIds
  /\ Callers \cap DebIds = {} /\ "nobody" \notin Callers

Init ==
  \/ /\ unit = "counter" /\ Part!Counter!Init
     /\ x10 = Idle /\ x11 = Idle /\ x12 = Idle /\ x13 = Idle /\ x14 = Idle
  \/ /\ unit = "threshold" /\ Part!Threshold!Init
     /\ x11 = Idle /\ x12 = Idle /\ x13 = Idle /\ x14 = Idle
  \/ /\ unit = "flipflop" /\ Part!Flipflop!Init
     /\ x11 = Idle /\ x12 = Idle /\ x13 = Idle /\ x14 = Idle
  \/ /\ unit = "timer" /\ T!InitT
     /\ x12 = Idle /\ x13 = Idle /\ x14 = Idle
  \/ /\ unit = "debounce" /\ U!InitT
     /\ x12 = Idle /\ x13 = Idle /\ x14 = Idle
  \/ /\ unit = "watchdog" /\ Part!Watchdog!Init
     /\ x10 = Idle /\ x11 = Idle /\ x12 = Idle /\ x13 = Idle /\ x14 = Idle
  \/ /\ unit = "fed" /\ Fed!Watchdog!Init
     /\ x10 = Idle /\ x11 = Idle /\ x12 = Idle /\ x13 = Idle /\ x14 = Idle
  \/ /\ unit = "interval" /\ Part!Interval!Init
  \/ /\ unit = "at" /\ Part!AtTime!Init
  \/ /\ unit = "file" /\ Part!File!Init
     /\ x13 = Idle /\ x14 = Idle
  \/ /\ unit = "watch" /\ Part!Watch!Init
     /\ x10 = Idle /\ x11 = Idle /\ x12 = Idle /\ x13 = Idle /\ x14 = Idle
  \/ /\ unit = "oneshot" /\ Part!OneShot!Init
     /\ x8 = Idle /\ x9 = Idle /\ x10 = Idle /\ x11 = Idle /\ x12 = Idle
     /\ x13 = Idle /\ x14 = Idle
  \/ /\ unit = "fsm" /\ Part!Fsm!Init

Next ==
  \/ unit = "counter" /\ Part!Counter!Next /\ UNCHANGED <<unit, x10, x11, x12, x13, x14>>
  \/ unit = "threshold" /\ Part!Threshold!Next /\ UNCHANGED <<unit, x11, x12, x13, x14>>
  \/ unit = "flipflop" /\ Part!Flipflop!Next /\ UNCHANGED <<unit, x11, x12, x13, x14>>
  \/ unit = "timer" /\ T!NextT /\ UNCHANGED <<unit, x12, x13, x14>>
  \/ unit = "debounce" /\ U!NextT /\ UNCHANGED <<unit, x12, x13, x14>>
  \/ unit = "watchdog" /\ Part!Watchdog!Next /\ UNCHANGED <<unit, x10, x11, x12, x13, x14>>
  \/ unit = "fed" /\ Fed!Watchdog!Next /\ UNCHANGED <<unit, x10, x11, x12, x13, x14>>
  \/ unit = "interval" /\ Part!Interval!Next /\ UNCHANGED unit
  \/ unit = "at" /\ Part!AtTime!Next /\ UNCHANGED unit
  \/ unit = "file" /\ Part!File!Next /\ UNCHANGED <<unit, x13, x14>>
  \/ unit = "watch" /\ Part!Watch!Next /\ UNCHANGED <<unit, x10, x11, x12, x13, x14>>
  \/ unit = "oneshot" /\ Part!OneShot!Next /\ UNCHANGED <<unit, x8, x9, x10, x11, x12, x13, x14>>
  \/ unit = "fsm" /\ Part!Fsm!Next /\ UNCHANGED unit

VarsF == <<x5, x4, x6, x7, x8, x9, x3, x1, x10, x2>>
VarsW == <<x1, x2, x3, x4, x6, x5, x7, x8, x9>>

AllVars == <<unit, x1, x2, x3, x4, x5, x6, x7, x8, x9, x10, x11, x12, x13, x14>>

Spec == Init /\ [][Next]_AllVars

\* Whatever a component has put off, a timer, a window or a token that takes
\* it up again is in place, and what it says it waits for is what was asked.
NothingStranded ==
  /\ unit = "counter" => Part!Counter!WindowArmed
  /\ unit = "debounce" => U!TypeOKT /\ U!EdgeNotStranded
  /\ unit = "interval" => Part!Interval!DelayCurrent
  /\ unit = "at" => Part!AtTime!OverrideKept
  /\ unit = "file" => Part!File!EventNotStranded
  /\ unit = "fsm" => Part!Fsm!EdgeNotSwallowed
  /\ unit = "fed" => Fed!Watchdog!TypeOK /\ Fed!Watchdog!NoLostFeed

\* A call that overlaps no other decides, whatever races went before it.
LoneCallDecides ==
  /\ unit = "counter" => Part!Counter!LoneCallTracks
  /\ unit = "threshold" => Part!Threshold!LoneEdgeCommits
  /\ unit = "flipflop" => Part!Flipflop!DesiredCommits
  /\ unit = "timer" => T!TracksInput
  /\ unit = "debounce" => U!LoneCallCommits
  /\ unit = "interval" => Part!Interval!LoneCallDecides
  /\ unit = "at" => Part!AtTime!LoneCallDecides

\* What is stopped, latched, held or already answered stays so.
NothingTwice ==
  /\ unit = "counter" => Part!Counter!RolloverReleases
  /\ unit = "threshold" => Part!Threshold!Hysteresis
  /\ unit = "flipflop" => Part!Flipflop!LatchTransparent
  /\ unit = "watchdog" => Part!Watchdog!FiresOncePerFeed
  /\ unit = "fed" => Fed!Watchdog!MissesCapped
  /\ unit = "file" => Part!File!StopWaits
  /\ unit = "watch" => Part!Watch!StopQuiet
  /\ unit = "oneshot" => Part!OneShot!OneResult /\ Part!OneShot!NothingAfterStop
  /\ unit = "fsm" => Part!Fsm!OneEventPerEdge

\* No step of a gate, and no expiry of a countdown, comes before its time.
StepsInTime ==
  /\ [][unit = "watchdog" => Part!Watchdog!FiresUnfed]_VarsW
  /\ [][unit = "flipflop" => Part!Flipflop!GateCloses]_VarsF

-----------------------------------------------------------------------------
(* The run's properties, from the theorems of the components.              *)

\* A behaviour is that of one component from beginning to end.
LEMMA CounterRuns == Spec => ([](unit = "counter") /\ Part!Counter!Spec) \/ []~(unit = "counter")
<1>1. Init /\ unit = "counter" => Part!Counter!Init
  BY DEF Init
<1>2. unit = "counter" /\ [Next]_AllVars => (unit = "counter")' /\ [Part!Counter!Next]_Part!Counter!vars
  BY DEF Next, AllVars, Part!Counter!vars
<1>3. ~(unit = "counter") /\ [Next]_AllVars => ~(unit = "counter")'
  BY DEF Next, AllVars
<1> QED BY <1>1, <1>2, <1>3, PTL DEF Spec, Part!Counter!Spec
LEMMA ThresholdRuns == Spec => ([](unit = "threshold") /\ Part!Threshold!Spec) \/ []~(unit = "threshold")
<1>1. Init /\ unit = "threshold" => Part!Threshold!Init
  BY DEF Init
<1>2. unit = "threshold" /\ [Next]_AllVars => (unit = "threshold")' /\ [Part!Threshold!Next]_Part!Threshold!vars
  BY DEF Next, AllVars, Part!Threshold!vars
<1>3. ~(unit = "threshold") /\ [Next]_AllVars => ~(unit = "threshold")'
  BY DEF Next, AllVars
<1> QED BY <1>1, <1>2, <1>3, PTL DEF Spec, Part!Threshold!Spec
LEMMA FlipflopRuns == Spec => ([](unit = "flipflop") /\ Part!Flipflop!Spec) \/ []~(unit = "flipflop")
<1>1. Init /\ unit = "flipflop" => Part!Flipflop!Init
  BY DEF Init
<1>2. unit = "flipflop" /\ [Next]_AllVars => (unit = "flipflop")' /\ [Part!Flipflop!Next]_Part!Flipflop!vars
  BY DEF Next, AllVars, Part!Flipflop!vars
<1>3. ~(unit = "flipflop") /\ [Next]_AllVars => ~(unit = "flipflop")'
  BY DEF Next, AllVars
<1> QED BY <1>1, <1>2, <1>3, PTL DEF Spec, Part!Flipflop!Spec
LEMMA TimerRuns == Spec => ([](unit = "timer") /\ T!SpecT) \/ []~(unit = "timer")
<1>1. Init /\ unit = "timer" => T!InitT
  BY DEF Init
<1>2. unit = "timer" /\ [Next]_AllVars => (unit = "timer")' /\ [T!NextT]_T!allVars
  BY DEF Next, AllVars, T!allVars, T!vars, T!tvars
<1>3. ~(unit = "timer") /\ [Next]_AllVars => ~(unit = "timer")'
  BY DEF Next, AllVars
<1> QED BY <1>1, <1>2, <1>3, PTL DEF Spec, T!SpecT
LEMMA DebounceRuns == Spec => ([](unit = "debounce") /\ U!SpecT) \/ []~(unit = "debounce")
<1>1. Init /\ unit = "debounce" => U!InitT
  BY DEF Init
<1>2. unit = "debounce" /\ [Next]_AllVars => (unit = "debounce")' /\ [U!NextT]_U!allVars
  BY DEF Next, AllVars, U!allVars, U!vars, U!tvars
<1>3. ~(unit = "debounce") /\ [Next]_AllVars => ~(unit = "debounce")'
  BY DEF Next, AllVars
<1> QED BY <1>1, <1>2, <1>3, PTL DEF Spec, U!SpecT
LEMMA WatchdogRuns == Spec => ([](unit = "watchdog") /\ Part!Watchdog!Spec) \/ []~(unit = "watchdog")
<1>1. Init /\ unit = "watchdog" => Part!Watchdog!Init
  BY DEF Init
<1>2. unit = "watchdog" /\ [Next]_AllVars => (unit = "watchdog")' /\ [Part!Watchdog!Next]_Part!Watchdog!vars
  BY DEF Next, AllVars, Part!Watchdog!vars
<1>3. ~(unit = "watchdog") /\ [Next]_AllVars => ~(unit = "watchdog")'
  BY DEF Next, AllVars
<1> QED BY <1>1, <1>2, <1>3, PTL DEF Spec, Part!Watchdog!Spec
LEMMA FedRuns == Spec => ([](unit = "fed") /\ Fed!Watchdog!Spec) \/ []~(unit = "fed")
<1>1. Init /\ unit = "fed" => Fed!Watchdog!Init
  BY DEF Init
<1>2. unit = "fed" /\ [Next]_AllVars => (unit = "fed")' /\ [Fed!Watchdog!Next]_Fed!Watchdog!vars
  BY DEF Next, AllVars, Fed!Watchdog!vars
<1>3. ~(unit = "fed") /\ [Next]_AllVars => ~(unit = "fed")'
  BY DEF Next, AllVars
<1> QED BY <1>1, <1>2, <1>3, PTL DEF Spec, Fed!Watchdog!Spec
LEMMA IntervalRuns == Spec => ([](unit = "interval") /\ Part!Interval!Spec) \/ []~(unit = "interval")
<1>1. Init /\ unit = "interval" => Part!Interval!Init
  BY DEF Init
<1>2. unit = "interval" /\ [Next]_AllVars => (unit = "interval")' /\ [Part!Interval!Next]_Part!Interval!vars
  BY DEF Next, AllVars, Part!Interval!vars
<1>3. ~(unit = "interval") /\ [Next]_AllVars => ~(unit = "interval")'
  BY DEF Next, AllVars
<1> QED BY <1>1, <1>2, <1>3, PTL DEF Spec, Part!Interval!Spec
LEMMA AtRuns == Spec => ([](unit = "at") /\ Part!AtTime!Spec) \/ []~(unit = "at")
<1>1. Init /\ unit = "at" => Part!AtTime!Init
  BY DEF Init
<1>2. unit = "at" /\ [Next]_AllVars => (unit = "at")' /\ [Part!AtTime!Next]_Part!AtTime!vars
  BY DEF Next, AllVars, Part!AtTime!vars
<1>3. ~(unit = "at") /\ [Next]_AllVars => ~(unit = "at")'
  BY DEF Next, AllVars
<1> QED BY <1>1, <1>2, <1>3, PTL DEF Spec, Part!AtTime!Spec
LEMMA FileRuns == Spec => ([](unit = "file") /\ Part!File!Spec) \/ []~(unit = "file")
<1>1. Init /\ unit = "file" => Part!File!Init
  BY DEF Init
<1>2. unit = "file" /\ [Next]_AllVars => (unit = "file")' /\ [Part!File!Next]_Part!File!vars
  BY DEF Next, AllVars, Part!File!vars
<1>3. ~(unit = "file") /\ [Next]_AllVars => ~(unit = "file")'
  BY DEF Next, AllVars
<1> QED BY <1>1, <1>2, <1>3, PTL DEF Spec, Part!File!Spec
LEMMA WatchRuns == Spec => ([](unit = "watch") /\ Part!Watch!Spec) \/ []~(unit = "watch")
<1>1. Init /\ unit = "watch" => Part!Watch!Init
  BY DEF Init
<1>2. unit = "watch" /\ [Next]_AllVars => (unit = "watch")' /\ [Part!Watch!Next]_Part!Watch!vars
  BY DEF Next, AllVars, Part!Watch!vars
<1>3. ~(unit = "watch") /\ [Next]_AllVars => ~(unit = "watch")'
  BY DEF Next, AllVars
<1> QED BY <1>1, <1>2, <1>3, PTL DEF Spec, Part!Watch!Spec
LEMMA OneShotRuns == Spec => ([](unit = "oneshot") /\ Part!OneShot!Spec) \/ []~(unit = "oneshot")
<1>1. Init /\ unit = "oneshot" => Part!OneShot!Init
  BY DEF Init
<1>2. unit = "oneshot" /\ [Next]_AllVars => (unit = "oneshot")' /\ [Part!OneShot!Next]_Part!OneShot!vars
  BY DEF Next, AllVars, Part!OneShot!vars
<1>3. ~(unit = "oneshot") /\ [Next]_AllVars => ~(unit = "oneshot")'
  BY DEF Next, AllVars
<1> QED BY <1>1, <1>2, <1>3, PTL DEF Spec, Part!OneShot!Spec
LEMMA FsmRuns == Spec => ([](unit = "fsm") /\ Part!Fsm!Spec) \/ []~(unit = "fsm")
<1>1. Init /\ unit = "fsm" => Part!Fsm!Init
  BY DEF Init
<1>2. unit = "fsm" /\ [Next]_AllVars => (unit = "fsm")' /\ [Part!Fsm!Next]_Part!Fsm!vars
  BY DEF Next, AllVars, Part!Fsm!vars
<1>3. ~(unit = "fsm") /\ [Next]_AllVars => ~(unit = "fsm")'
  BY DEF Next, AllVars
<1> QED BY <1>1, <1>2, <1>3, PTL DEF Spec, Part!Fsm!Spec

\* The constants of the timer conditions are what their modules assume of
\* them, so their theorems hold here.
LEMMA TimerKnown == T!SpecT => []T!TracksInput
<1>1. T!DurationAssumption /\ T!FlagAssumption /\ T!TimerAssumption /\ T!BoundAssumption
  BY NamesOK DEF T!DurationAssumption, T!FlagAssumption, T!TimerAssumption, T!BoundAssumption
<1>2. T!TimerOK /\ T!OneCaller
  BY DEF T!TimerOK, T!OneCaller
<1> QED BY <1>1, <1>2, T!InputAlwaysTracked
LEMMA DebounceKnown ==
  U!SpecT => []U!TypeOKT /\ []U!EdgeNotStranded /\ []U!LoneCallCommits
<1>1. U!DurationAssumption /\ U!FlagAssumption /\ U!TimerAssumption /\ U!BoundAssumption
  BY NamesOK DEF U!DurationAssumption, U!FlagAssumption, U!TimerAssumption, U!BoundAssumption
<1>2. U!TimerOK
  BY NamesOK DEF U!TimerOK
<1> QED BY <1>1, <1>2, U!TimerTypeCorrect, U!EdgeNeverStranded, U!LoneCallAlwaysCommits

\* Whatever a filter, a trigger or the fsm block has put off, what takes it up
\* again is in place, in behaviours of every length.
THEOREM NothingEverStranded == Spec => []NothingStranded
<1>1. Spec => [](unit = "counter" => Part!Counter!WindowArmed)
  BY CounterRuns, Part!WindowAlwaysArmed, BlocksOK, PTL
<1>2. Spec => [](unit = "debounce" => U!TypeOKT /\ U!EdgeNotStranded)
  BY DebounceRuns, DebounceKnown, PTL
<1>3. Spec => [](unit = "interval" => Part!Interval!DelayCurrent)
  BY IntervalRuns, Part!DelayAlwaysCurrent, PTL
<1>4. Spec => [](unit = "at" => Part!AtTime!OverrideKept)
  BY AtRuns, Part!OverrideAlwaysKept, PTL
<1>5. Spec => [](unit = "file" => Part!File!EventNotStranded)
  BY FileRuns, Part!EventNeverStranded, PTL
<1>6. Spec => [](unit = "fsm" => Part!Fsm!EdgeNotSwallowed)
  BY FsmRuns, Part!EdgeNeverSwallowed, PTL
<1>7. Spec => [](unit = "fed" => Fed!Watchdog!TypeOK /\ Fed!Watchdog!NoLostFeed)
  BY FedRuns, Fed!WatchdogTypeCorrect, Fed!WatchdogLosesNoFeed, BlocksOK, PTL
<1> QED BY <1>1, <1>2, <1>3, <1>4, <1>5, <1>6, <1>7, PTL DEF NothingStranded

\* A call that overlaps no other decides, for any number of callers, whatever
\* races went before it.
THEOREM LoneCallsDecide == Spec => []LoneCallDecides
<1>1. Spec => [](unit = "counter" => Part!Counter!LoneCallTracks)
  BY CounterRuns, Part!CounterCallTracks, BlocksOK, PTL
<1>2. Spec => [](unit = "threshold" => Part!Threshold!LoneEdgeCommits)
  BY ThresholdRuns, Part!EdgeAlwaysCommits, BlocksOK, PTL
<1>3. Spec => [](unit = "flipflop" => Part!Flipflop!DesiredCommits)
  BY FlipflopRuns, Part!DecisionAlwaysCommits, BlocksOK, PTL
<1>4. Spec => [](unit = "timer" => T!TracksInput)
  BY TimerRuns, TimerKnown, PTL
<1>5. Spec => [](unit = "debounce" => U!LoneCallCommits)
  BY DebounceRuns, DebounceKnown, PTL
<1>6. Spec => [](unit = "interval" => Part!Interval!LoneCallDecides)
  BY IntervalRuns, Part!IntervalCallDecides, PTL
<1>7. Spec => [](unit = "at" => Part!AtTime!LoneCallDecides)
  BY AtRuns, Part!AtCallDecides, PTL
<1> QED BY <1>1, <1>2, <1>3, <1>4, <1>5, <1>6, <1>7, PTL DEF LoneCallDecides

\* What is stopped, latched, held or already answered stays so.
THEOREM NothingHappensTwice == Spec => []NothingTwice
<1>1. Spec => [](unit = "counter" => Part!Counter!RolloverReleases)
  BY CounterRuns, Part!RolloverAlwaysReleases, BlocksOK, PTL
<1>2. Spec => [](unit = "threshold" => Part!Threshold!Hysteresis)
  BY ThresholdRuns, Part!BandHolds, BlocksOK, PTL
<1>3. Spec => [](unit = "flipflop" => Part!Flipflop!LatchTransparent)
  BY FlipflopRuns, Part!LatchAlwaysTransparent, BlocksOK, PTL
<1>4. Spec => [](unit = "watchdog" => Part!Watchdog!FiresOncePerFeed)
  BY WatchdogRuns, Part!WatchdogFiresOnce, BlocksOK, PTL
<1>5. Spec => [](unit = "file" => Part!File!StopWaits)
  BY FileRuns, Part!StopAlwaysWaits, PTL
<1>6. Spec => [](unit = "watch" => Part!Watch!StopQuiet)
  BY WatchRuns, Part!WatchStopsQuietly, PTL
<1>7. Spec => [](unit = "oneshot" => Part!OneShot!OneResult /\ Part!OneShot!NothingAfterStop)
  BY OneShotRuns, Part!ResultIsOne, Part!NothingRunsAfterStop, PTL
<1>8. Spec => [](unit = "fsm" => Part!Fsm!OneEventPerEdge)
  BY FsmRuns, Part!EdgeGivesOneEvent, PTL
<1>9. Spec => [](unit = "fed" => Fed!Watchdog!MissesCapped)
  <2>1. ~FALSE
    OBVIOUS
  <2> QED BY <2>1, FedRuns, Fed!WatchdogCapHolds, BlocksOK, PTL
<1> QED BY <1>1, <1>2, <1>3, <1>4, <1>5, <1>6, <1>7, <1>8, <1>9, PTL DEF NothingTwice

\* No fire comes before its window has passed, and no notification passes a
\* gate that is closed.
THEOREM StepsAlwaysInTime == Spec => StepsInTime
<1>1. Spec => [][unit = "watchdog" => Part!Watchdog!FiresUnfed]_Part!Watchdog!vars
  BY WatchdogRuns, Part!WatchdogNeverFiresFed, BlocksOK, PTL
<1>2. Spec => [][unit = "flipflop" => Part!Flipflop!GateCloses]_Part!Flipflop!vars
  BY FlipflopRuns, Part!GateAlwaysCloses, BlocksOK, PTL
<1> QED BY <1>1, <1>2, PTL DEF StepsInTime, VarsW, VarsF, Part!Watchdog!vars, Part!Flipflop!vars
=============================================================================
