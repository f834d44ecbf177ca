--------------------------- MODULE ReactiveProofs ---------------------------
(***************************************************************************)
(* The filters that stand before the condition state machine (counter,     *)
(* threshold, flipflop), the triggers and the fsm block, proved for any    *)
(* number of goroutines, callers, files, notifiers and readers, for every  *)
(* block their processing accepts and for every bound.  Of the filters: a  *)
(* burst that has passed does not hold a counter, a rollover always        *)
(* releases, the band is a band, a closed gate decides nothing, and calls  *)
(* that do not overlap leave the machine with what was decided.  Of the    *)
(* triggers: what one was asked for is not dropped, a call that overlaps   *)
(* no other decides, Stop leaves nothing running, and one edge gives one   *)
(* event.                                                                  *)
(*                                                                         *)
(* Each component is an instance of its own module; the instances share    *)
(* the variables declared here by name, and every theorem is about one of  *)
(* them.  A component has one inductive invariant, which comes first,      *)
(* lemmas for the actions that need more than the invariant's own shape,   *)
(* and the theorems that follow from it.  What a block of a filter may     *)
(* hold is a hypothesis of its theorems: CounterOK, ThresholdOK and        *)
(* FlipflopOK say that attributes are integers and that wires read         *)
(* sources, WatchdogOK that the watchdog's are naturals; the other         *)
(* triggers need none.                                                     *)
(***************************************************************************)
EXTENDS Integers, Sequences, FiniteSets, WellFoundedInduction, TLAPS

CONSTANTS Callers, Presets, Initials, Windows, Deltas, MaxCount,  \* counter
          Values, High, Low, Debounces, MaxFired,                 \* threshold
          Sources, Shapes, Null,                                  \* flipflop
          Overrides, MaxRuns, MaxCalls,                           \* interval, at
          Files, SubFiles, MaxEvents, MaxTimers,                  \* file
          Notifiers, WatchValues, MaxChanges,                     \* watch
          Readers,                                                \* once, start, after
          MaxSends, QueueSizes                                    \* fsm

VARIABLES raw, pc, overlap,
          body, count, events, timer, launched, started,
          form, value, derived, stable, ref, deb, fired,
          shape, val, pending, prev, gateAsserting, desired, moved,
          delay, override, runs, lastErr, result, setCh, resetCh,
          stop, call, calls, last, read, scheduled, owed,
          watched, queue, timerOf, eventOf, armed, waiting,
          inflight, loop,
          watching, stopped, at, lastValue, tasks, changes, raced,
          kind, phase, stored, reader, answer,
          def, lastWasTrue, seen, mailbox, state, errors, sends,
          sent, refused, stale

Counter == INSTANCE CounterCondition
Threshold == INSTANCE ThresholdCondition
Flipflop == INSTANCE FlipflopCondition
Interval == INSTANCE IntervalTrigger
AtTime == INSTANCE AtTrigger
File == INSTANCE FileTrigger
Watch == INSTANCE WatchTrigger WITH Values <- WatchValues
OneShot == INSTANCE OneShotTriggers
Fsm == INSTANCE FsmBlock

-----------------------------------------------------------------------------
(* Counter.                                                                *)

CounterOK ==
  /\ Presets \subseteq Int /\ Initials \subseteq Int
  /\ Windows \subseteq Int /\ Deltas \subseteq Int

CounterData ==
  /\ body \in Counter!Bodies
  /\ count \in Int /\ events \in Seq(Int)
  /\ timer \in Int /\ timer >= -1
  /\ launched \in BOOLEAN /\ raw \in BOOLEAN /\ started \in BOOLEAN /\ overlap \in BOOLEAN
CounterPcs ==
  /\ pc \in [Counter!Goroutines ->
               [at : {"idle", "set", "set last", "roll", "clear"}, v : BOOLEAN]]
  /\ \A g \in Counter!Goroutines : pc[g].at = "idle" => pc[g] = Counter!Idle
CounterTypes == CounterData /\ CounterPcs

LEMMA LeastIndex ==
  ASSUME NEW S, S \subseteq Nat, S # {}
  PROVE  (CHOOSE i \in S : \A j \in S : i <= j) \in S
<1>1. PICK i \in S : \A j \in S : ~(<<j, i>> \in OpToRel(<, Nat))
  BY NatLessThanWellFounded, WFMin
<1>2. ASSUME NEW j \in S, j < i PROVE FALSE
  <2>1. <<j, i>> \in OpToRel(<, Nat)
    BY <1>2, Zenon DEF OpToRel
  <2> QED  BY <1>1, <2>1
<1>3. \A j \in S : i <= j
  <2> SUFFICES ASSUME NEW j \in S, ~(i <= j) PROVE FALSE  OBVIOUS
  <2>1. j < i  OBVIOUS
  <2> QED  BY <1>2, <2>1
<1> QED  BY <1>3

\* pruneLocked leaves a list alone whose oldest event is inside the window.
LEMMA PruneFacts ==
  ASSUME NEW es \in Seq(Int)
  PROVE  /\ Counter!Prune(es) \in Seq(Int)
         /\ es = <<>> => Counter!Prune(es) = <<>>
         /\ es # <<>> /\ es[1] < body.window => Counter!Prune(es) = es
<1> DEFINE L == Counter!Live(es)
           k == CHOOSE i \in L : \A j \in L : i <= j
<1>0. L \subseteq 1..Len(es)
  BY DEF Counter!Live
<1>1. CASE L = {}
  <2>1. Counter!Prune(es) = <<>>
    BY <1>1 DEF Counter!Prune
  <2>2. ~(es # <<>> /\ es[1] < body.window)
    BY <1>1 DEF Counter!Live
  <2> QED  BY <2>1, <2>2
<1>2. CASE L # {}
  <2>1. k \in L
    BY <1>0, <1>2, LeastIndex
  <2>2. Counter!Prune(es) = SubSeq(es, k, Len(es))
    BY <1>2 DEF Counter!Prune
  <2>3. k \in 1..Len(es)
    BY <1>0, <2>1
  <2>4. es # <<>> /\ es[1] < body.window => k = 1
    <3> SUFFICES ASSUME es # <<>>, es[1] < body.window PROVE k = 1
      OBVIOUS
    <3>1. 1 \in L
      BY DEF Counter!Live
    <3>2. \E i \in L : \A j \in L : i <= j
      BY <1>0, <3>1
    <3>3. k <= 1
      BY <3>1, <3>2
    <3> QED  BY <3>3, <2>3
  <2> HIDE DEF k, L
  <2>5. SubSeq(es, k, Len(es)) \in Seq(Int)
    BY <2>3
  <2>6. k = 1 => SubSeq(es, k, Len(es)) = es
    BY <2>3
  <2>7. es # <<>>
    BY <2>3
  <2> QED  BY <2>2, <2>4, <2>5, <2>6, <2>7
<1> QED  BY <1>1, <1>2

\* A running timer is the oldest event's.  Without a window there is none.
CounterTimer ==
  /\ Counter!WindowArmed
  /\ timer > 0 /\ events # <<>> => events[1] + timer = body.window
  /\ ~(body.window > 0) => timer = -1 /\ ~launched /\ events = <<>>

\* With rollover, whoever asserted the input or brought the count to the
\* preset is still on its way to the reset or to the release after it.
Releasing(g) == pc[g].at = "roll" \/ (pc[g].at = "set last" /\ ~pc[g].v)
Matching(g) == pc[g].at = "roll" \/ (pc[g].at = "set" /\ pc[g].v)
CounterRoll ==
  body.rollover /\ ~Counter!Matched(body.initial) =>
    /\ raw => \E g \in Counter!Goroutines : Releasing(g)
    /\ Counter!Matched(count) => \E g \in Counter!Goroutines : Matching(g)
    /\ \A g \in Counter!Goroutines : pc[g].at = "set last" => ~pc[g].v

\* While nothing overlapped, the one call under way carries what the count
\* says, unless the expiry that corrects it is due.
Soon == launched \/ timer = 0
Tracks == raw = Counter!Matched(count) \/ (~raw /\ count = body.initial)
CounterLone ==
  ~overlap =>
    /\ \A g, k \in Counter!Goroutines : pc[g].at # "idle" /\ pc[k].at # "idle" => g = k
    /\ \A g \in Counter!Goroutines :
         /\ pc[g].at \in {"set", "set last"} => pc[g].v = Counter!Matched(count) \/ Soon
         /\ pc[g].at = "roll" => raw
         /\ pc[g].at = "clear" => count = body.initial /\ events = <<>>
    /\ started /\ (\A g \in Counter!Goroutines : pc[g].at = "idle") => Tracks \/ Soon

CounterInv == CounterTypes /\ CounterTimer /\ CounterRoll /\ CounterLone

LEMMA CounterInit == CounterOK /\ Counter!Init => CounterInv
<1> SUFFICES ASSUME CounterOK, Counter!Init PROVE CounterInv  OBVIOUS
<1>1. CounterTypes
  <2>1. body \in Counter!Bodies /\ body.initial \in Int
    BY DEF CounterOK, Counter!Init, Counter!Bodies
  <2>2. CounterPcs
    BY DEF Counter!Init, Counter!Idle, CounterPcs
  <2>3. CounterData
    <3>1. /\ count = body.initial /\ events = <<>> /\ timer = -1
          /\ ~launched /\ launched \in BOOLEAN /\ raw \in BOOLEAN
          /\ started \in BOOLEAN /\ overlap \in BOOLEAN
      BY DEF Counter!Init, Counter!NoTimer
    <3> QED  BY <2>1, <3>1 DEF CounterData
  <2> QED  BY <2>2, <2>3 DEF CounterTypes
<1>2. CounterTimer
  BY DEF Counter!Init, CounterTimer, Counter!WindowArmed, Counter!NoTimer
<1>3. CounterRoll
  BY DEF Counter!Init, CounterRoll, Counter!Idle
<1>4. CounterLone
  BY DEF Counter!Init, CounterLone, Counter!Idle
<1> QED  BY <1>1, <1>2, <1>3, <1>4 DEF CounterInv

\* What armExpiryLocked sets the timer to.
LEMMA ArmExpiryFacts ==
  ASSUME CounterOK, CounterData, NEW es \in Seq(Int)
  PROVE  /\ Counter!ArmExpiry(es) \in Int /\ Counter!ArmExpiry(es) >= -1
         /\ es = <<>> => Counter!ArmExpiry(es) = -1
         /\ es # <<>> => Counter!ArmExpiry(es) >= 0
         /\ es # <<>> /\ Counter!ArmExpiry(es) > 0 => es[1] + Counter!ArmExpiry(es) = body.window
<1>1. body.window \in Int
  BY DEF CounterOK, CounterData, Counter!Bodies
<1>2. es # <<>> => es[1] \in Int
  OBVIOUS
<1> QED  BY <1>1, <1>2 DEF Counter!ArmExpiry, Counter!NoTimer

\* What the attributes of an accepted block are.
LEMMA BodyFacts ==
  ASSUME CounterOK, CounterData
  PROVE  /\ body.window \in Int /\ body.initial \in Int
         /\ body.rollover => ~(body.window > 0)
         /\ \A n \in Int : Counter!Matched(n) \in BOOLEAN
<1>1. body.window \in Int /\ body.initial \in Int /\ body.preset \in Int
  BY DEF CounterOK, CounterData, Counter!Bodies
<1>2. body.rollover => ~(body.window > 0)
  BY DEF CounterData, Counter!Bodies, Counter!ProcessCounterCondition
<1>3. ASSUME NEW n \in Int PROVE Counter!Matched(n) \in BOOLEAN
  <2>1. CASE body.countDown
    <3>1. Counter!Matched(n) = (n <= body.preset)
      BY <2>1 DEF Counter!Matched
    <3> QED  BY <3>1
  <2>2. CASE ~body.countDown
    <3>1. Counter!Matched(n) = (n >= body.preset)
      BY <2>2 DEF Counter!Matched
    <3> QED  BY <3>1
  <2> QED  BY <2>1, <2>2
<1> QED  BY <1>1, <1>2, <1>3

\* The critical sections that change events leave list and timer in order.
LEMMA DeltaFacts ==
  ASSUME CounterOK, CounterData, CounterTimer, NEW g \in Counter!Goroutines, NEW delta \in Int,
         Counter!ApplyDelta(g, delta)
  PROVE  /\ count' \in Int /\ events' \in Seq(Int) /\ timer' \in Int /\ timer' >= -1
         /\ CounterTimer'
<1>0. UNCHANGED <<body, launched>>
  BY DEF Counter!ApplyDelta
<1>1. CASE body.window > 0
  <2> DEFINE live == Counter!Prune(events)
             pop == IF -delta > Len(live) THEN Len(live) ELSE -delta
             es == IF delta >= 0 THEN live \o [i \in 1..delta |-> 0]
                   ELSE SubSeq(live, 1 + pop, Len(live))
  <2>1. live \in Seq(Int)
    BY PruneFacts DEF CounterData
  <2>2. es \in Seq(Int)
    <3> HIDE DEF live
    <3>1. CASE delta >= 0
      <4>1. [i \in 1..delta |-> 0] \in Seq(Int)
        BY <3>1
      <4> QED  BY <3>1, <4>1, <2>1
    <3>2. CASE ~(delta >= 0)
      <4>1. pop \in 0..Len(live)
        BY <3>2, <2>1
      <4> HIDE DEF pop
      <4>2. SubSeq(live, 1 + pop, Len(live)) \in Seq(Int)
        BY <4>1, <2>1
      <4> QED  BY <3>2, <4>2
    <3> QED  BY <3>1, <3>2
  <2>3. events' = es /\ count' = Len(es) /\ timer' = Counter!ArmExpiry(es)
    BY <1>1 DEF Counter!ApplyDelta, Counter!WindowedDelta
  <2> HIDE DEF es
  <2> QED  BY <1>0, <1>1, <2>2, <2>3, ArmExpiryFacts
           DEF CounterTimer, Counter!WindowArmed, Counter!NoTimer
<1>2. CASE ~(body.window > 0)
  <2>1. UNCHANGED <<events, timer>>
    BY <1>2 DEF Counter!ApplyDelta, Counter!PlainDelta
  <2>2. count' = IF count + delta < 0 THEN 0 ELSE count + delta
    BY <1>2 DEF Counter!ApplyDelta, Counter!PlainDelta
  <2>3. count' \in Int
    BY <2>2 DEF CounterData
  <2>4. CounterTimer'
    BY <1>0, <2>1 DEF CounterTimer, Counter!WindowArmed
  <2> QED  BY <2>1, <2>3, <2>4 DEF CounterData
<1> QED  BY <1>1, <1>2

\* A goroutine moves to another place.
LEMMA MoveKeepsPcs ==
  ASSUME CounterPcs, NEW g \in Counter!Goroutines,
         NEW a \in {"set", "set last", "roll", "clear"}, NEW m \in BOOLEAN,
         pc' = [pc EXCEPT ![g] = Counter!At(a, m)] \/ pc' = [pc EXCEPT ![g] = Counter!Idle]
  PROVE  CounterPcs'
<1>1. CASE pc' = [pc EXCEPT ![g] = Counter!At(a, m)]
  BY <1>1 DEF CounterPcs, Counter!At, Counter!Idle
<1>2. CASE pc' = [pc EXCEPT ![g] = Counter!Idle]
  BY <1>2 DEF CounterPcs, Counter!At, Counter!Idle
<1> QED  BY <1>1, <1>2

LEMMA CounterDataKept ==
  CounterOK /\ CounterInv /\ [Counter!Next]_Counter!vars => CounterData' /\ CounterTimer'
<1> SUFFICES ASSUME CounterOK, CounterData, CounterPcs, CounterTimer, [Counter!Next]_Counter!vars
             PROVE  CounterData' /\ CounterTimer'
  BY DEF CounterInv, CounterTypes
<1>0. body.window \in Int /\ body.initial \in Int
  BY BodyFacts
<1>a. ASSUME NEW g \in Counter!Goroutines, NEW d \in Int, Counter!ApplyDelta(g, d),
             started' \in BOOLEAN
      PROVE  CounterData' /\ CounterTimer'
  <2>1. /\ count' \in Int /\ events' \in Seq(Int) /\ timer' \in Int /\ timer' >= -1
        /\ CounterTimer'
    BY <1>a, DeltaFacts
  <2>2. UNCHANGED <<body, launched, raw>> /\ overlap' \in BOOLEAN
    BY <1>a DEF Counter!ApplyDelta, Counter!Overlapping
  <2> QED  BY <1>a, <2>1, <2>2 DEF CounterData
<1>1. ASSUME NEW g \in Callers, Counter!Start(g) PROVE CounterData' /\ CounterTimer'
  <2>1. g \in Counter!Goroutines /\ started' \in BOOLEAN /\ Counter!ApplyDelta(g, 0)
    BY <1>1 DEF Counter!Start, Counter!Goroutines
  <2> QED  BY <1>a, <2>1
<1>2. ASSUME NEW g \in Callers, NEW d \in Deltas, Counter!Increment(g, d)
      PROVE  CounterData' /\ CounterTimer'
  <2>1. g \in Counter!Goroutines /\ started' \in BOOLEAN /\ Counter!ApplyDelta(g, d) /\ d \in Int
    BY <1>2 DEF Counter!Increment, Counter!Goroutines, CounterData, CounterOK
  <2> QED  BY <1>a, <2>1
<1>3. ASSUME NEW g \in Callers, Counter!Reset(g) PROVE CounterData' /\ CounterTimer'
  <2>1. /\ count' = body.initial /\ events' = <<>> /\ timer' = -1 /\ overlap' \in BOOLEAN
        /\ UNCHANGED <<body, launched, raw, started>>
    BY <1>3 DEF Counter!Reset, Counter!Overlapping, Counter!NoTimer
  <2> QED  BY <1>0, <2>1 DEF CounterData, CounterTimer, Counter!WindowArmed
<1>4. ASSUME NEW g \in Counter!Goroutines, Counter!SetRawInput(g)
      PROVE  CounterData' /\ CounterTimer'
  <2>1. raw' \in BOOLEAN /\ UNCHANGED <<body, count, events, timer, launched, started, overlap>>
    BY <1>4 DEF Counter!SetRawInput, CounterPcs
  <2> QED  BY <2>1 DEF CounterData, CounterTimer, Counter!WindowArmed
<1>5. ASSUME NEW g \in Counter!Goroutines, Counter!Rollover(g)
      PROVE  CounterData' /\ CounterTimer'
  <2>1. /\ count' = body.initial /\ overlap' \in BOOLEAN
        /\ UNCHANGED <<body, events, timer, launched, raw, started>>
    BY <1>5 DEF Counter!Rollover
  <2> QED  BY <1>0, <2>1 DEF CounterData, CounterTimer, Counter!WindowArmed
<1>6. ASSUME NEW g \in Counter!Goroutines, Counter!Clear(g)
      PROVE  CounterData' /\ CounterTimer'
  BY <1>6 DEF Counter!Clear, CounterData, CounterTimer, Counter!WindowArmed
<1>7. CASE Counter!Count
  <2>0. events \in Seq(Int)
    BY DEF CounterData
  <2>1. Counter!Prune(events) \in Seq(Int) /\ Len(Counter!Prune(events)) \in Int
    BY <2>0, PruneFacts
  <2>2. events # <<>> /\ ~(events[1] < body.window)
    BY <1>7, <2>0, PruneFacts DEF Counter!Count
  <2>3. events[1] \in Int
    BY <2>0, <2>2
  <2>4. ~(timer > 0)
    BY <1>0, <2>2, <2>3 DEF CounterData, CounterTimer
  <2>5. /\ events' = Counter!Prune(events) /\ count' = Len(Counter!Prune(events)) /\ body.window > 0
        /\ UNCHANGED <<body, timer, launched, raw, started, overlap>>
    BY <1>7 DEF Counter!Count
  <2>6. CounterData'
    BY <2>1, <2>5 DEF CounterData
  <2>7. CounterTimer'
    BY <2>2, <2>4, <2>5 DEF CounterTimer, Counter!WindowArmed
  <2> QED  BY <2>6, <2>7
<1>8. CASE Counter!Launch
  <2>1. launched' = TRUE /\ timer' = -1 /\ UNCHANGED <<body, count, events, raw, started, overlap>>
        /\ timer = 0
    BY <1>8 DEF Counter!Launch, Counter!NoTimer
  <2> QED  BY <2>1 DEF CounterData, CounterTimer, Counter!WindowArmed
<1>9. CASE Counter!OnWindowExpire
  <2>0. events \in Seq(Int)
    BY DEF CounterData
  <2>1. Counter!Prune(events) \in Seq(Int) /\ Len(Counter!Prune(events)) \in Int
    BY <2>0, PruneFacts
  <2>3. /\ body.window > 0 /\ UNCHANGED <<body, raw, started>> /\ launched' = FALSE
        /\ events' = Counter!Prune(events) /\ timer' = Counter!ArmExpiry(Counter!Prune(events))
        /\ overlap' \in BOOLEAN
    BY <1>9 DEF Counter!OnWindowExpire, CounterTimer, Counter!Overlapping
  <2>4. count' \in Int
    BY <1>9, <2>1 DEF Counter!OnWindowExpire, CounterData
  <2>5. CounterTimer'
    BY <2>1, <2>3, ArmExpiryFacts DEF CounterTimer, Counter!WindowArmed, Counter!NoTimer
  <2> QED  BY <2>1, <2>3, <2>4, <2>5, ArmExpiryFacts DEF CounterData
<1>10. CASE Counter!Tick
  <2>1. /\ events' = [i \in DOMAIN events |-> events[i] + 1] /\ events # <<>> /\ timer # 0
        /\ timer' = IF timer = -1 THEN timer ELSE timer - 1
        /\ UNCHANGED <<body, count, launched, raw, started, overlap>> /\ body.window > 0
    BY <1>10 DEF Counter!Tick, Counter!NoTimer
  <2>2. events \in Seq(Int)
    BY DEF CounterData
  <2>3. events' \in Seq(Int) /\ events'[1] = events[1] + 1 /\ events[1] \in Int
    BY <2>1, <2>2
  <2>4. CounterData'
    BY <2>1, <2>3 DEF CounterData
  <2>5. CounterTimer'
    <3>1. Counter!WindowArmed'
      BY <2>1 DEF CounterData, CounterTimer, Counter!WindowArmed, Counter!NoTimer
    <3>2. timer' > 0 => events'[1] + timer' = body'.window
      BY <1>0, <2>1, <2>3 DEF CounterData, CounterTimer
    <3> QED  BY <2>1, <3>1, <3>2 DEF CounterTimer
  <2> QED  BY <2>4, <2>5
<1>11. CASE UNCHANGED Counter!vars
  BY <1>11 DEF Counter!vars, CounterData, CounterTimer, Counter!WindowArmed
<1> QED  BY <1>1, <1>2, <1>3, <1>4, <1>5, <1>6, <1>7, <1>8, <1>9, <1>10, <1>11 DEF Counter!Next

LEMMA CounterPcsKept ==
  CounterOK /\ CounterInv /\ [Counter!Next]_Counter!vars => CounterPcs'
<1> SUFFICES ASSUME CounterOK, CounterData, CounterPcs, CounterData', [Counter!Next]_Counter!vars
             PROVE  CounterPcs'
  BY CounterDataKept DEF CounterInv, CounterTypes
<1>m. Counter!Matched(count') \in BOOLEAN
  BY BodyFacts DEF CounterData
<1>a. ASSUME NEW g \in Counter!Goroutines, NEW d, Counter!ApplyDelta(g, d) PROVE CounterPcs'
  <2>1. \E a \in {"set", "set last"} : pc' = [pc EXCEPT ![g] = Counter!At(a, Counter!Matched(count'))]
    BY <1>a DEF Counter!ApplyDelta
  <2> QED  BY <1>m, <2>1, MoveKeepsPcs
<1>1. ASSUME NEW g \in Callers, Counter!Start(g) PROVE CounterPcs'
  BY <1>1, <1>a DEF Counter!Start, Counter!Goroutines
<1>2. ASSUME NEW g \in Callers, NEW d \in Deltas, Counter!Increment(g, d) PROVE CounterPcs'
  BY <1>2, <1>a DEF Counter!Increment, Counter!Goroutines
<1>3. ASSUME NEW g \in Callers, Counter!Reset(g) PROVE CounterPcs'
  BY <1>3, MoveKeepsPcs DEF Counter!Reset, Counter!Goroutines
<1>4. ASSUME NEW g \in Counter!Goroutines, Counter!SetRawInput(g) PROVE CounterPcs'
  <2>1. pc' = [pc EXCEPT ![g] = Counter!At("roll", TRUE)] \/ pc' = [pc EXCEPT ![g] = Counter!Idle]
    BY <1>4 DEF Counter!SetRawInput
  <2> QED  BY <2>1, MoveKeepsPcs
<1>5. ASSUME NEW g \in Counter!Goroutines, Counter!Rollover(g) PROVE CounterPcs'
  <2>1. pc' = [pc EXCEPT ![g] = Counter!At("set last", FALSE)] \/ pc' = [pc EXCEPT ![g] = Counter!Idle]
    BY <1>5 DEF Counter!Rollover, Counter!AfterRoll
  <2> QED  BY <2>1, MoveKeepsPcs
<1>6. ASSUME NEW g \in Counter!Goroutines, Counter!Clear(g) PROVE CounterPcs'
  BY <1>6, MoveKeepsPcs DEF Counter!Clear
<1>7. CASE Counter!Count \/ Counter!Launch \/ Counter!Tick \/ UNCHANGED Counter!vars
  BY <1>7 DEF Counter!Count, Counter!Launch, Counter!Tick, Counter!vars, CounterPcs
<1>8. CASE Counter!OnWindowExpire
  BY <1>8, <1>m, MoveKeepsPcs DEF Counter!OnWindowExpire, Counter!Goroutines
<1> QED  BY <1>1, <1>2, <1>3, <1>4, <1>5, <1>6, <1>7, <1>8 DEF Counter!Next

LEMMA CounterRollKept ==
  CounterOK /\ CounterInv /\ [Counter!Next]_Counter!vars => CounterRoll'
<1> SUFFICES ASSUME CounterOK, CounterData, CounterPcs, CounterTimer, CounterRoll,
                    CounterInv, [Counter!Next]_Counter!vars,
                    body'.rollover, ~Counter!Matched(body.initial)'
             PROVE  CounterRoll'
  BY DEF CounterInv, CounterTypes, CounterRoll
<1>0. UNCHANGED body
  BY DEF Counter!Next, Counter!vars, Counter!Start, Counter!Increment, Counter!ApplyDelta,
         Counter!Reset, Counter!SetRawInput, Counter!Rollover, Counter!Clear, Counter!Count,
         Counter!Launch, Counter!OnWindowExpire, Counter!Tick
<1>1. /\ body.rollover /\ ~Counter!Matched(body.initial)
      /\ Counter!Matched(count)' = Counter!Matched(count')
  BY <1>0 DEF Counter!Matched
<1>2. ~(body.window > 0) /\ timer = -1 /\ ~launched
  BY <1>1, BodyFacts DEF CounterTimer
<1>3. /\ raw => \E g \in Counter!Goroutines : Releasing(g)
      /\ Counter!Matched(count) => \E g \in Counter!Goroutines : Matching(g)
      /\ \A g \in Counter!Goroutines : pc[g].at = "set last" => ~pc[g].v
  BY <1>1 DEF CounterRoll
\* It is enough to say what the goroutine that moves turns into.
<1>4. ASSUME NEW g \in Counter!Goroutines, NEW x, pc' = [pc EXCEPT ![g] = x],
             raw' => Releasing(g)' \/ (raw /\ ~Releasing(g)),
             Counter!Matched(count') => Matching(g)' \/ (Counter!Matched(count) /\ ~Matching(g)),
             x.at = "set last" => ~x.v
      PROVE  CounterRoll'
  <2>1. pc'[g] = x /\ \A k \in Counter!Goroutines \ {g} : pc'[k] = pc[k]
    BY <1>4 DEF CounterPcs
  <2>2. raw' => \E k \in Counter!Goroutines : Releasing(k)'
    BY <1>3, <1>4, <2>1 DEF Releasing
  <2>3. Counter!Matched(count') => \E k \in Counter!Goroutines : Matching(k)'
    BY <1>3, <1>4, <2>1 DEF Matching
  <2>4. \A k \in Counter!Goroutines : pc'[k].at = "set last" => ~pc'[k].v
    BY <1>3, <1>4, <2>1
  <2> QED  BY <1>1, <2>2, <2>3, <2>4 DEF CounterRoll
<1>a. ASSUME NEW g \in Counter!Goroutines, NEW d, Counter!ApplyDelta(g, d) PROVE CounterRoll'
  <2>1. pc[g] = Counter!Idle /\ UNCHANGED raw
    BY <1>a DEF Counter!ApplyDelta
  <2>2. pc' = [pc EXCEPT ![g] = Counter!At("set", Counter!Matched(count'))]
    BY <1>a, <1>2 DEF Counter!ApplyDelta
  <2>3. pc'[g] = Counter!At("set", Counter!Matched(count'))
    BY <2>2 DEF CounterPcs
  <2>4. ~Releasing(g)
    BY <2>1 DEF Releasing, Counter!At, Counter!Idle
  <2>5. Counter!Matched(count') => Matching(g)'
    <3> SUFFICES ASSUME Counter!Matched(count') PROVE Matching(g)'
      OBVIOUS
    <3>1. Counter!Matched(count') = TRUE
      BY BodyFacts, CounterDataKept DEF CounterData
    <3> QED  BY <2>3, <3>1 DEF Matching, Counter!At
  <2>6. Counter!At("set", Counter!Matched(count')).at # "set last"
    BY DEF Counter!At
  <2> QED  BY <1>4, <2>1, <2>2, <2>4, <2>5, <2>6
<1>5. ASSUME NEW g \in Callers, Counter!Start(g) PROVE CounterRoll'
  BY <1>5, <1>a DEF Counter!Start, Counter!Goroutines
<1>6. ASSUME NEW g \in Callers, NEW d \in Deltas, Counter!Increment(g, d) PROVE CounterRoll'
  BY <1>6, <1>a DEF Counter!Increment, Counter!Goroutines
<1>7. ASSUME NEW g \in Callers, Counter!Reset(g) PROVE CounterRoll'
  <2>1. g \in Counter!Goroutines
    BY DEF Counter!Goroutines
  <2>2. /\ pc[g] = Counter!Idle /\ UNCHANGED raw /\ count' = body.initial
        /\ pc' = [pc EXCEPT ![g] = Counter!At("clear", FALSE)]
    BY <1>7 DEF Counter!Reset
  <2>3. ~Releasing(g) /\ Counter!At("clear", FALSE).at # "set last"
    BY <2>2 DEF Releasing, Counter!At, Counter!Idle
  <2> QED  BY <1>1, <1>4, <2>1, <2>2, <2>3
<1>8. ASSUME NEW g \in Counter!Goroutines, Counter!SetRawInput(g) PROVE CounterRoll'
  <2>1. UNCHANGED count /\ raw' = pc[g].v /\ pc[g].at \in {"set", "set last"}
    BY <1>8 DEF Counter!SetRawInput
  <2>2. CASE pc[g].v
    <3>1. pc[g].at = "set"
      BY <1>3, <2>1, <2>2
    <3>2. pc' = [pc EXCEPT ![g] = Counter!At("roll", TRUE)]
      BY <1>8, <1>1, <2>2, <3>1 DEF Counter!SetRawInput
    <3>3. Releasing(g)' /\ Matching(g)' /\ Counter!At("roll", TRUE).at # "set last"
      BY <3>2 DEF CounterPcs, Releasing, Matching, Counter!At
    <3> QED  BY <1>4, <3>2, <3>3
  <2>3. CASE ~pc[g].v
    <3>1. pc' = [pc EXCEPT ![g] = Counter!Idle]
      BY <1>8, <2>3 DEF Counter!SetRawInput
    <3>2. ~raw' /\ Counter!Idle.at # "set last"
      BY <2>1, <2>3 DEF Counter!Idle
    <3>3. ~Matching(g)
      BY <2>1, <2>3 DEF Matching, Counter!At
    <3> QED  BY <1>4, <2>1, <3>1, <3>2, <3>3
  <2> QED  BY <2>2, <2>3
<1>9. ASSUME NEW g \in Counter!Goroutines, Counter!Rollover(g) PROVE CounterRoll'
  <2>1. count' = body.initial /\ pc' = [pc EXCEPT ![g] = Counter!At("set last", FALSE)]
    BY <1>9, <1>1 DEF Counter!Rollover, Counter!AfterRoll
  <2>2. Releasing(g)' /\ ~Counter!At("set last", FALSE).v
    BY <2>1 DEF CounterPcs, Releasing, Counter!At
  <2> QED  BY <1>1, <1>4, <2>1, <2>2
<1>10. ASSUME NEW g \in Counter!Goroutines, Counter!Clear(g) PROVE CounterRoll'
  <2>1. pc' = [pc EXCEPT ![g] = Counter!Idle] /\ ~raw' /\ UNCHANGED count
    BY <1>10 DEF Counter!Clear
  <2>2. ~Matching(g) /\ Counter!Idle.at # "set last"
    BY <1>10 DEF Counter!Clear, Matching, Counter!At, Counter!Idle
  <2> QED  BY <1>4, <2>1, <2>2
<1>11. CASE Counter!Count \/ Counter!Launch \/ Counter!Tick \/ Counter!OnWindowExpire
  <2>1. timer # 0
    BY <1>2
  <2> QED  BY <1>11, <1>2, <2>1 DEF Counter!Count, Counter!Launch, Counter!Tick, Counter!OnWindowExpire
<1>12. CASE UNCHANGED Counter!vars
  <2>1. UNCHANGED <<raw, count, pc>>
    BY <1>12 DEF Counter!vars
  <2>2. \A g \in Counter!Goroutines : (Releasing(g) => Releasing(g)') /\ (Matching(g) => Matching(g)')
    BY <2>1 DEF Releasing, Matching
  <2> QED  BY <1>1, <1>3, <2>1, <2>2 DEF CounterRoll
<1> QED  BY <1>5, <1>6, <1>7, <1>8, <1>9, <1>10, <1>11, <1>12 DEF Counter!Next

LEMMA CounterLoneKept ==
  CounterOK /\ CounterInv /\ [Counter!Next]_Counter!vars => CounterLone'
<1> SUFFICES ASSUME CounterOK, CounterInv, CounterData, CounterPcs, CounterTimer, CounterLone,
                    [Counter!Next]_Counter!vars, ~overlap'
             PROVE  CounterLone'
  BY DEF CounterInv, CounterTypes, CounterLone
<1>0. UNCHANGED body
  BY DEF Counter!Next, Counter!vars, Counter!Start, Counter!Increment, Counter!ApplyDelta,
         Counter!Reset, Counter!SetRawInput, Counter!Rollover, Counter!Clear, Counter!Count,
         Counter!Launch, Counter!OnWindowExpire, Counter!Tick
<1>1. Counter!Matched(count)' = Counter!Matched(count') /\ Counter!Matched(count') \in BOOLEAN
  <2>1. count' \in Int
    BY CounterDataKept DEF CounterData
  <2> QED  BY <1>0, <2>1, BodyFacts DEF Counter!Matched
\* It is enough that all others are idle and that what g does next fits.
<1>2. ASSUME NEW g \in Counter!Goroutines, NEW x, pc' = [pc EXCEPT ![g] = x],
             \A k \in Counter!Goroutines \ {g} : pc[k].at = "idle",
             x.at \in {"set", "set last"} => x.v = Counter!Matched(count') \/ Soon',
             x.at = "roll" => raw',
             x.at = "clear" => count' = body.initial /\ events' = <<>>,
             x.at = "idle" => Tracks' \/ Soon'
      PROVE  CounterLone'
  <2>1. pc'[g] = x /\ \A k \in Counter!Goroutines \ {g} : pc'[k].at = "idle"
    BY <1>2 DEF CounterPcs
  <2> QED  BY <1>0, <1>1, <1>2, <2>1 DEF CounterLone
\* A call begins where nobody is busy, and goes on where nobody else is.
<1>3. ASSUME overlap' = (overlap \/ Counter!Busy # {})
      PROVE  \A k \in Counter!Goroutines : pc[k].at = "idle"
  <2>1. Counter!Busy = {}
    BY <1>3
  <2>2. \A k \in Counter!Goroutines : pc[k] = Counter!Idle
    BY <2>1 DEF Counter!Busy
  <2> QED  BY <2>2 DEF Counter!Idle
<1>4. ASSUME NEW g \in Counter!Goroutines, pc[g].at # "idle", ~overlap
      PROVE  \A k \in Counter!Goroutines \ {g} : pc[k].at = "idle"
  BY <1>4 DEF CounterLone
<1>a. ASSUME NEW g \in Counter!Goroutines, NEW d, Counter!ApplyDelta(g, d) PROVE CounterLone'
  <2>1. PICK a \in {"set", "set last"} : pc' = [pc EXCEPT ![g] = Counter!At(a, Counter!Matched(count'))]
    BY <1>a DEF Counter!ApplyDelta
  <2>2. \A k \in Counter!Goroutines : pc[k].at = "idle"
    BY <1>a, <1>3 DEF Counter!ApplyDelta, Counter!Overlapping
  <2>3. /\ Counter!At(a, Counter!Matched(count')).at = a
        /\ Counter!At(a, Counter!Matched(count')).v = Counter!Matched(count')
    BY DEF Counter!At
  <2> HIDE DEF Counter!At
  <2> QED  BY <1>2, <2>1, <2>2, <2>3
<1>5. ASSUME NEW g \in Callers, Counter!Start(g) PROVE CounterLone'
  BY <1>5, <1>a DEF Counter!Start, Counter!Goroutines
<1>6. ASSUME NEW g \in Callers, NEW d \in Deltas, Counter!Increment(g, d) PROVE CounterLone'
  BY <1>6, <1>a DEF Counter!Increment, Counter!Goroutines
<1>7. ASSUME NEW g \in Callers, Counter!Reset(g) PROVE CounterLone'
  <2>1. g \in Counter!Goroutines
    BY DEF Counter!Goroutines
  <2>2. /\ count' = body.initial /\ events' = <<>>
        /\ pc' = [pc EXCEPT ![g] = Counter!At("clear", FALSE)]
    BY <1>7 DEF Counter!Reset
  <2>3. \A k \in Counter!Goroutines : pc[k].at = "idle"
    BY <1>7, <1>3 DEF Counter!Reset, Counter!Overlapping
  <2>4. Counter!At("clear", FALSE).at = "clear"
    BY DEF Counter!At
  <2> QED  BY <1>2, <2>1, <2>2, <2>3, <2>4
<1>8. ASSUME NEW g \in Counter!Goroutines, Counter!SetRawInput(g) PROVE CounterLone'
  <2>1. /\ raw' = pc[g].v /\ pc[g].at \in {"set", "set last"} /\ ~overlap
        /\ UNCHANGED <<count, timer, launched>>
    BY <1>8 DEF Counter!SetRawInput
  <2>2. \A k \in Counter!Goroutines \ {g} : pc[k].at = "idle"
    BY <1>4, <2>1
  <2>3. pc[g].v = Counter!Matched(count) \/ Soon
    BY <2>1 DEF CounterLone
  <2>4. CASE pc[g].at = "set" /\ pc[g].v /\ body.rollover
    <3>1. pc' = [pc EXCEPT ![g] = Counter!At("roll", TRUE)] /\ raw'
      BY <1>8, <2>1, <2>4 DEF Counter!SetRawInput
    <3>2. Counter!At("roll", TRUE).at = "roll"
      BY DEF Counter!At
    <3> QED  BY <1>2, <2>2, <3>1, <3>2
  <2>5. CASE ~(pc[g].at = "set" /\ pc[g].v /\ body.rollover)
    <3>1. pc' = [pc EXCEPT ![g] = Counter!Idle]
      BY <1>8, <2>5 DEF Counter!SetRawInput
    <3>2. Tracks' \/ Soon'
      BY <1>1, <2>1, <2>3 DEF Tracks, Soon
    <3>3. Counter!Idle.at = "idle"
      BY DEF Counter!Idle
    <3> QED  BY <1>2, <2>2, <3>1, <3>2, <3>3
  <2> QED  BY <2>4, <2>5
<1>9. ASSUME NEW g \in Counter!Goroutines, Counter!Rollover(g) PROVE CounterLone'
  <2>1. pc[g].at = "roll" /\ count' = body.initial /\ UNCHANGED raw /\ ~overlap
    BY <1>9 DEF Counter!Rollover, CounterData
  <2>2. raw
    BY <2>1 DEF CounterLone
  <2>3. \A k \in Counter!Goroutines \ {g} : pc[k].at = "idle"
    BY <1>4, <2>1
  <2>4. CASE Counter!Matched(body.initial)
    <3>1. pc' = [pc EXCEPT ![g] = Counter!Idle]
      BY <1>9, <2>4 DEF Counter!Rollover, Counter!AfterRoll
    <3>2. Counter!Matched(count') = TRUE /\ raw' = TRUE
      BY <1>1, <2>1, <2>2, <2>4 DEF CounterData
    <3>3. Tracks'
      BY <1>1, <3>2 DEF Tracks
    <3>4. Counter!Idle.at = "idle"
      BY DEF Counter!Idle
    <3> QED  BY <1>2, <2>3, <3>1, <3>3, <3>4
  <2>5. CASE ~Counter!Matched(body.initial)
    <3>1. pc' = [pc EXCEPT ![g] = Counter!At("set last", FALSE)]
      BY <1>9, <2>5 DEF Counter!Rollover, Counter!AfterRoll
    <3>2. Counter!Matched(count') = FALSE
      BY <1>1, <2>1, <2>5
    <3>3. Counter!At("set last", FALSE).at = "set last" /\ Counter!At("set last", FALSE).v = FALSE
      BY DEF Counter!At
    <3> QED  BY <1>2, <2>3, <3>1, <3>2, <3>3
  <2> QED  BY <2>4, <2>5
<1>10. ASSUME NEW g \in Counter!Goroutines, Counter!Clear(g) PROVE CounterLone'
  <2>1. pc[g].at = "clear" /\ ~raw' /\ UNCHANGED count /\ ~overlap
        /\ pc' = [pc EXCEPT ![g] = Counter!Idle]
    BY <1>10 DEF Counter!Clear
  <2>2. Tracks'
    BY <1>0, <2>1 DEF CounterLone, Tracks
  <2>3. \A k \in Counter!Goroutines \ {g} : pc[k].at = "idle"
    BY <1>4, <2>1
  <2>4. Counter!Idle.at = "idle"
    BY DEF Counter!Idle
  <2> QED  BY <1>2, <2>1, <2>2, <2>3, <2>4
<1>11. CASE Counter!Count
  <2>0. events \in Seq(Int) /\ events # Counter!Prune(events)
    BY <1>11 DEF Counter!Count, CounterData
  <2>1. events # <<>> /\ ~(events[1] < body.window)
    BY <2>0, PruneFacts
  <2>2. events[1] \in Int /\ body.window \in Int
    BY <2>0, <2>1, BodyFacts
  <2>3. ~(timer > 0)
    BY <2>1, <2>2 DEF CounterData, CounterTimer
  <2>4. Soon
    BY <2>1, <2>3 DEF CounterTimer, Counter!WindowArmed, Counter!NoTimer, CounterData, Soon
  <2>5. Soon' /\ UNCHANGED <<pc, raw, overlap>>
    BY <1>11, <2>4 DEF Counter!Count, Soon
  <2>6. \A g \in Counter!Goroutines : pc[g].at # "clear"
    BY <2>1, <2>5 DEF CounterLone
  <2> QED  BY <2>5, <2>6 DEF CounterLone
<1>12. CASE Counter!Launch
  <2>1. Soon' /\ UNCHANGED <<pc, raw, overlap, count, events, started>>
    BY <1>12 DEF Counter!Launch, Soon
  <2> QED  BY <1>0, <2>1 DEF CounterLone
<1>13. CASE Counter!OnWindowExpire
  <2>1. pc' = [pc EXCEPT ![Counter!Expiry] = Counter!At("set last", Counter!Matched(count'))]
    BY <1>13 DEF Counter!OnWindowExpire
  <2>2. \A k \in Counter!Goroutines : pc[k].at = "idle"
    BY <1>13, <1>3 DEF Counter!OnWindowExpire, Counter!Overlapping
  <2>3. /\ Counter!At("set last", Counter!Matched(count')).at = "set last"
        /\ Counter!At("set last", Counter!Matched(count')).v = Counter!Matched(count')
    BY DEF Counter!At
  <2>4. Counter!Expiry \in Counter!Goroutines
    BY DEF Counter!Goroutines
  <2> QED  BY <1>2, <2>1, <2>2, <2>3, <2>4
<1>14. CASE Counter!Tick \/ UNCHANGED Counter!vars
  <2>1. UNCHANGED <<body, pc, raw, overlap, count, launched, started>> /\ (events = <<>> => events' = <<>>)
    BY <1>14 DEF Counter!Tick, Counter!vars
  <2>2. Soon => Soon'
    BY <1>14 DEF Counter!Tick, Counter!vars, Soon
  <2>3. Tracks' = Tracks /\ Counter!Matched(count)' = Counter!Matched(count)
    BY <2>1 DEF Tracks, Counter!Matched
  <2> QED  BY <2>1, <2>2, <2>3 DEF CounterLone
<1> QED  BY <1>5, <1>6, <1>7, <1>8, <1>9, <1>10, <1>11, <1>12, <1>13, <1>14 DEF Counter!Next

LEMMA CounterInvariance == CounterOK => (Counter!Spec => []CounterInv)
<1> SUFFICES ASSUME CounterOK PROVE Counter!Spec => []CounterInv
  OBVIOUS
<1>1. Counter!Init => CounterInv
  BY CounterInit
<1>2. CounterInv /\ [Counter!Next]_Counter!vars => CounterInv'
  BY CounterDataKept, CounterPcsKept, CounterRollKept, CounterLoneKept DEF CounterInv, CounterTypes
<1> QED  BY <1>1, <1>2, PTL DEF Counter!Spec

\* An event inside the window always has its re-evaluation coming.
THEOREM WindowAlwaysArmed == CounterOK => (Counter!Spec => []Counter!WindowArmed)
<1> SUFFICES ASSUME CounterOK PROVE Counter!Spec => []Counter!WindowArmed
  OBVIOUS
<1>1. Counter!Spec => []CounterInv
  BY CounterInvariance
<1>2. CounterInv => Counter!WindowArmed
  BY DEF CounterInv, CounterTimer
<1> QED  BY <1>1, <1>2, PTL

\* However many increments interleave, a rollover counter at rest is below its
\* preset and does not assert its input.
THEOREM RolloverAlwaysReleases == CounterOK => (Counter!Spec => []Counter!RolloverReleases)
<1> SUFFICES ASSUME CounterOK PROVE Counter!Spec => []Counter!RolloverReleases
  OBVIOUS
<1>1. Counter!Spec => []CounterInv
  BY CounterInvariance
<1>2. CounterInv => Counter!RolloverReleases
  <2> SUFFICES ASSUME CounterInv, Counter!Quiet, body.rollover, ~Counter!Matched(body.initial)
               PROVE  ~raw /\ ~Counter!Matched(count)
    BY DEF Counter!RolloverReleases
  <2>1. \A g \in Counter!Goroutines : pc[g].at = "idle"
    BY DEF Counter!Quiet, Counter!Busy, Counter!Idle
  <2>2. \A g \in Counter!Goroutines : ~Releasing(g) /\ ~Matching(g)
    BY <2>1 DEF Releasing, Matching
  <2> QED  BY <2>2 DEF CounterInv, CounterRoll
<1> QED  BY <1>1, <1>2, PTL

\* Calls that do not overlap leave the input at what the count says.
THEOREM CounterCallTracks == CounterOK => (Counter!Spec => []Counter!LoneCallTracks)
<1> SUFFICES ASSUME CounterOK PROVE Counter!Spec => []Counter!LoneCallTracks
  OBVIOUS
<1>1. Counter!Spec => []CounterInv
  BY CounterInvariance
<1>2. CounterInv => Counter!LoneCallTracks
  <2> SUFFICES ASSUME CounterInv, Counter!Quiet, ~overlap PROVE Tracks
    BY DEF Counter!LoneCallTracks, Tracks
  <2>1. \A g \in Counter!Goroutines : pc[g].at = "idle"
    BY DEF Counter!Quiet, Counter!Busy, Counter!Idle
  <2>2. started /\ ~Soon
    BY DEF Counter!Quiet, Soon
  <2> QED  BY <2>1, <2>2 DEF CounterInv, CounterLone
<1> QED  BY <1>1, <1>2, PTL

-----------------------------------------------------------------------------
(* Threshold.                                                              *)

ThresholdOK ==
  Values \subseteq Int /\ High \in Int /\ Low \in Int /\ Debounces \subseteq Nat

\* The levels of an accepted block are apart, so that the band is one; what
\* deriveLocked keeps is what the last value outside the band said.
ThresholdData ==
  /\ form.high \in BOOLEAN /\ form.on \in Int /\ form.off \in Int /\ form.debounce \in Nat
  /\ form.high => form.on > form.off
  /\ ~form.high => form.off > form.on
  /\ value \in Int /\ fired \in Nat
  /\ derived \in BOOLEAN /\ stable \in BOOLEAN /\ raw \in BOOLEAN /\ overlap \in BOOLEAN
  /\ Threshold!Hysteresis
ThresholdPcs ==
  /\ pc \in [Threshold!Goroutines ->
               [at : {"idle", "derived", "set", "clear", "sample"}, v : BOOLEAN]]
  /\ \A g \in Threshold!Goroutines : pc[g].at = "idle" => pc[g] = Threshold!Idle

\* While nothing overlapped, the one goroutine under way carries the derived
\* or the stable value, whichever it is about to commit.
Resting ==
  /\ raw = stable
  /\ derived # stable => form.debounce > 0 /\ (deb # "none" \/ fired > 0)
Fits(x) ==
  /\ x.at = "derived" => x.v = derived /\ raw = stable
  /\ x.at = "set" => x.v = stable /\ derived = stable
  /\ x.at = "clear" => ~derived /\ ~stable
  /\ x.at = "sample" => ~derived /\ ~stable /\ ~raw
ThresholdLone ==
  ~overlap =>
    /\ \A g, k \in Threshold!Goroutines : pc[g].at # "idle" /\ pc[k].at # "idle" => g = k
    /\ \A g \in Threshold!Goroutines : Fits(pc[g])
    /\ (\A g \in Threshold!Goroutines : pc[g].at = "idle") => Resting

ThresholdInv == ThresholdData /\ ThresholdPcs /\ ThresholdLone

\* deriveLocked computes the reference: the band is as wide as configured.
LEMMA DeriveFacts ==
  ASSUME ThresholdData, NEW v \in Int
  PROVE  /\ Threshold!DeriveLocked(derived, v) \in BOOLEAN
         /\ Threshold!DeriveLocked(derived, v) = Threshold!Reference(ref, v)
<1>0. derived \in BOOLEAN /\ ref = derived
  BY DEF ThresholdData, Threshold!Hysteresis
<1>a. /\ form.on \in Int /\ form.off \in Int
      /\ form.high => form.on > form.off
      /\ ~form.high => form.off > form.on
  BY DEF ThresholdData
<1>1. CASE form.high /\ derived
  <2>1. Threshold!DeriveLocked(derived, v) = (~(v < form.off))
    BY <1>1 DEF Threshold!DeriveLocked
  <2>2. Threshold!Reference(ref, v) = IF v > form.on THEN TRUE ELSE IF v < form.off THEN FALSE ELSE TRUE
    BY <1>1, <1>0 DEF Threshold!Reference, Threshold!Beyond, Threshold!Within
  <2>3. ~(v > form.on /\ v < form.off)
    BY <1>1, <1>a
  <2> QED  BY <2>1, <2>2, <2>3, Zenon
<1>2. CASE form.high /\ ~derived
  <2>1. Threshold!DeriveLocked(derived, v) = (v > form.on)
    BY <1>2 DEF Threshold!DeriveLocked
  <2>2. Threshold!Reference(ref, v) = IF v > form.on THEN TRUE ELSE IF v < form.off THEN FALSE ELSE FALSE
    BY <1>2, <1>0 DEF Threshold!Reference, Threshold!Beyond, Threshold!Within
  <2>3. ~(v > form.on /\ v < form.off)
    BY <1>2, <1>a
  <2>4. (v > form.on) = TRUE \/ (v > form.on) = FALSE
    BY <1>a
  <2> QED  BY <2>1, <2>2, <2>3, <2>4, Zenon
<1>3. CASE ~form.high /\ derived
  <2>1. Threshold!DeriveLocked(derived, v) = (~(v > form.off))
    BY <1>3 DEF Threshold!DeriveLocked
  <2>2. Threshold!Reference(ref, v) = IF v < form.on THEN TRUE ELSE IF v > form.off THEN FALSE ELSE TRUE
    BY <1>3, <1>0 DEF Threshold!Reference, Threshold!Beyond, Threshold!Within
  <2>3. ~(v < form.on /\ v > form.off)
    BY <1>3, <1>a
  <2> QED  BY <2>1, <2>2, <2>3, Zenon
<1>4. CASE ~form.high /\ ~derived
  <2>1. Threshold!DeriveLocked(derived, v) = (v < form.on)
    BY <1>4 DEF Threshold!DeriveLocked
  <2>2. Threshold!Reference(ref, v) = IF v < form.on THEN TRUE ELSE IF v > form.off THEN FALSE ELSE FALSE
    BY <1>4, <1>0 DEF Threshold!Reference, Threshold!Beyond, Threshold!Within
  <2>3. ~(v < form.on /\ v > form.off)
    BY <1>4, <1>a
  <2>4. (v < form.on) = TRUE \/ (v < form.on) = FALSE
    BY <1>a
  <2> QED  BY <2>1, <2>2, <2>3, <2>4, Zenon
<1> QED  BY <1>1, <1>2, <1>3, <1>4

LEMMA ThresholdInit == ThresholdOK /\ Threshold!Init => ThresholdInv
<1> SUFFICES ASSUME ThresholdOK, Threshold!Init PROVE ThresholdInv  OBVIOUS
<1>1. PICK b \in Threshold!Bodies, d \in Debounces, s \in BOOLEAN :
         /\ form = [high |-> b.onAbove # Threshold!Absent, debounce |-> d,
                    on |-> IF b.onAbove # Threshold!Absent THEN b.onAbove ELSE b.onBelow,
                    off |-> IF b.onAbove # Threshold!Absent THEN b.offBelow ELSE b.offAbove]
         /\ derived = s /\ stable = s /\ ref = s /\ raw = s
  BY DEF Threshold!Init
<1>2. /\ b.onAbove \in Int /\ b.offBelow \in Int /\ b.onBelow \in Int /\ b.offAbove \in Int
      /\ Threshold!ProcessThresholdCondition(b)
  BY <1>1 DEF Threshold!Bodies, Threshold!Levels, Threshold!Absent, ThresholdOK
<1>3. CASE b.onAbove # Threshold!Absent
  <2>1. b.onAbove > b.offBelow
    BY <1>2, <1>3 DEF Threshold!ProcessThresholdCondition
  <2>2. form.high = TRUE /\ form.on = b.onAbove /\ form.off = b.offBelow /\ form.debounce = d
    BY <1>1, <1>3
  <2> QED  BY <1>1, <1>2, <2>1, <2>2
           DEF ThresholdInv, ThresholdData, ThresholdPcs, ThresholdLone, Resting, Fits, Threshold!Init,
               Threshold!Idle, Threshold!Hysteresis, ThresholdOK
<1>4. CASE b.onAbove = Threshold!Absent
  <2>1. b.offAbove > b.onBelow
    BY <1>2, <1>4 DEF Threshold!ProcessThresholdCondition
  <2>2. form.high = FALSE /\ form.on = b.onBelow /\ form.off = b.offAbove /\ form.debounce = d
    BY <1>1, <1>4
  <2> QED  BY <1>1, <1>2, <2>1, <2>2
           DEF ThresholdInv, ThresholdData, ThresholdPcs, ThresholdLone, Resting, Fits, Threshold!Init,
               Threshold!Idle, Threshold!Hysteresis, ThresholdOK
<1> QED  BY <1>3, <1>4

LEMMA ThresholdKept ==
  ThresholdOK /\ ThresholdInv /\ [Threshold!Next]_Threshold!vars => ThresholdInv'
<1> SUFFICES ASSUME ThresholdOK, ThresholdData, ThresholdPcs, ThresholdLone,
                    [Threshold!Next]_Threshold!vars
             PROVE  ThresholdInv'
  BY DEF ThresholdInv
<1> DEFINE Place == [at : {"idle", "derived", "set", "clear", "sample"}, v : BOOLEAN]
           Rest(g) == \A k \in Threshold!Goroutines \ {g} : pc[k].at = "idle"
\* It is enough to look at the goroutine that moves.
<1>1. ASSUME ThresholdData', NEW g \in Threshold!Goroutines, NEW x \in Place,
             pc' = [pc EXCEPT ![g] = x], x.at = "idle" => x = Threshold!Idle,
             ~overlap' => Rest(g) /\ Fits(x)' /\ (x.at = "idle" => Resting')
      PROVE  ThresholdInv'
  <2>1. pc'[g] = x /\ \A k \in Threshold!Goroutines \ {g} : pc'[k] = pc[k]
    BY <1>1 DEF ThresholdPcs
  <2>2. ThresholdPcs'
    BY <1>1, <2>1 DEF ThresholdPcs
  <2>3. ASSUME ~overlap', NEW k \in Threshold!Goroutines \ {g} PROVE pc'[k].at = "idle" /\ Fits(pc[k])'
    BY <1>1, <2>1, <2>3 DEF Fits
  <2>4. ThresholdLone'
    BY <1>1, <2>1, <2>3 DEF ThresholdLone
  <2> QED  BY <1>1, <2>2, <2>4 DEF ThresholdInv
<1>2. ASSUME overlap' = (overlap \/ Threshold!Busy # {}), ~overlap'
      PROVE  (\A k \in Threshold!Goroutines : pc[k].at = "idle") /\ Resting
  <2>1. Threshold!Busy = {} /\ ~overlap
    BY <1>2 DEF ThresholdData
  <2>2. \A k \in Threshold!Goroutines : pc[k] = Threshold!Idle
    BY <2>1 DEF Threshold!Busy
  <2>3. \A k \in Threshold!Goroutines : pc[k].at = "idle"
    BY <2>2 DEF Threshold!Idle
  <2> QED  BY <2>1, <2>3 DEF ThresholdLone
<1>3. ASSUME NEW g \in Threshold!Goroutines, pc[g].at # "idle", ~overlap
      PROVE  Rest(g) /\ Fits(pc[g])
  BY <1>3 DEF ThresholdLone
<1>i. Threshold!Idle \in Place /\ Threshold!Idle.at = "idle"
  BY DEF Threshold!Idle
<1>j. ASSUME NEW a \in {"derived", "set", "clear", "sample"}, NEW v \in BOOLEAN
      PROVE  Threshold!At(a, v) \in Place /\ Threshold!At(a, v).at = a /\ Threshold!At(a, v).v = v
  BY DEF Threshold!At
<1>4. ASSUME NEW g \in Callers, NEW v \in Values, Threshold!SubmitValue(g, v) PROVE ThresholdInv'
  <2>0. g \in Threshold!Goroutines /\ v \in Int
    BY DEF Threshold!Goroutines, ThresholdOK
  <2>1. PICK d \in BOOLEAN : d = Threshold!DeriveLocked(derived, v) /\ d = Threshold!Reference(ref, v)
    BY <2>0, DeriveFacts
  <2>2. /\ value' = v /\ derived' = d /\ ref' = Threshold!Reference(ref, v)
        /\ pc' = [pc EXCEPT ![g] = IF d = derived THEN Threshold!Idle ELSE Threshold!At("derived", d)]
        /\ UNCHANGED <<form, stable, deb, fired, raw>>
        /\ overlap' = (overlap \/ Threshold!Busy # {})
    BY <1>4, <2>1 DEF Threshold!SubmitValue, Threshold!Overlapping
  <2>3. ThresholdData'
    BY <2>0, <2>1, <2>2 DEF ThresholdData, Threshold!Hysteresis
  <2>4. CASE d = derived
    <3>1. ~overlap' => Rest(g) /\ Fits(Threshold!Idle)' /\ Resting'
      BY <1>2, <1>i, <2>2, <2>4 DEF Fits, Resting
    <3> QED  BY <1>1, <1>i, <2>0, <2>2, <2>3, <2>4, <3>1
  <2>5. CASE d # derived
    <3>1. ~overlap' => Rest(g) /\ Fits(Threshold!At("derived", d))'
      BY <1>2, <1>j, <2>1, <2>2 DEF Fits, Resting
    <3> QED  BY <1>1, <1>j, <2>0, <2>1, <2>2, <2>3, <2>5, <3>1
  <2> QED  BY <2>4, <2>5
<1>5. ASSUME NEW g \in Threshold!Goroutines, Threshold!SubmitDerived(g) PROVE ThresholdInv'
  <2>0. PICK v \in BOOLEAN : v = pc[g].v
    BY DEF ThresholdPcs
  <2>1. pc[g].at = "derived" /\ UNCHANGED <<form, value, derived, ref, fired, raw>>
    BY <1>5 DEF Threshold!SubmitDerived
  <2>2. (~overlap' => ~overlap) /\ overlap' \in BOOLEAN
    BY <1>5 DEF Threshold!SubmitDerived
  <2>3. ~overlap' => Rest(g) /\ v = derived /\ raw = stable
    BY <1>3, <2>0, <2>1, <2>2 DEF Fits
  <2>4. CASE v = stable
    <3>1. UNCHANGED stable /\ pc' = [pc EXCEPT ![g] = Threshold!Idle]
      BY <1>5, <2>0, <2>4 DEF Threshold!SubmitDerived
    <3>2. ThresholdData'
      BY <2>1, <2>2, <3>1 DEF ThresholdData, Threshold!Hysteresis
    <3>3. ~overlap' => Fits(Threshold!Idle)' /\ Resting'
      BY <1>i, <2>1, <2>3, <2>4, <3>1 DEF Fits, Resting
    <3> QED  BY <1>1, <1>i, <2>3, <3>1, <3>2, <3>3
  <2>5. CASE v # stable /\ form.debounce = 0
    <3>1. stable' = v /\ pc' = [pc EXCEPT ![g] = Threshold!At("set", v)]
      BY <1>5, <2>0, <2>5 DEF Threshold!SubmitDerived
    <3>2. ThresholdData'
      BY <2>0, <2>1, <2>2, <3>1 DEF ThresholdData, Threshold!Hysteresis
    <3>3. ~overlap' => Fits(Threshold!At("set", v))'
      BY <1>j, <2>0, <2>1, <2>3, <3>1 DEF Fits
    <3> QED  BY <1>1, <1>j, <2>0, <2>3, <3>1, <3>2, <3>3
  <2>6. CASE v # stable /\ form.debounce # 0
    <3>1. UNCHANGED stable /\ deb' = "armed" /\ pc' = [pc EXCEPT ![g] = Threshold!Idle]
      BY <1>5, <2>0, <2>6 DEF Threshold!SubmitDerived
    <3>2. ThresholdData'
      BY <2>1, <2>2, <3>1 DEF ThresholdData, Threshold!Hysteresis
    <3>3. form.debounce > 0
      BY <2>6 DEF ThresholdData
    <3>4. ~overlap' => Fits(Threshold!Idle)' /\ Resting'
      BY <1>i, <2>1, <2>3, <3>1, <3>3 DEF Fits, Resting
    <3> QED  BY <1>1, <1>i, <2>3, <3>1, <3>2, <3>4
  <2> QED  BY <2>4, <2>5, <2>6
<1>6. ASSUME NEW g \in Threshold!Goroutines, Threshold!SetRawInput(g) PROVE ThresholdInv'
  <2>1. /\ pc[g].at = "set" /\ raw' = pc[g].v /\ pc' = [pc EXCEPT ![g] = Threshold!Idle]
        /\ UNCHANGED <<form, value, derived, stable, ref, deb, fired, overlap>>
    BY <1>6 DEF Threshold!SetRawInput
  <2>2. ThresholdData'
    BY <2>1 DEF ThresholdData, Threshold!Hysteresis, ThresholdPcs
  <2>3. ~overlap' => Rest(g) /\ Fits(Threshold!Idle)' /\ Resting'
    BY <1>3, <1>i, <2>1 DEF Fits, Resting
  <2> QED  BY <1>1, <1>i, <2>1, <2>2, <2>3
<1>7. ASSUME NEW g \in Callers, Threshold!Clear(g) PROVE ThresholdInv'
  <2>0. g \in Threshold!Goroutines
    BY DEF Threshold!Goroutines
  <2>1. /\ derived' = FALSE /\ stable' = FALSE /\ ref' = FALSE
        /\ pc' = [pc EXCEPT ![g] = Threshold!At("clear", FALSE)]
        /\ overlap' = (overlap \/ Threshold!Busy # {}) /\ UNCHANGED <<form, value, fired, raw>>
    BY <1>7 DEF Threshold!Clear, Threshold!Overlapping
  <2>2. ThresholdData'
    BY <2>1 DEF ThresholdData, Threshold!Hysteresis
  <2>3. ~overlap' => Rest(g) /\ Fits(Threshold!At("clear", FALSE))'
    BY <1>2, <1>j, <2>1 DEF Fits
  <2> QED  BY <1>1, <1>j, <2>0, <2>1, <2>2, <2>3
<1>8. ASSUME NEW g \in Threshold!Goroutines, Threshold!ClearMachine(g) PROVE ThresholdInv'
  <2>1. /\ pc[g].at = "clear" /\ raw' = FALSE /\ pc' = [pc EXCEPT ![g] = Threshold!At("sample", FALSE)]
        /\ UNCHANGED <<form, value, derived, stable, ref, deb, fired, overlap>>
    BY <1>8 DEF Threshold!ClearMachine
  <2>2. ThresholdData'
    BY <2>1 DEF ThresholdData, Threshold!Hysteresis
  <2>3. ~overlap' => Rest(g) /\ Fits(Threshold!At("sample", FALSE))'
    BY <1>3, <1>j, <2>1 DEF Fits
  <2> QED  BY <1>1, <1>j, <2>1, <2>2, <2>3
<1>9. ASSUME NEW g \in Threshold!Goroutines, Threshold!Sample(g) PROVE ThresholdInv'
  <2> DEFINE d == Threshold!DeriveLocked(derived, value)
  <2>1. d \in BOOLEAN /\ d = Threshold!Reference(ref, value)
    BY DeriveFacts DEF ThresholdData
  <2> HIDE DEF d
  <2>2. /\ pc[g].at = "sample" /\ derived' = d /\ stable' = d /\ ref' = Threshold!Reference(ref, value)
        /\ pc' = [pc EXCEPT ![g] = IF d THEN Threshold!At("set", TRUE) ELSE Threshold!Idle]
        /\ UNCHANGED <<form, value, deb, fired, raw>>
    BY <1>9 DEF Threshold!Sample, d
  <2>3. (~overlap' => ~overlap) /\ overlap' \in BOOLEAN
    BY <1>9 DEF Threshold!Sample
  <2>4. ThresholdData'
    BY <2>1, <2>2, <2>3 DEF ThresholdData, Threshold!Hysteresis
  <2>5. ~overlap' => Rest(g) /\ ~raw
    BY <1>3, <2>2, <2>3 DEF Fits
  <2>6. CASE d
    <3>1. ~overlap' => Fits(Threshold!At("set", TRUE))'
      BY <1>j, <2>1, <2>2, <2>6 DEF Fits
    <3> QED  BY <1>1, <1>j, <2>2, <2>4, <2>5, <2>6, <3>1
  <2>7. CASE ~d
    <3>1. d = FALSE /\ (~overlap' => raw = FALSE)
      BY <2>1, <2>5, <2>7 DEF ThresholdData
    <3>2. ~overlap' => Fits(Threshold!Idle)' /\ Resting'
      BY <1>i, <2>2, <3>1 DEF Fits, Resting
    <3> QED  BY <1>1, <1>i, <2>2, <2>4, <2>5, <2>7, <3>2
  <2> QED  BY <2>6, <2>7
<1>10. CASE Threshold!DebounceExpires \/ Threshold!ForgottenExpires
  <2>1. fired' = fired + 1 /\ UNCHANGED <<form, value, derived, stable, ref, raw, pc, overlap>>
    BY <1>10 DEF Threshold!DebounceExpires, Threshold!ForgottenExpires
  <2>2. fired' \in Nat /\ fired' > 0
    BY <2>1 DEF ThresholdData
  <2>3. ThresholdData'
    BY <2>1, <2>2 DEF ThresholdData, Threshold!Hysteresis
  <2>4. ThresholdPcs' /\ ThresholdLone'
    BY <2>1, <2>2 DEF ThresholdPcs, ThresholdLone, Fits, Resting
  <2> QED  BY <2>3, <2>4 DEF ThresholdInv
<1>11. CASE Threshold!OnDebounceFire
  <2>0. Threshold!Callback \in Threshold!Goroutines
    BY DEF Threshold!Goroutines
  <2>1. /\ fired > 0 /\ fired' = fired - 1 /\ pc[Threshold!Callback] = Threshold!Idle
        /\ overlap' = (overlap \/ Threshold!Busy # {}) /\ UNCHANGED <<form, value, derived, ref, raw>>
    BY <1>11 DEF Threshold!OnDebounceFire, Threshold!Overlapping
  <2>2. fired' \in Nat
    BY <2>1 DEF ThresholdData
  <2>3. CASE derived = stable
    <3>1. UNCHANGED <<stable, pc>>
      BY <1>11, <2>3 DEF Threshold!OnDebounceFire, Threshold!CommitDerived
    <3>2. pc' = [pc EXCEPT ![Threshold!Callback] = Threshold!Idle]
      BY <2>0, <2>1, <3>1 DEF ThresholdPcs
    <3>3. ThresholdData'
      BY <2>1, <2>2, <3>1 DEF ThresholdData, Threshold!Hysteresis
    <3>4. ~overlap' => Rest(Threshold!Callback) /\ Fits(Threshold!Idle)' /\ Resting'
      BY <1>2, <1>i, <2>1, <2>3, <3>1 DEF Fits, Resting
    <3> QED  BY <1>1, <1>i, <2>0, <3>2, <3>3, <3>4
  <2>4. CASE derived # stable
    <3>2. PICK d \in BOOLEAN : d = derived
      BY DEF ThresholdData
    <3>1. /\ stable' = d
          /\ pc' = [pc EXCEPT ![Threshold!Callback] = Threshold!At("set", d)]
      BY <1>11, <2>4, <3>2 DEF Threshold!OnDebounceFire, Threshold!CommitDerived
    <3>3. ThresholdData'
      BY <2>1, <2>2, <3>1 DEF ThresholdData, Threshold!Hysteresis
    <3>4. ~overlap' => Rest(Threshold!Callback) /\ Fits(Threshold!At("set", d))'
      BY <1>2, <1>j, <2>1, <3>1, <3>2 DEF Fits
    <3> QED  BY <1>1, <1>j, <2>0, <3>1, <3>2, <3>3, <3>4
  <2> QED  BY <2>3, <2>4
<1>12. CASE UNCHANGED Threshold!vars
  <2>1. UNCHANGED <<form, value, derived, stable, ref, deb, fired, raw, pc, overlap>>
    BY <1>12 DEF Threshold!vars
  <2>2. ThresholdData'
    BY <2>1 DEF ThresholdData, Threshold!Hysteresis
  <2>3. ThresholdPcs' /\ ThresholdLone'
    BY <2>1 DEF ThresholdPcs, ThresholdLone, Fits, Resting
  <2> QED  BY <2>2, <2>3 DEF ThresholdInv
<1> QED  BY <1>4, <1>5, <1>6, <1>7, <1>8, <1>9, <1>10, <1>11, <1>12 DEF Threshold!Next

LEMMA ThresholdInvariance == ThresholdOK => (Threshold!Spec => []ThresholdInv)
<1> SUFFICES ASSUME ThresholdOK PROVE Threshold!Spec => []ThresholdInv
  OBVIOUS
<1>1. Threshold!Init => ThresholdInv
  BY ThresholdInit
<1>2. ThresholdInv /\ [Threshold!Next]_Threshold!vars => ThresholdInv'
  BY ThresholdKept
<1> QED  BY <1>1, <1>2, PTL DEF Threshold!Spec

\* Whatever goroutines submit and clear, the derived value is what the last
\* value outside the band said (deriveLocked).
THEOREM BandHolds == ThresholdOK => (Threshold!Spec => []Threshold!Hysteresis)
<1> SUFFICES ASSUME ThresholdOK PROVE Threshold!Spec => []Threshold!Hysteresis
  OBVIOUS
<1>1. Threshold!Spec => []ThresholdInv
  BY ThresholdInvariance
<1>2. ThresholdInv => Threshold!Hysteresis
  BY DEF ThresholdInv, ThresholdData
<1> QED  BY <1>1, <1>2, PTL

\* Notifications that do not overlap bring the machine to the derived value,
\* or a debounce callback is coming that does.
THEOREM EdgeAlwaysCommits == ThresholdOK => (Threshold!Spec => []Threshold!LoneEdgeCommits)
<1> SUFFICES ASSUME ThresholdOK PROVE Threshold!Spec => []Threshold!LoneEdgeCommits
  OBVIOUS
<1>1. Threshold!Spec => []ThresholdInv
  BY ThresholdInvariance
<1>2. ThresholdInv => Threshold!LoneEdgeCommits
  <2> SUFFICES ASSUME ThresholdInv, Threshold!Busy = {}, ~overlap PROVE Resting
    BY DEF Threshold!LoneEdgeCommits, Resting
  <2>1. \A g \in Threshold!Goroutines : pc[g] = Threshold!Idle
    BY DEF Threshold!Busy
  <2>2. \A g \in Threshold!Goroutines : pc[g].at = "idle"
    BY <2>1 DEF Threshold!Idle
  <2> QED  BY <2>2 DEF ThresholdInv, ThresholdLone
<1> QED  BY <1>1, <1>2, PTL

-----------------------------------------------------------------------------
(* Flipflop.                                                               *)

FlipflopOK ==
  /\ Null \notin BOOLEAN /\ Flipflop!Unwired \notin Sources
  /\ \A sh \in Shapes, w \in Flipflop!Wires : sh.feeds[w] \in Sources \cup {Flipflop!Unwired}

FlipflopData ==
  /\ \A w \in Flipflop!Wires : shape.feeds[w] \in Sources \cup {Flipflop!Unwired}
  /\ val \in [Sources -> BOOLEAN \cup {Null}]
  /\ prev \in [Flipflop!Wires -> BOOLEAN \cup {Null}]
  /\ gateAsserting \in BOOLEAN /\ moved \in BOOLEAN /\ overlap \in BOOLEAN

\* The gate is kept by its level, and the level is that of its baseline.
LevelGate == Flipflop!Wired("gate") /\ Flipflop!IsLevel(shape.edge["gate"])
FlipflopGate ==
  LevelGate => prev["gate"] \in BOOLEAN /\ gateAsserting = Flipflop!Asserting(prev["gate"])

\* Without overlap at most one goroutine is on its way to the machine, and
\* it carries what was decided last.
FlipflopLone ==
  ~overlap => \/ pc = {} /\ raw = desired
              \/ \E c \in pc : pc = {c} /\ c.v = desired

\* The transparent latch between notifications: the decision is the input's,
\* unless the input, or a gate that closes, has still to be heard.
Latch ==
  /\ Flipflop!Wired("from") /\ LevelGate
  /\ \A w \in Flipflop!EventWires : ~Flipflop!Wired(w)
Closing ==
  /\ shape.feeds["gate"] \in pending /\ Flipflop!Eval("gate") # Null
  /\ ~Flipflop!Asserting(Flipflop!Eval("gate"))
FlipflopLatch ==
  /\ ~overlap /\ moved /\ gateAsserting /\ Latch
  /\ shape.feeds["from"] \notin pending /\ Flipflop!Eval("from") # Null
  => desired = Flipflop!Eval("from") \/ Closing

FlipflopInv == FlipflopData /\ FlipflopGate /\ FlipflopLone /\ FlipflopLatch

LEMMA FlipflopInit == FlipflopOK /\ Flipflop!Init => FlipflopInv
<1> SUFFICES ASSUME FlipflopOK, Flipflop!Init PROVE FlipflopInv
  OBVIOUS
<1>1. /\ shape \in Shapes /\ val \in [Sources -> BOOLEAN]
      /\ moved = FALSE /\ overlap = FALSE /\ pc = {} /\ desired = raw
  BY DEF Flipflop!Init
<1>2. \A w \in Flipflop!Wires : shape.feeds[w] \in Sources \cup {Flipflop!Unwired}
  BY <1>1 DEF FlipflopOK
<1>3. /\ prev = [w \in Flipflop!Wires |->
                   IF shape.feeds[w] # Flipflop!Unwired /\ w # "from" THEN val[shape.feeds[w]] ELSE Null]
      /\ gateAsserting = (/\ shape.feeds["gate"] # Flipflop!Unwired
                          /\ Flipflop!IsLevel(shape.edge["gate"])
                          /\ Flipflop!Asserting(val[shape.feeds["gate"]]))
  BY DEF Flipflop!Init, Flipflop!Start
<1>4. gateAsserting \in BOOLEAN
  BY <1>3
<1>5. prev \in [Flipflop!Wires -> BOOLEAN \cup {Null}]
  BY <1>1, <1>2, <1>3
<1>6. FlipflopData
  BY <1>1, <1>2, <1>4, <1>5 DEF FlipflopData
<1>7. FlipflopGate
  <2> SUFFICES ASSUME LevelGate
               PROVE  prev["gate"] \in BOOLEAN /\ gateAsserting = Flipflop!Asserting(prev["gate"])
    BY DEF FlipflopGate
  <2>1. "gate" \in Flipflop!Wires /\ shape.feeds["gate"] # Flipflop!Unwired
    BY DEF Flipflop!Wires, LevelGate, Flipflop!Wired
  <2>2. prev["gate"] = val[shape.feeds["gate"]] /\ shape.feeds["gate"] \in Sources
    BY <1>2, <1>3, <2>1
  <2>3. prev["gate"] \in BOOLEAN
    BY <1>1, <2>2
  <2>4. Flipflop!Asserting(prev["gate"]) \in BOOLEAN
    BY <2>3 DEF Flipflop!Asserting
  <2> QED  BY <1>3, <2>1, <2>2, <2>3, <2>4 DEF LevelGate
<1> QED  BY <1>1, <1>6, <1>7 DEF FlipflopInv, FlipflopLone, FlipflopLatch

\* What a wire evaluates to.
LEMMA EvalFacts ==
  ASSUME FlipflopData, NEW w \in Flipflop!Wires
  PROVE  /\ Flipflop!Eval(w) \in BOOLEAN \cup {Null}
         /\ ~Flipflop!Wired(w) => Flipflop!Eval(w) = Null
BY DEF FlipflopData, Flipflop!Eval, Flipflop!Wired

\* The parts of recomputeLocked the proofs speak of: the level, whether the
\* gate was heard, and what then becomes of gate, baseline and decision.
LEMMA RecomputeFacts ==
  ASSUME FlipflopOK, FlipflopData, FlipflopGate, NEW s \in Sources
  PROVE  LET r == Flipflop!Recompute(s)
             heard == shape.feeds["gate"] = s /\ Flipflop!Eval("gate") # Null
         IN  /\ r.prev \in [Flipflop!Wires -> BOOLEAN \cup {Null}]
             /\ r.asserting \in BOOLEAN
             /\ LevelGate => /\ r.prev["gate"] \in BOOLEAN
                             /\ r.asserting = Flipflop!Asserting(r.prev["gate"])
                             /\ heard => r.asserting = Flipflop!Asserting(Flipflop!Eval("gate"))
                             /\ ~heard => r.asserting = gateAsserting
                             /\ ~r.asserting => r.desired = raw
             /\ Latch /\ r.asserting /\ Flipflop!Eval("from") # Null
                => r.desired = IF shape.feeds["from"] = s \/ ~gateAsserting
                               THEN Flipflop!Eval("from") ELSE raw
<1> DEFINE r == Flipflop!Recompute(s)
           heard == shape.feeds["gate"] = s /\ Flipflop!Eval("gate") # Null
           asserting == IF LevelGate /\ heard THEN Flipflop!Asserting(Flipflop!Eval("gate"))
                        ELSE gateAsserting
           justAsserted == /\ LevelGate /\ heard /\ asserting /\ prev["gate"] # Null
                           /\ ~Flipflop!Asserting(prev["gate"])
<1>1. "gate" \in Flipflop!Wires /\ "from" \in Flipflop!Wires /\ Flipflop!EventWires \subseteq Flipflop!Wires
  BY DEF Flipflop!Wires
<1>2. r.asserting = asserting
  BY DEF Flipflop!Recompute, LevelGate
<1>3. r.prev = Flipflop!Baseline({w \in Flipflop!EventWires : shape.feeds[w] = s}
                                  \cup (IF heard THEN {"gate"} ELSE {}))
  BY DEF Flipflop!Recompute
<1>4. heard => Flipflop!Eval("gate") \in BOOLEAN
  BY <1>1, EvalFacts
<1>5. asserting \in BOOLEAN
  BY <1>4 DEF Flipflop!Asserting, FlipflopData
<1>6. r.prev \in [Flipflop!Wires -> BOOLEAN \cup {Null}]
  BY <1>3, EvalFacts DEF Flipflop!Baseline, FlipflopData
<1>7. r.prev["gate"] = IF heard THEN Flipflop!Eval("gate") ELSE prev["gate"]
  <2>1. "gate" \notin Flipflop!EventWires
    BY DEF Flipflop!EventWires
  <2> QED  BY <1>1, <1>3, <2>1 DEF Flipflop!Baseline
<1>8. ASSUME LevelGate
      PROVE  /\ r.prev["gate"] \in BOOLEAN
             /\ r.asserting = Flipflop!Asserting(r.prev["gate"])
             /\ heard => r.asserting = Flipflop!Asserting(Flipflop!Eval("gate"))
             /\ ~heard => r.asserting = gateAsserting
  BY <1>2, <1>4, <1>7, <1>8 DEF FlipflopGate
<1>9. ASSUME LevelGate, ~asserting PROVE r.desired = raw
  BY <1>9, Zenon DEF Flipflop!Recompute, LevelGate, Flipflop!GateAdmits, Flipflop!Reconciled
<1>10. ASSUME Latch, asserting, Flipflop!Eval("from") # Null
       PROVE  r.desired = IF shape.feeds["from"] = s \/ justAsserted THEN Flipflop!Eval("from") ELSE raw
  <2>1. \A w \in Flipflop!EventWires : ~Flipflop!EdgeFiredFor(w)
    BY <1>1, <1>10, EvalFacts DEF Latch, Flipflop!EdgeFiredFor
  <2>2. ~Flipflop!EdgeFiredFor("set") /\ ~Flipflop!EdgeFiredFor("reset") /\ ~Flipflop!EdgeFiredFor("toggle")
    BY <2>1 DEF Flipflop!EventWires
  <2> QED  BY <1>10, <2>2, Zenon DEF Flipflop!Recompute, Latch, LevelGate, Flipflop!Reconciled
<1>11. ASSUME LevelGate, asserting PROVE justAsserted <=> ~gateAsserting
  BY <1>4, <1>5, <1>11 DEF FlipflopGate, FlipflopOK
<1> QED  BY <1>2, <1>5, <1>6, <1>8, <1>9, <1>10, <1>11 DEF Latch

LEMMA FlipflopKept ==
  FlipflopOK /\ FlipflopInv /\ [Flipflop!Next]_Flipflop!vars => FlipflopInv'
<1> SUFFICES ASSUME FlipflopOK, FlipflopData, FlipflopGate, FlipflopLone, FlipflopLatch,
                    [Flipflop!Next]_Flipflop!vars
             PROVE  FlipflopInv'
  BY DEF FlipflopInv
<1>0. "gate" \in Flipflop!Wires /\ "from" \in Flipflop!Wires
  BY DEF Flipflop!Wires
<1>1. ASSUME overlap' = (overlap \/ ~Flipflop!Quiescent), ~overlap'
      PROVE  ~overlap /\ pc = {} /\ raw = desired
  BY <1>1 DEF FlipflopData, FlipflopLone, Flipflop!Quiescent
\* The block never changes, and with it which wires there are.
<1>2. ASSUME UNCHANGED shape
      PROVE  /\ LevelGate' = LevelGate /\ Latch' = Latch
             /\ (\A w \in Flipflop!Wires : shape.feeds[w] \in Sources \cup {Flipflop!Unwired})'
  BY <1>2 DEF LevelGate, Latch, Flipflop!Wired, FlipflopData
<1>3. ASSUME NEW s \in Sources, Flipflop!OnSourceChanged(s) PROVE FlipflopInv'
  <2> DEFINE r == Flipflop!Recompute(s)
             heard == shape.feeds["gate"] = s /\ Flipflop!Eval("gate") # Null
  <2>1. /\ s \in pending /\ pending' = pending \ {s}
        /\ desired' = r.desired /\ gateAsserting' = r.asserting /\ prev' = r.prev
        /\ pc' = IF r.desired # raw THEN pc \cup {[at |-> s, v |-> r.desired]} ELSE pc
        /\ overlap' = (overlap \/ ~Flipflop!Quiescent)
        /\ UNCHANGED <<shape, val, raw, moved>>
    BY <1>3 DEF Flipflop!OnSourceChanged, Flipflop!Reconciled
  <2>2. /\ r.prev \in [Flipflop!Wires -> BOOLEAN \cup {Null}]
        /\ r.asserting \in BOOLEAN
        /\ LevelGate => /\ r.prev["gate"] \in BOOLEAN
                        /\ r.asserting = Flipflop!Asserting(r.prev["gate"])
                        /\ heard => r.asserting = Flipflop!Asserting(Flipflop!Eval("gate"))
                        /\ ~heard => r.asserting = gateAsserting
        /\ Latch /\ r.asserting /\ Flipflop!Eval("from") # Null
           => r.desired = IF shape.feeds["from"] = s \/ ~gateAsserting
                          THEN Flipflop!Eval("from") ELSE raw
    BY RecomputeFacts
  <2> HIDE DEF r
  <2>3. FlipflopData'
    BY <1>2, <2>1, <2>2 DEF FlipflopData
  <2>4. FlipflopGate'
    BY <1>2, <2>1, <2>2 DEF FlipflopGate, Flipflop!Asserting
  <2>5. FlipflopLone'
    <3> SUFFICES ASSUME ~overlap'
                 PROVE  \/ pc' = {} /\ raw' = desired'
                        \/ \E c \in pc' : pc' = {c} /\ c.v = desired'
      BY DEF FlipflopLone
    <3>1. pc = {} /\ raw = desired
      BY <1>1, <2>1
    <3>2. CASE r.desired = raw
      BY <2>1, <3>1, <3>2
    <3>3. CASE r.desired # raw
      <4>1. PICK c : c = [at |-> s, v |-> r.desired]
        OBVIOUS
      <4>2. pc' = {c} /\ c.v = desired'
        BY <2>1, <3>1, <3>3, <4>1
      <4> QED  BY <4>2
    <3> QED  BY <3>2, <3>3
  <2>6. FlipflopLatch'
    <3> SUFFICES ASSUME ~overlap', moved', gateAsserting', Latch',
                        (shape.feeds["from"] \notin pending)', (Flipflop!Eval("from") # Null)'
                 PROVE  (desired = Flipflop!Eval("from"))' \/ Closing'
      BY DEF FlipflopLatch
    <3>1. Latch /\ LevelGate /\ Flipflop!Eval("from") # Null /\ Flipflop!Eval("from")' = Flipflop!Eval("from")
      BY <1>2, <2>1 DEF Flipflop!Eval, Flipflop!Wired, Latch
    <3>2. ~overlap /\ raw = desired
      BY <1>1, <2>1
    <3>3. CASE shape.feeds["from"] = s \/ ~gateAsserting
      BY <2>1, <2>2, <3>1, <3>3
    <3>4. CASE shape.feeds["from"] # s /\ gateAsserting
      <4>1. desired' = desired
        BY <2>1, <2>2, <3>1, <3>2, <3>4
      <4>2. shape.feeds["from"] \notin pending
        BY <2>1, <3>4
      <4>3. desired = Flipflop!Eval("from") \/ Closing
        BY <2>1, <3>1, <3>2, <3>4, <4>2 DEF FlipflopLatch
      <4>4. ASSUME Closing PROVE Closing'
        <5>1. shape.feeds["gate"] # s
          BY <2>1, <2>2, <3>1, <4>4 DEF Closing
        <5> QED  BY <2>1, <4>4, <5>1 DEF Closing, Flipflop!Eval, Flipflop!Wired, Flipflop!Asserting
      <4> QED  BY <3>1, <4>1, <4>3, <4>4
    <3> QED  BY <3>3, <3>4
  <2> QED  BY <2>3, <2>4, <2>5, <2>6 DEF FlipflopInv
<1>4. ASSUME NEW v, pc' = pc \cup {[at |-> "call", v |-> v]}, desired' = v,
             overlap' = (overlap \/ ~Flipflop!Quiescent), moved' = FALSE,
             UNCHANGED <<shape, val, pending, prev, gateAsserting, raw>>
      PROVE  FlipflopInv'
  <2>0. overlap' \in BOOLEAN
    BY <1>4, Zenon DEF FlipflopData
  <2>1. FlipflopData'
    BY <1>2, <1>4, <2>0 DEF FlipflopData
  <2>2. FlipflopGate'
    BY <1>2, <1>4 DEF FlipflopGate, Flipflop!Asserting
  <2>3. FlipflopLone'
    <3> SUFFICES ASSUME ~overlap' PROVE \E c \in pc' : pc' = {c} /\ c.v = desired'
      BY DEF FlipflopLone
    <3>1. pc = {}
      BY <1>1, <1>4
    <3> QED  BY <1>4, <3>1
  <2>4. FlipflopLatch'
    BY <1>4 DEF FlipflopLatch
  <2> QED  BY <2>1, <2>2, <2>3, <2>4 DEF FlipflopInv
<1>5. ASSUME NEW v \in BOOLEAN, Flipflop!Set(v) PROVE FlipflopInv'
  BY <1>4, <1>5 DEF Flipflop!Set
<1>6. CASE Flipflop!Toggle
  BY <1>4, <1>6 DEF Flipflop!Toggle, Flipflop!Set, Flipflop!Reconciled
<1>7. CASE Flipflop!Clear
  BY <1>4, <1>7 DEF Flipflop!Clear
<1>8. ASSUME NEW c \in pc, Flipflop!SetRawInput(c) PROVE FlipflopInv'
  <2>1. /\ raw' = c.v /\ pc' = pc \ {c}
        /\ UNCHANGED <<shape, val, pending, prev, gateAsserting, desired, moved, overlap>>
    BY <1>8 DEF Flipflop!SetRawInput
  <2>2. FlipflopData' /\ FlipflopGate'
    BY <1>2, <2>1 DEF FlipflopData, FlipflopGate, Flipflop!Asserting
  <2>3. FlipflopLone'
    BY <2>1 DEF FlipflopLone
  <2>4. FlipflopLatch'
    BY <1>2, <2>1 DEF FlipflopLatch, Closing, Flipflop!Eval, Flipflop!Wired, Flipflop!Asserting
  <2> QED  BY <2>2, <2>3, <2>4 DEF FlipflopInv
<1>9. ASSUME NEW s \in Sources, Flipflop!Change(s) PROVE FlipflopInv'
  <2>1. PICK v \in {TRUE, FALSE, Null} :
          /\ val' = [val EXCEPT ![s] = v] /\ pending' = pending \cup {s} /\ s \notin pending
          /\ moved' = \/ moved
                      \/ s = shape.feeds["from"] /\ val'[s] # Null
                      \/ s = shape.feeds["gate"] /\ val'[s] # Null /\ ~Flipflop!Asserting(val'[s])
          /\ UNCHANGED <<shape, prev, gateAsserting, desired, raw, pc, overlap>>
    BY <1>9 DEF Flipflop!Change
  <2>2. val'[s] = v /\ (\A t \in Sources \ {s} : val'[t] = val[t]) /\ val' \in [Sources -> BOOLEAN \cup {Null}]
    BY <2>1 DEF FlipflopData
  <2>3. moved' \in BOOLEAN
    BY <2>1, <2>2, Zenon DEF FlipflopData
  <2>4. FlipflopData' /\ FlipflopGate'
    BY <1>2, <2>1, <2>2, <2>3 DEF FlipflopData, FlipflopGate, Flipflop!Asserting
  <2>5. FlipflopLone'
    BY <2>1 DEF FlipflopLone
  <2>6. FlipflopLatch'
    <3> SUFFICES ASSUME ~overlap', moved', gateAsserting', Latch',
                        (shape.feeds["from"] \notin pending)', (Flipflop!Eval("from") # Null)'
                 PROVE  (desired = Flipflop!Eval("from"))' \/ Closing'
      BY DEF FlipflopLatch
    <3>1. /\ Latch /\ LevelGate /\ ~overlap /\ gateAsserting
          /\ shape.feeds["from"] # s /\ shape.feeds["from"] \notin pending
      BY <1>2, <2>1 DEF Latch
    <3>2. shape.feeds["from"] \in Sources /\ shape.feeds["gate"] \in Sources
      BY <1>0, <3>1 DEF Latch, LevelGate, Flipflop!Wired, FlipflopData
    <3>3. Flipflop!Eval("from")' = Flipflop!Eval("from")
      BY <2>1, <2>2, <3>1, <3>2 DEF Flipflop!Eval, Flipflop!Wired
    <3>4. Flipflop!Eval("gate") = val[shape.feeds["gate"]] /\ Flipflop!Eval("gate")' = val'[shape.feeds["gate"]]
      BY <2>1, <3>1 DEF Flipflop!Eval, Flipflop!Wired, LevelGate
    <3>5. CASE moved
      <4>1. desired = Flipflop!Eval("from") \/ Closing
        BY <3>1, <3>3, <3>5 DEF FlipflopLatch
      <4>2. ASSUME Closing PROVE Closing'
        <5>1. shape.feeds["gate"] # s
          BY <2>1, <4>2 DEF Closing
        <5>2. Flipflop!Eval("gate")' = Flipflop!Eval("gate")
          BY <2>2, <3>2, <3>4, <5>1
        <5> QED  BY <2>1, <4>2, <5>2 DEF Closing, Flipflop!Asserting
      <4> QED  BY <2>1, <3>3, <4>1, <4>2
    <3>6. CASE ~moved
      <4>1. s = shape.feeds["gate"] /\ val'[s] # Null /\ ~Flipflop!Asserting(val'[s])
        BY <2>1, <3>1, <3>6
      <4> QED  BY <2>1, <3>4, <4>1 DEF Closing, Flipflop!Asserting
    <3> QED  BY <3>5, <3>6
  <2> QED  BY <2>4, <2>5, <2>6 DEF FlipflopInv
<1>10. CASE UNCHANGED Flipflop!vars
  <2>1. UNCHANGED <<shape, val, pending, prev, gateAsserting, desired, raw, pc, moved, overlap>>
    BY <1>10 DEF Flipflop!vars
  <2>2. FlipflopData' /\ FlipflopGate' /\ FlipflopLone'
    BY <1>2, <2>1 DEF FlipflopData, FlipflopGate, FlipflopLone, Flipflop!Asserting
  <2>3. FlipflopLatch'
    BY <1>2, <2>1 DEF FlipflopLatch, Closing, Flipflop!Eval, Flipflop!Wired, Flipflop!Asserting
  <2> QED  BY <2>2, <2>3 DEF FlipflopInv
<1> QED  BY <1>3, <1>5, <1>6, <1>7, <1>8, <1>9, <1>10 DEF Flipflop!Next

LEMMA FlipflopInvariance == FlipflopOK => (Flipflop!Spec => []FlipflopInv)
<1> SUFFICES ASSUME FlipflopOK PROVE Flipflop!Spec => []FlipflopInv
  OBVIOUS
<1>1. Flipflop!Init => FlipflopInv
  BY FlipflopInit
<1>2. FlipflopInv /\ [Flipflop!Next]_Flipflop!vars => FlipflopInv'
  BY FlipflopKept
<1> QED  BY <1>1, <1>2, PTL DEF Flipflop!Spec

\* Whatever sources change and whoever calls, goroutines that do not overlap
\* leave the machine with what was decided (onSourceChanged, Set, Clear).
THEOREM DecisionAlwaysCommits == FlipflopOK => (Flipflop!Spec => []Flipflop!DesiredCommits)
<1> SUFFICES ASSUME FlipflopOK PROVE Flipflop!Spec => []Flipflop!DesiredCommits
  OBVIOUS
<1>1. Flipflop!Spec => []FlipflopInv
  BY FlipflopInvariance
<1>2. FlipflopInv => Flipflop!DesiredCommits
  BY DEF FlipflopInv, FlipflopLone, Flipflop!DesiredCommits, Flipflop!Quiescent
<1> QED  BY <1>1, <1>2, PTL

\* A level-gated set_from is transparent: at rest the state is its input's,
\* whatever gate and input did in whatever order (recomputeLocked).
THEOREM LatchAlwaysTransparent == FlipflopOK => (Flipflop!Spec => []Flipflop!LatchTransparent)
<1> SUFFICES ASSUME FlipflopOK PROVE Flipflop!Spec => []Flipflop!LatchTransparent
  OBVIOUS
<1>1. Flipflop!Spec => []FlipflopInv
  BY FlipflopInvariance
<1>2. FlipflopInv => Flipflop!LatchTransparent
  <2> SUFFICES ASSUME FlipflopInv, pending = {}, ~overlap, moved, gateAsserting,
                      Flipflop!Wired("from"), Flipflop!IsLevel(shape.edge["gate"]),
                      \A w \in Flipflop!EventWires : ~Flipflop!Wired(w),
                      Flipflop!Eval("from") # Null, Flipflop!Eval("gate") # Null
               PROVE  desired = Flipflop!Eval("from")
    BY DEF Flipflop!LatchTransparent, Flipflop!Quiet
  <2>1. Flipflop!Wired("gate")
    BY DEF Flipflop!Eval
  <2> QED  BY <2>1 DEF FlipflopInv, FlipflopLatch, Latch, LevelGate, Closing
<1> QED  BY <1>1, <1>2, PTL

\* A notification under a closed gate decides nothing, whatever edges it
\* brings: the edge is gone, not deferred (recomputeLocked).
THEOREM GateAlwaysCloses == FlipflopOK => (Flipflop!Spec => [][Flipflop!GateCloses]_Flipflop!vars)
<1> SUFFICES ASSUME FlipflopOK PROVE Flipflop!Spec => [][Flipflop!GateCloses]_Flipflop!vars
  OBVIOUS
<1>1. Flipflop!Spec => []FlipflopInv
  BY FlipflopInvariance
<1>2. FlipflopInv /\ [Flipflop!Next]_Flipflop!vars => [Flipflop!GateCloses]_Flipflop!vars
  <2> SUFFICES ASSUME FlipflopInv, Flipflop!Next, NEW s \in Sources, s \in pending, s \notin pending',
                      LevelGate, ~gateAsserting'
               PROVE  desired' = raw
    BY DEF Flipflop!GateCloses, LevelGate
  <2>1. PICK t \in Sources : Flipflop!OnSourceChanged(t)
    <3>1. ASSUME NEW t \in Sources, Flipflop!Change(t) PROVE FALSE
      BY <3>1 DEF Flipflop!Change
    <3>2. ASSUME NEW v, Flipflop!Set(v) PROVE FALSE
      BY <3>2 DEF Flipflop!Set
    <3>3. ASSUME NEW c \in pc, Flipflop!SetRawInput(c) PROVE FALSE
      BY <3>3 DEF Flipflop!SetRawInput
    <3>4. ~Flipflop!Toggle /\ ~Flipflop!Clear
      BY <3>2 DEF Flipflop!Toggle, Flipflop!Clear
    <3> QED  BY <3>1, <3>2, <3>3, <3>4 DEF Flipflop!Next
  <2>2. desired' = Flipflop!Recompute(t).desired /\ gateAsserting' = Flipflop!Recompute(t).asserting
    BY <2>1 DEF Flipflop!OnSourceChanged
  <2> QED  BY <2>2, RecomputeFacts DEF FlipflopInv
<1> QED  BY <1>1, <1>2, PTL DEF Flipflop!Spec

-----------------------------------------------------------------------------
(* Interval.  A token is under way from the moment a call has changed the  *)
(* fields until the goroutine takes it; it may be dropped on the channel   *)
(* only because an equal one is there.                                     *)

SetComing == setCh \/ \E c \in Callers : call[c] = "set"
ResetComing == resetCh \/ \E c \in Callers : call[c] = "reset"

IntervalTypes ==
  /\ setCh \in BOOLEAN /\ resetCh \in BOOLEAN /\ overlap \in BOOLEAN
  /\ call \in [Callers -> {"set", "reset", "none"}]
  /\ last \in {"set", "reset", "none"}
  /\ runs \in Nat

\* What a call that met a goroutine at rest has led to so far: reset() is on
\* its way or was obeyed; a set() that found the trigger dormant, or finds it
\* so now, is on its way or an action has run since.
IntervalCalls ==
  ~overlap =>
    /\ last = "reset" => ~SetComing /\ (ResetComing \/ pc \in {"dormant", "exited"})
    /\ last = "set" => /\ ~ResetComing
                       /\ pc = "dormant" => \/ SetComing
                                            \/ runs > 0 /\ (body.stopWhen \/ ~body.repeat)
    /\ last = "none" => ~SetComing /\ ~ResetComing

IntervalInv == IntervalTypes /\ Interval!DelayCurrent /\ IntervalCalls

LEMMA IntervalInit == Interval!Init => IntervalInv
<1> SUFFICES ASSUME Interval!Init PROVE IntervalInv  OBVIOUS
<1>1. IntervalTypes
  BY DEF Interval!Init, IntervalTypes, Interval!None
<1>2. Interval!DelayCurrent
  BY DEF Interval!Init, Interval!DelayCurrent
<1>3. IntervalCalls
  BY DEF Interval!Init, IntervalCalls, SetComing, ResetComing, Interval!None
<1> QED  BY <1>1, <1>2, <1>3 DEF IntervalInv

USE DEF Interval!None, Interval!fields, Interval!Rest, Interval!asked

LEMMA IntervalTypesKept == IntervalTypes /\ [Interval!Next]_Interval!vars => IntervalTypes'
<1> SUFFICES ASSUME IntervalTypes, [Interval!Next]_Interval!vars PROVE IntervalTypes'
  OBVIOUS
<1> USE DEF IntervalTypes
<1>0. CASE Interval!ActionEnds
  BY <1>0 DEF Interval!ActionEnds
<1>1. CASE \/ Interval!Arm \/ Interval!Fires \/ Interval!SetWhileArmed \/ Interval!ResetWhileArmed
           \/ Interval!Revived \/ Interval!ResetWhileDormant \/ Interval!Exits
  BY <1>1 DEF Interval!Arm, Interval!Fires, Interval!SetWhileArmed,
       Interval!ResetWhileArmed, Interval!Revived, Interval!ResetWhileDormant, Interval!Exits
<1>2. CASE Interval!Stop \/ Interval!Stopped
  BY <1>2 DEF Interval!Stop, Interval!Stopped
<1>3. ASSUME NEW c \in Callers, Interval!Set(c) PROVE IntervalTypes'
  BY <1>3 DEF Interval!Set, Interval!Called
<1>4. ASSUME NEW c \in Callers, Interval!Reset(c) PROVE IntervalTypes'
  BY <1>4 DEF Interval!Reset, Interval!Called
<1>5. ASSUME NEW c \in Callers, Interval!Send(c) PROVE IntervalTypes'
  BY <1>5 DEF Interval!Send
<1>6. CASE UNCHANGED Interval!vars
  BY <1>6 DEF Interval!vars
<1> QED  BY <1>0, <1>1, <1>2, <1>3, <1>4, <1>5, <1>6 DEF Interval!Next, Interval!Run

LEMMA DelayCurrentKept ==
  IntervalInv /\ [Interval!Next]_Interval!vars => Interval!DelayCurrent'
<1> SUFFICES ASSUME IntervalTypes, Interval!DelayCurrent, [Interval!Next]_Interval!vars
             PROVE  Interval!DelayCurrent'
  BY DEF IntervalInv
<1> USE DEF IntervalTypes, Interval!DelayCurrent
<1>1. CASE Interval!Arm
  BY <1>1 DEF Interval!Arm, Interval!ComputeDelay
<1>2. CASE \/ Interval!Fires \/ Interval!SetWhileArmed \/ Interval!ResetWhileArmed
           \/ Interval!ActionEnds \/ Interval!Revived \/ Interval!ResetWhileDormant \/ Interval!Exits
  BY <1>2 DEF Interval!Fires, Interval!SetWhileArmed, Interval!ResetWhileArmed,
       Interval!ActionEnds, Interval!Revived, Interval!ResetWhileDormant, Interval!Exits
<1>3. CASE Interval!Stop \/ Interval!Stopped
  BY <1>3 DEF Interval!Stop, Interval!Stopped, Interval!ComputeDelay
<1>4. ASSUME NEW c \in Callers, Interval!Set(c) \/ Interval!Reset(c)
      PROVE Interval!DelayCurrent'
  <2> call'[c] # "none"  BY <1>4 DEF Interval!Set, Interval!Reset, Interval!Called
  <2> QED  OBVIOUS
<1>5. ASSUME NEW c \in Callers, Interval!Send(c) PROVE Interval!DelayCurrent'
  <2>1. setCh' \/ resetCh'  BY <1>5 DEF Interval!Send
  <2> QED  BY <2>1
<1>6. CASE UNCHANGED Interval!vars
  BY <1>6 DEF Interval!vars, Interval!ComputeDelay
<1> QED  BY <1>1, <1>2, <1>3, <1>4, <1>5, <1>6 DEF Interval!Next, Interval!Run

LEMMA IntervalCallsKept ==
  IntervalInv /\ [Interval!Next]_Interval!vars => IntervalCalls'
<1> SUFFICES ASSUME IntervalTypes, IntervalCalls, [Interval!Next]_Interval!vars
             PROVE  IntervalCalls'
  BY DEF IntervalInv
<1> USE DEF IntervalTypes, IntervalCalls, SetComing, ResetComing
<1>1. CASE Interval!Arm
  BY <1>1 DEF Interval!Arm
<1>2. CASE Interval!Fires
  BY <1>2 DEF Interval!Fires
<1>3. CASE Interval!SetWhileArmed
  BY <1>3 DEF Interval!SetWhileArmed
<1>4. CASE Interval!ResetWhileArmed
  BY <1>4 DEF Interval!ResetWhileArmed
<1>5. CASE Interval!ActionEnds
  <2>1. PICK s \in Interval!ShouldStop : pc' = IF s THEN "dormant" ELSE "top"
    BY <1>5 DEF Interval!ActionEnds
  <2>2. s \in BOOLEAN /\ (s => body.stopWhen \/ ~body.repeat)
    BY DEF Interval!ShouldStop, Interval!StopWhen
  <2>3. runs' > 0 /\ UNCHANGED <<body, setCh, resetCh, call, last, overlap>>
    BY <1>5 DEF Interval!ActionEnds
  <2>4. pc = "action"
    BY <1>5 DEF Interval!ActionEnds
  <2> QED  BY <2>1, <2>2, <2>3, <2>4
<1>6. CASE Interval!Revived
  BY <1>6 DEF Interval!Revived, Interval!ShouldRemainStopped, Interval!StopWhen
<1>7. CASE Interval!ResetWhileDormant
  BY <1>7 DEF Interval!ResetWhileDormant
<1>8. CASE Interval!Exits
  BY <1>8 DEF Interval!Exits
<1>9. CASE Interval!Stop \/ Interval!Stopped
  BY <1>9 DEF Interval!Stop, Interval!Stopped
<1>10. ASSUME NEW c \in Callers, Interval!Set(c) PROVE IntervalCalls'
  BY <1>10 DEF Interval!Set, Interval!Called, Interval!Unsettled
<1>11. ASSUME NEW c \in Callers, Interval!Reset(c) PROVE IntervalCalls'
  BY <1>11 DEF Interval!Reset, Interval!Called, Interval!Unsettled
<1>12. ASSUME NEW c \in Callers, Interval!Send(c) PROVE IntervalCalls'
  BY <1>12 DEF Interval!Send
<1>13. CASE UNCHANGED Interval!vars
  BY <1>13 DEF Interval!vars
<1> QED  BY <1>1, <1>2, <1>3, <1>4, <1>5, <1>6, <1>7, <1>8, <1>9, <1>10, <1>11, <1>12, <1>13
         DEF Interval!Next, Interval!Run

LEMMA IntervalInvariance == Interval!Spec => []IntervalInv
<1>1. IntervalInv /\ [Interval!Next]_Interval!vars => IntervalInv'
  BY IntervalTypesKept, DelayCurrentKept, IntervalCallsKept DEF IntervalInv
<1> QED  BY IntervalInit, <1>1, PTL DEF Interval!Spec

\* The running delay is always the one the last set() or reset() asks for, or a
\* token is on its way that has it computed again: a token dropped on a full
\* channel loses no call, however many goroutines call.
THEOREM DelayAlwaysCurrent == Interval!Spec => []Interval!DelayCurrent
<1>1. IntervalInv => Interval!DelayCurrent
  BY DEF IntervalInv
<1> QED  BY IntervalInvariance, <1>1, PTL

\* A call of set() or reset() that meets a goroutine at rest decides.
THEOREM IntervalCallDecides == Interval!Spec => []Interval!LoneCallDecides
<1>1. IntervalInv => Interval!LoneCallDecides
  BY DEF IntervalInv, IntervalTypes, IntervalCalls, SetComing, ResetComing,
         Interval!LoneCallDecides, Interval!Unsettled
<1> QED  BY IntervalInvariance, <1>1, PTL

-----------------------------------------------------------------------------
(* At.  The override is a pointer: whoever fires compares the one it read  *)
(* with the present one.                                                   *)

USE DEF AtTime!None, AtTime!Idle, AtTime!fields, AtTime!Rest, AtTime!asked

AtTypes ==
  /\ setCh \in BOOLEAN /\ resetCh \in BOOLEAN /\ overlap \in BOOLEAN
  /\ call \in [Callers -> {"set", "reset", "idle"}]
  /\ last \in {"set", "reset", "idle"}
  /\ runs \in Nat /\ calls \in Nat

\* The override is the time that is owed, and a goroutine that waits, or is
\* about to wait, for another one has a token coming.
AtOverride ==
  /\ owed = override
  /\ pc \in {"schedule", "timer"} /\ owed # 0 /\ read # owed => SetComing \/ ResetComing

\* As IntervalCalls.  A dormant trigger that a set() is on its way to has
\* something to fire at; it stays dormant only after an action has run.
AtCalls ==
  ~overlap =>
    /\ last = "reset" => ~SetComing /\ (ResetComing \/ pc \in {"dormant", "exited"})
    /\ last = "set" => /\ ~ResetComing
                       /\ pc = "weigh" => runs > 0
                       /\ pc = "dormant" => runs > 0 \/ (SetComing /\ AtTime!CanRevive)
    /\ last = "idle" => ~SetComing /\ ~ResetComing

AtInv == AtTypes /\ AtOverride /\ AtCalls

LEMMA AtInit == AtTime!Init => AtInv
<1> SUFFICES ASSUME AtTime!Init PROVE AtInv  OBVIOUS
<1>1. AtTypes
  BY DEF AtTime!Init, AtTypes
<1>2. AtOverride
  BY DEF AtTime!Init, AtOverride
<1>3. AtCalls
  BY DEF AtTime!Init, AtCalls, SetComing, ResetComing
<1> QED  BY <1>1, <1>2, <1>3 DEF AtInv

LEMMA AtTypesKept == AtTypes /\ [AtTime!Next]_AtTime!vars => AtTypes'
<1> SUFFICES ASSUME AtTypes, [AtTime!Next]_AtTime!vars PROVE AtTypes'
  OBVIOUS
<1> USE DEF AtTypes
<1>1. CASE AtTime!Fire
  BY <1>1 DEF AtTime!Fire
<1>2. CASE \/ AtTime!Evaluate \/ AtTime!Schedule \/ AtTime!SetTaken \/ AtTime!ResetTaken
           \/ AtTime!RetryElapses \/ AtTime!Expires \/ AtTime!Consume
  BY <1>2 DEF AtTime!Evaluate, AtTime!Schedule, AtTime!SetTaken, AtTime!ResetTaken,
       AtTime!RetryElapses, AtTime!Expires, AtTime!Consume
<1>3. CASE \/ AtTime!Weigh \/ AtTime!Revived \/ AtTime!ResetWhileDormant \/ AtTime!Exits
  BY <1>3 DEF AtTime!Weigh, AtTime!Revived, AtTime!ResetWhileDormant, AtTime!Exits
<1>4. CASE AtTime!Stop \/ AtTime!Stopped
  BY <1>4 DEF AtTime!Stop, AtTime!Stopped
<1>5. ASSUME NEW c \in Callers, AtTime!Set(c) PROVE AtTypes'
  BY <1>5 DEF AtTime!Set, AtTime!Called
<1>6. ASSUME NEW c \in Callers, AtTime!Reset(c) PROVE AtTypes'
  BY <1>6 DEF AtTime!Reset, AtTime!Called
<1>7. ASSUME NEW c \in Callers, AtTime!Send(c) PROVE AtTypes'
  BY <1>7 DEF AtTime!Send
<1>8. CASE UNCHANGED AtTime!vars
  BY <1>8 DEF AtTime!vars
<1> QED  BY <1>1, <1>2, <1>3, <1>4, <1>5, <1>6, <1>7, <1>8 DEF AtTime!Next, AtTime!Run

LEMMA AtOverrideKept == AtInv /\ [AtTime!Next]_AtTime!vars => AtOverride'
<1> SUFFICES ASSUME AtTypes, AtOverride, [AtTime!Next]_AtTime!vars PROVE AtOverride'
  BY DEF AtInv
<1> USE DEF AtTypes, AtOverride, SetComing, ResetComing
<1>1. CASE \/ AtTime!Evaluate \/ AtTime!Schedule \/ AtTime!SetTaken \/ AtTime!ResetTaken
           \/ AtTime!RetryElapses \/ AtTime!Expires
  BY <1>1 DEF AtTime!Evaluate, AtTime!Schedule, AtTime!SetTaken, AtTime!ResetTaken,
       AtTime!RetryElapses, AtTime!Expires
<1>2. CASE AtTime!Consume
  BY <1>2 DEF AtTime!Consume, AtTime!Consumed
<1>3. CASE \/ AtTime!Fire \/ AtTime!Weigh \/ AtTime!Revived \/ AtTime!ResetWhileDormant
           \/ AtTime!Exits
  BY <1>3 DEF AtTime!Fire, AtTime!Weigh, AtTime!Revived, AtTime!ResetWhileDormant, AtTime!Exits
<1>4. CASE AtTime!Stop \/ AtTime!Stopped
  BY <1>4 DEF AtTime!Stop, AtTime!Stopped
<1>5. ASSUME NEW c \in Callers, AtTime!Set(c) \/ AtTime!Reset(c) PROVE AtOverride'
  <2>1. call'[c] \in {"set", "reset"} /\ owed' = override'
    BY <1>5 DEF AtTime!Set, AtTime!Reset, AtTime!Called
  <2> QED  BY <2>1
<1>6. ASSUME NEW c \in Callers, AtTime!Send(c) PROVE AtOverride'
  <2>1. (setCh' \/ resetCh') /\ UNCHANGED <<owed, override>>
    BY <1>6 DEF AtTime!Send
  <2> QED  BY <2>1
<1>7. CASE UNCHANGED AtTime!vars
  BY <1>7 DEF AtTime!vars
<1> QED  BY <1>1, <1>2, <1>3, <1>4, <1>5, <1>6, <1>7 DEF AtTime!Next, AtTime!Run

LEMMA AtCallsKept == AtInv /\ [AtTime!Next]_AtTime!vars => AtCalls'
<1> SUFFICES ASSUME AtTypes, AtCalls, [AtTime!Next]_AtTime!vars PROVE AtCalls'
  BY DEF AtInv
<1> USE DEF AtTypes, AtCalls, SetComing, ResetComing, AtTime!CanRevive
<1>1. CASE AtTime!Evaluate
  BY <1>1 DEF AtTime!Evaluate
<1>2. CASE AtTime!Schedule
  BY <1>2 DEF AtTime!Schedule
<1>3. CASE AtTime!SetTaken
  BY <1>3 DEF AtTime!SetTaken
<1>4. CASE AtTime!ResetTaken
  BY <1>4 DEF AtTime!ResetTaken
<1>5. CASE AtTime!RetryElapses \/ AtTime!Expires
  BY <1>5 DEF AtTime!RetryElapses, AtTime!Expires
<1>6. CASE AtTime!Consume
  BY <1>6 DEF AtTime!Consume
<1>7. CASE AtTime!Fire
  BY <1>7 DEF AtTime!Fire
<1>8. CASE AtTime!Weigh
  BY <1>8 DEF AtTime!Weigh
<1>9. CASE AtTime!Revived
  <2>1. pc = "dormant" /\ UNCHANGED <<body, override, runs, resetCh, call, last, overlap>>
    BY <1>9 DEF AtTime!Revived
  <2>2. CASE runs > 0
    BY <1>9, <2>1, <2>2 DEF AtTime!Revived
  <2>3. CASE ~(runs > 0) /\ AtTime!CanRevive
    <3>1. AtTime!ShouldRemainStopped = {FALSE}
      BY <2>3 DEF AtTime!ShouldRemainStopped, AtTime!StopWhen
    <3>2. pc' = "top"
      BY <1>9, <2>3, <3>1 DEF AtTime!Revived
    <3> QED  BY <1>9, <2>1, <3>2 DEF AtTime!Revived
  <2>4. CASE ~(runs > 0) /\ ~AtTime!CanRevive
    BY <1>9, <2>1, <2>4 DEF AtTime!Revived
  <2> QED  BY <2>2, <2>3, <2>4
<1>10. CASE AtTime!ResetWhileDormant
  BY <1>10 DEF AtTime!ResetWhileDormant
<1>11. CASE AtTime!Exits
  BY <1>11 DEF AtTime!Exits
<1>12. CASE AtTime!Stop \/ AtTime!Stopped
  BY <1>12 DEF AtTime!Stop, AtTime!Stopped
<1>13. ASSUME NEW c \in Callers, AtTime!Set(c) PROVE AtCalls'
  <2>1. SUFFICES ASSUME ~overlap' PROVE AtCalls'
    OBVIOUS
  <2>2. ~AtTime!Unsettled /\ last' = "set"
    BY <1>13, <2>1 DEF AtTime!Set, AtTime!Called
  <2>3. ~ResetComing' /\ SetComing'
    BY <1>13, <2>2 DEF AtTime!Set, AtTime!Called, AtTime!Unsettled
  <2>4. AtTime!CanRevive'
    BY <1>13 DEF AtTime!Set, AtTime!Called
  <2>5. pc' # "weigh"
    BY <1>13, <2>2 DEF AtTime!Set, AtTime!Unsettled
  <2> QED  BY <2>2, <2>3, <2>4, <2>5
<1>14. ASSUME NEW c \in Callers, AtTime!Reset(c) PROVE AtCalls'
  BY <1>14 DEF AtTime!Reset, AtTime!Called, AtTime!Unsettled
<1>15. ASSUME NEW c \in Callers, AtTime!Send(c) PROVE AtCalls'
  BY <1>15 DEF AtTime!Send
<1>16. CASE UNCHANGED AtTime!vars
  BY <1>16 DEF AtTime!vars
<1> QED  BY <1>1, <1>2, <1>3, <1>4, <1>5, <1>6, <1>7, <1>8, <1>9, <1>10, <1>11, <1>12,
            <1>13, <1>14, <1>15, <1>16 DEF AtTime!Next, AtTime!Run

LEMMA AtInvariance == AtTime!Spec => []AtInv
<1>1. AtInv /\ [AtTime!Next]_AtTime!vars => AtInv'
  BY AtTypesKept, AtOverrideKept, AtCallsKept DEF AtInv
<1> QED  BY AtInit, <1>1, PTL DEF AtTime!Spec

\* A time that set() asks for is never dropped: a timer that expires for an
\* older one leaves the newer override alone.
THEOREM OverrideAlwaysKept == AtTime!Spec => []AtTime!OverrideKept
<1>1. AtInv => AtTime!OverrideKept
  BY DEF AtInv, AtTypes, AtOverride, SetComing, ResetComing, AtTime!OverrideKept
<1> QED  BY AtInvariance, <1>1, PTL

\* A call of set() or reset() that meets a goroutine at rest decides: a set()
\* revives the trigger.
THEOREM AtCallDecides == AtTime!Spec => []AtTime!LoneCallDecides
<1>1. AtInv => AtTime!LoneCallDecides
  BY DEF AtInv, AtTypes, AtCalls, SetComing, ResetComing, AtTime!LoneCallDecides, AtTime!Unsettled
<1> QED  BY AtInvariance, <1>1, PTL

-----------------------------------------------------------------------------
(* File.  The maps of timers and of events are changed together, and a     *)
(* timer that fires is a callback until it has run.                        *)

Notices == [path : File!Paths, ops : SUBSET {"create", "write"}]
FileTypes ==
  /\ DOMAIN armed = File!Paths /\ DOMAIN eventOf = File!Paths
  /\ waiting \in [File!Paths -> Nat]
  /\ queue \in Seq(Notices)
  /\ loop \in {"none", "running", "ended"}

\* Without a debounce there are no timers; the loop ends for Stop only, and
\* Stop comes after PostStart.
FileStop ==
  /\ ~body.debounce => \A p \in File!Paths : armed[p] = {} /\ waiting[p] = 0
  /\ stop # "no" => started = "yes"
  /\ stop = "no" => loop # "ended"
  /\ stop = "returned" => loop # "running"

FileInv == FileTypes /\ FileStop /\ File!EventNotStranded /\ File!StopWaits

LEMMA FileInit == File!Init => FileInv
  BY DEF File!Init, FileInv, FileTypes, FileStop, File!EventNotStranded, File!StopWaits, File!None

\* A dispatch of the accepted events of a path, with a debounce or without.
LEMMA DispatchedKeeps ==
  ASSUME FileTypes, File!EventNotStranded, NEW p \in File!Paths, NEW evs, File!Dispatched(p, evs)
  PROVE  /\ DOMAIN armed' = File!Paths /\ DOMAIN eventOf' = File!Paths
         /\ ~body.debounce => armed' = armed
         /\ \A q \in File!Paths : eventOf'[q] # File!None => armed'[q] # {} \/ waiting[q] > 0
<1> USE DEF FileTypes, File!EventNotStranded
<1>1. CASE ~body.debounce \/ evs = <<>>
  BY <1>1 DEF File!Dispatched, File!Debounced
<1>2. CASE body.debounce /\ evs # <<>>
  <2>1. PICK t : armed' = [armed EXCEPT ![p] = @ \cup {t}]
    BY <1>2 DEF File!Dispatched, File!Debounced
  <2>2. \E e : eventOf' = [eventOf EXCEPT ![p] = e]
    BY <1>2 DEF File!Dispatched, File!Debounced
  <2>3. armed'[p] # {} /\ \A q \in File!Paths \ {p} : armed'[q] = armed[q] /\ eventOf'[q] = eventOf[q]
    BY <2>1, <2>2
  <2> QED  BY <1>2, <2>1, <2>2, <2>3
<1> QED  BY <1>1, <1>2

LEMMA FileKept == FileInv /\ [File!Next]_File!vars => FileInv'
<1> SUFFICES ASSUME FileTypes, FileStop, File!EventNotStranded, File!StopWaits,
                    [File!Next]_File!vars
             PROVE  FileInv'
  BY DEF FileInv
<1> USE DEF FileInv, FileTypes, FileStop, File!EventNotStranded, File!StopWaits
<1>1. CASE File!Start
  BY <1>1 DEF File!Start
<1>2. CASE File!PostStart
  <2>0. stop = "no" /\ UNCHANGED <<body, watched, queue, waiting, loop, stop>>
    BY <1>2 DEF File!PostStart
  <2>1. CASE body.existing /\ ~body.disabled
    <3>1. PICK p \in Files : File!Dispatched(p, File!Accepted([path |-> p, ops |-> {"create"}]))
      BY <1>2, <2>1 DEF File!PostStart
    <3>2. p \in File!Paths
      BY DEF File!Paths
    <3> QED  BY <2>0, <3>1, <3>2, DispatchedKeeps
  <2>2. CASE ~(body.existing /\ ~body.disabled)
    BY <1>2, <2>0, <2>2 DEF File!PostStart
  <2> QED  BY <2>1, <2>2
<1>3. CASE File!Stop
  BY <1>3 DEF File!Stop
<1>4. CASE File!StopReturns
  BY <1>4 DEF File!StopReturns, File!WgDone
<1>5. CASE File!LoopEnds
  BY <1>5 DEF File!LoopEnds
<1>6. CASE File!Notify
  <2>1. PICK p \in Files \cup SubFiles, ops \in SUBSET {"create", "write"} :
          queue' = Append(queue, [path |-> p, ops |-> ops])
    BY <1>6 DEF File!Notify
  <2>2. [path |-> p, ops |-> ops] \in Notices
    BY DEF File!Paths, Notices
  <2>3. queue' \in Seq(Notices)
    BY <2>1, <2>2
  <2> QED  BY <1>6, <2>3 DEF File!Notify
<1>7. CASE File!MakeDirectory
  <2>1. [path |-> File!Sub, ops |-> {"create"}] \in Notices
    BY DEF File!Paths, Notices
  <2>2. queue' \in Seq(Notices)
    BY <1>7, <2>1 DEF File!MakeDirectory
  <2> QED  BY <1>7, <2>2 DEF File!MakeDirectory
<1>8. CASE File!HandleFsEvent
  <2>0. Head(queue) \in Notices /\ queue' \in Seq(Notices)
    BY <1>8 DEF File!HandleFsEvent
  <2>1. Head(queue).path \in File!Paths
    BY <2>0 DEF Notices
  <2>2. File!Dispatched(Head(queue).path, File!Accepted(Head(queue)))
    BY <1>8 DEF File!HandleFsEvent
  <2>3. loop = "running" /\ UNCHANGED <<body, started, waiting, loop, stop>>
    BY <1>8 DEF File!HandleFsEvent
  <2> QED  BY <2>0, <2>1, <2>2, <2>3, DispatchedKeeps
<1>9. CASE File!Dispatch
  BY <1>9 DEF File!Dispatch
<1>10. ASSUME NEW p \in File!Paths, File!Launch(p) PROVE FileInv'
  <2>1. waiting' = [waiting EXCEPT ![p] = @ + 1] /\ waiting'[p] > 0
    BY <1>10 DEF File!Launch
  <2>2. body.debounce
    BY <1>10 DEF File!Launch
  <2> QED  BY <1>10, <2>1, <2>2 DEF File!Launch
<1>11. ASSUME NEW p \in File!Paths, File!DebounceFires(p) PROVE FileInv'
  BY <1>11 DEF File!DebounceFires, File!Forget, File!None
<1>12. CASE UNCHANGED File!vars
  BY <1>12 DEF File!vars
<1> QED  BY <1>1, <1>2, <1>3, <1>4, <1>5, <1>6, <1>7, <1>8, <1>9, <1>10, <1>11, <1>12
         DEF File!Next

LEMMA FileInvariance == File!Spec => []FileInv
  BY FileInit, FileKept, PTL DEF File!Spec

\* An event that is being debounced always has a timer or a callback coming,
\* whatever the order of notifications, firings and Resets of the same timer.
THEOREM EventNeverStranded == File!Spec => []File!EventNotStranded
<1>1. FileInv => File!EventNotStranded
  BY DEF FileInv
<1> QED  BY FileInvariance, <1>1, PTL

\* Stop of a trigger without a debounce waits for every action it started.
THEOREM StopAlwaysWaits == File!Spec => []File!StopWaits
<1>1. FileInv => File!StopWaits
  BY DEF FileInv
<1> QED  BY FileInvariance, <1>1, PTL

-----------------------------------------------------------------------------
(* Watch.                                                                  *)

\* The flag is up from the moment Stop begins, so a notifier that comes by
\* later turns back; one that was past the flag when the wait ended is raced.
WatchInv ==
  /\ DOMAIN at = Notifiers /\ tasks \in Nat
  /\ stop \in {"flagged", "waiting", "returned"} => stopped
  /\ stop = "returned" => raced \/ (tasks = 0 /\ \A n \in Notifiers : at[n] \notin {"storing", "adding"})

LEMMA WatchKept == WatchInv /\ [Watch!Next]_Watch!vars => WatchInv'
<1> SUFFICES ASSUME WatchInv, [Watch!Next]_Watch!vars PROVE WatchInv'
  OBVIOUS
<1> USE DEF WatchInv
<1>1. CASE Watch!Start \/ Watch!SetStopped \/ Watch!Unwatch
  BY <1>1 DEF Watch!Start, Watch!SetStopped, Watch!Unwatch
<1>2. CASE Watch!Wait
  BY <1>2 DEF Watch!Wait
<1>3. CASE Watch!Dispatch
  BY <1>3 DEF Watch!Dispatch
<1>4. ASSUME NEW n \in Notifiers, Watch!CheckStopped(n) PROVE WatchInv'
  BY <1>4 DEF Watch!CheckStopped, Watch!Unstopped
<1>5. ASSUME NEW n \in Notifiers, Watch!StoreValue(n) PROVE WatchInv'
  BY <1>5 DEF Watch!StoreValue
<1>6. ASSUME NEW n \in Notifiers, Watch!AddTask(n) PROVE WatchInv'
  BY <1>6 DEF Watch!AddTask
<1>7. ASSUME NEW n \in Notifiers, NEW v \in WatchValues, Watch!Change(n, v) PROVE WatchInv'
  BY <1>7 DEF Watch!Change
<1>8. CASE UNCHANGED Watch!vars
  BY <1>8 DEF Watch!vars
<1> QED  BY <1>1, <1>2, <1>3, <1>4, <1>5, <1>6, <1>7, <1>8 DEF Watch!Next

\* After Stop has returned no notification starts an action, however many
\* were under way, but one that was between the flag and the wait group.
THEOREM WatchStopsQuietly == Watch!Spec => []Watch!StopQuiet
<1>1. Watch!Init => WatchInv
  BY DEF Watch!Init, WatchInv
<1>2. WatchInv => Watch!StopQuiet
  BY DEF WatchInv, Watch!StopQuiet
<1> QED  BY <1>1, <1>2, WatchKept, PTL DEF Watch!Spec

-----------------------------------------------------------------------------
(* Once, start and after.                                                  *)

\* Whoever runs the action is alone and has not stored yet; a result is not
\* stored twice; an action has run exactly when its goroutine is past it.
OneShotInv ==
  /\ DOMAIN reader = Readers /\ DOMAIN answer = Readers
  /\ runs \in {0, 1}
  /\ phase = "starting" => runs = 0 /\ at = "none" /\ \A r \in Readers : reader[r] = "idle"
  /\ runs = 0 => stored = "nothing" /\ \A r \in Readers : reader[r] # "runs"
  /\ \A r \in Readers : reader[r] = "runs" => stored = "nothing"
  /\ \A r, s \in Readers : reader[r] = "runs" /\ reader[s] = "runs" => r = s
  /\ \A r \in Readers : reader[r] # "idle" => kind = "once"
  /\ kind = "after" /\ at = "waiting" => runs = 0
  /\ at = "action" => stored = "nothing" /\ kind # "once" /\ runs = 1
  /\ at \in {"none", "waiting", "action", "ended"}
  /\ kind = "once" => at = "none"
  /\ kind = "start" /\ phase \in {"up", "stopping", "stopped"} => at = "ended"
  /\ phase = "stopped" => kind # "after" \/ at = "ended"
  /\ \A r \in Readers : answer[r] \in {"value", "error"} => stored = answer[r]
  /\ kind \in {"once", "start", "after"}
  /\ phase \in {"starting", "post", "up", "stopping", "stopped"}

LEMMA OneShotKept == OneShotInv /\ [OneShot!Next]_OneShot!vars => OneShotInv'
<1> SUFFICES ASSUME OneShotInv, [OneShot!Next]_OneShot!vars PROVE OneShotInv'
  OBVIOUS
<1> USE DEF OneShotInv
<1>1. CASE OneShot!PostStart
  BY <1>1 DEF OneShot!PostStart
<1>2. CASE OneShot!StartEnds
  BY <1>2 DEF OneShot!StartEnds
<1>3. CASE OneShot!DelayElapses
  BY <1>3 DEF OneShot!DelayElapses
<1>4. CASE OneShot!Abandon
  BY <1>4 DEF OneShot!Abandon
<1>5. CASE OneShot!AfterEnds
  BY <1>5 DEF OneShot!AfterEnds
<1>6. CASE OneShot!Stop \/ OneShot!StopReturns
  BY <1>6 DEF OneShot!Stop, OneShot!StopReturns, OneShot!Done
<1>7. ASSUME NEW r \in Readers, OneShot!GetOnce(r) PROVE OneShotInv'
  BY <1>7 DEF OneShot!GetOnce
<1>8. ASSUME NEW r \in Readers, OneShot!EnterOnce(r) PROVE OneShotInv'
  BY <1>8 DEF OneShot!EnterOnce, OneShot!First
<1>9. ASSUME NEW r \in Readers, OneShot!OnceEnds(r) PROVE OneShotInv'
  BY <1>9 DEF OneShot!OnceEnds
<1>10. ASSUME NEW r \in Readers, OneShot!Answered(r) PROVE OneShotInv'
  BY <1>10 DEF OneShot!Answered
<1>11. ASSUME NEW r \in Readers, OneShot!Get(r) PROVE OneShotInv'
  BY <1>11 DEF OneShot!Get
<1>12. CASE UNCHANGED OneShot!vars
  BY <1>12 DEF OneShot!vars
<1> QED  BY <1>1, <1>2, <1>3, <1>4, <1>5, <1>6, <1>7, <1>8, <1>9, <1>10, <1>11, <1>12
         DEF OneShot!Next

LEMMA OneShotInvariance == OneShot!Spec => []OneShotInv
<1>1. OneShot!Init => OneShotInv
  BY DEF OneShot!Init, OneShotInv
<1> QED  BY <1>1, OneShotKept, PTL DEF OneShot!Spec

\* However many goroutines ask first, the action runs once and all of them,
\* then and later, are told the one result.
THEOREM ResultIsOne == OneShot!Spec => []OneShot!OneResult
<1>1. OneShotInv => OneShot!OneResult
  BY DEF OneShotInv, OneShot!OneResult
<1> QED  BY OneShotInvariance, <1>1, PTL

\* When Stop has returned no delayed action is running or will.
THEOREM NothingRunsAfterStop == OneShot!Spec => []OneShot!NothingAfterStop
<1>1. OneShotInv => OneShot!NothingAfterStop
  BY DEF OneShotInv, OneShot!NothingAfterStop
<1> QED  BY OneShotInvariance, <1>1, PTL

-----------------------------------------------------------------------------
(* Fsm.  What holds while no evaluation was older than the value.          *)

\* A claimed edge is one notifier's until its event is in the mailbox or the
\* claim is put back; in one true period the event is sent at most once.
Holding(n) == at[n] \in {"enqueue", "put back"}
FsmTypes ==
  /\ DOMAIN at = Notifiers /\ DOMAIN seen = Notifiers
  /\ value \in BOOLEAN /\ lastWasTrue \in BOOLEAN /\ stale \in BOOLEAN
FsmClaims ==
  ~stale =>
    /\ \A n \in Notifiers : at[n] = "callback" => seen[n] = value
    /\ \A n \in Notifiers : Holding(n) => value /\ lastWasTrue /\ sent = 0
    /\ \A n, m \in Notifiers : Holding(n) /\ Holding(m) => n = m
    /\ ~lastWasTrue \/ ~value => sent = 0
    /\ value /\ lastWasTrue => sent = 1 \/ \E n \in Notifiers : Holding(n)
    /\ ~value /\ lastWasTrue => \E n \in Notifiers : at[n] \in {"eval", "callback"}
    /\ sent \in {0, 1}
FsmPhase ==
  /\ phase # "up" => Fsm!Quiet
  /\ phase = "built" => ~lastWasTrue

FsmInv == FsmTypes /\ FsmClaims /\ FsmPhase

LEMMA FsmKept == FsmInv /\ [Fsm!Next]_Fsm!vars => FsmInv'
<1> SUFFICES ASSUME FsmTypes, FsmClaims, FsmPhase, [Fsm!Next]_Fsm!vars PROVE FsmInv'
  BY DEF FsmInv
<1>0. ASSUME UNCHANGED <<at, seen, value, lastWasTrue, stale, sent>> PROVE FsmTypes' /\ FsmClaims'
  BY <1>0 DEF FsmTypes, FsmClaims, Holding
<1>2. CASE Fsm!Stop \/ Fsm!Stopped
  <2>1. FsmTypes' /\ FsmClaims'
    BY <1>0, <1>2 DEF Fsm!Stop, Fsm!Stopped
  <2>2. FsmPhase'
    BY <1>2 DEF Fsm!Stop, Fsm!Stopped, FsmPhase, Fsm!Quiet
  <2> QED  BY <2>1, <2>2 DEF FsmInv
<1>3. CASE Fsm!Send \/ Fsm!Step
  <2>1. FsmTypes' /\ FsmClaims'
    BY <1>0, <1>3 DEF Fsm!Send, Fsm!Step
  <2>2. FsmPhase'
    BY <1>3 DEF Fsm!Send, Fsm!Step, FsmPhase, Fsm!Quiet
  <2> QED  BY <2>1, <2>2 DEF FsmInv
<1> USE DEF FsmInv, FsmTypes, FsmClaims, FsmPhase, Holding, Fsm!Quiet, Fsm!Idle
<1>1. CASE Fsm!Start
  BY <1>1 DEF Fsm!Start
<1>4. ASSUME NEW n \in Notifiers, Fsm!Eval(n) PROVE FsmInv'
  BY <1>4 DEF Fsm!Eval
<1>5. ASSUME NEW n \in Notifiers, Fsm!Callback(n) PROVE FsmInv'
  BY <1>5 DEF Fsm!Callback, Fsm!Claim
<1>6. ASSUME NEW n \in Notifiers, Fsm!Enqueue(n) PROVE FsmInv'
  <2>1. UNCHANGED <<phase, value, lastWasTrue, seen>> /\ phase = "up"
    BY <1>6 DEF Fsm!Enqueue
  <2>2. SUFFICES ASSUME ~stale' PROVE FsmClaims'
    BY <1>6, <2>1 DEF Fsm!Enqueue
  <2>3. ~stale /\ value /\ lastWasTrue /\ sent = 0
    BY <1>6, <2>2 DEF Fsm!Enqueue
  <2>c. sent + 1 = 1
    <3> HIDE DEF FsmInv, FsmTypes, FsmClaims, FsmPhase
    <3>1. sent = 0
      BY <2>3
    <3> QED  BY <3>1, SMT
  <2>a. at[n] = "enqueue" /\ \A m \in Notifiers \ {n} : ~Holding(m)
    BY <1>6, <2>3 DEF Fsm!Enqueue
  <2>b. \A m \in Notifiers : at[m] = "callback" => seen[m] = value
    BY <2>3
  <2>4. CASE sent' = sent + 1 /\ at' = [at EXCEPT ![n] = "idle"]
    <3>1. sent' = 1
      BY <2>c, <2>4
    <3>2. \A m \in Notifiers : ~Holding(m)'
      BY <2>a, <2>4
    <3>3. \A m \in Notifiers : at'[m] = "callback" => at[m] = "callback"
      BY <2>4
    <3> QED  BY <2>1, <2>3, <2>b, <3>1, <3>2, <3>3
  <2>5. CASE sent' = sent /\ at' = [at EXCEPT ![n] = "put back"]
    <3>1. sent' = 0
      BY <2>3, <2>5
    <3>2. Holding(n)' /\ \A m \in Notifiers \ {n} : ~Holding(m)'
      BY <2>a, <2>5
    <3>3. \A m \in Notifiers : at'[m] = "callback" => at[m] = "callback"
      BY <2>5
    <3> HIDE DEF Holding
    <3> QED  BY <2>1, <2>3, <2>b, <3>1, <3>2, <3>3
  <2> QED  BY <2>1, <2>4, <2>5, <1>6 DEF Fsm!Enqueue, Fsm!AfterRefusal
<1>7. ASSUME NEW n \in Notifiers, Fsm!PutBack(n) PROVE FsmInv'
  BY <1>7 DEF Fsm!PutBack
<1>8. ASSUME NEW n \in Notifiers, NEW v \in BOOLEAN, Fsm!Change(n, v) PROVE FsmInv'
  BY <1>8 DEF Fsm!Change
<1>9. CASE UNCHANGED Fsm!vars
  BY <1>9 DEF Fsm!vars
<1> QED  BY <1>1, <1>2, <1>3, <1>4, <1>5, <1>6, <1>7, <1>8, <1>9 DEF Fsm!Next

LEMMA FsmInvariance == Fsm!Spec => []FsmInv
<1>1. Fsm!Init => FsmInv
  BY DEF Fsm!Init, FsmInv, FsmTypes, FsmClaims, FsmPhase, Holding, Fsm!Quiet, Fsm!Idle
<1> QED  BY <1>1, FsmKept, PTL DEF Fsm!Spec

\* Notifiers that see the expression go true together give one event.
THEOREM EdgeGivesOneEvent == Fsm!Spec => []Fsm!OneEventPerEdge
<1>1. FsmInv => Fsm!OneEventPerEdge
  BY DEF FsmInv, FsmClaims, Fsm!OneEventPerEdge
<1> QED  BY FsmInvariance, <1>1, PTL

\* An edge whose event was not taken stays claimable, also after the mailbox
\* refused it.
THEOREM EdgeNeverSwallowed == Fsm!Spec => []Fsm!EdgeNotSwallowed
<1>1. FsmInv => Fsm!EdgeNotSwallowed
  <2> SUFFICES ASSUME FsmInv, ~stale, Fsm!Quiet, value, sent = 0 PROVE ~lastWasTrue
    BY DEF Fsm!EdgeNotSwallowed
  <2>1. \A n \in Notifiers : ~Holding(n)
    BY DEF Fsm!Quiet, Fsm!Idle, Holding
  <2> QED  BY <2>1 DEF FsmInv, FsmTypes, FsmClaims
<1> QED  BY FsmInvariance, <1>1, PTL

-----------------------------------------------------------------------------
(* The watchdog trigger, for every window, cap and number of feeders, and  *)
(* for both kinds of scheduling.                                           *)

CONSTANTS Window, InitialGrace, Repeat, MaxMisses, HasStopWhen, ActionFails, Feeders, Prompt
VARIABLES left, missCount, miss, lastSet, stopping, feeds, age

Watchdog == INSTANCE Watchdog

\* What the trigger's attributes may be (WatchdogAssumption).
WatchdogOK ==
  /\ Window \in Nat \ {0} /\ InitialGrace \in Nat
  /\ MaxMisses \in Nat /\ MaxCount \in Nat
  /\ Repeat \in BOOLEAN /\ HasStopWhen \in BOOLEAN /\ ActionFails \in BOOLEAN
  /\ Prompt \in BOOLEAN

\* A wakeup is in the channel or on its way to it.
WatchdogFed == setCh \/ \E f \in Feeders : feeds[f]

\* While an action runs or a token is being looked at, the count tells as much
\* as it does while the goroutine waits: zero means that a wakeup is coming.
WatchdogFeedInv ==
  ~HasStopWhen /\ at \in {"firing", "dormant", "stopped"} /\ missCount = 0 => WatchdogFed

\* The cap, by where the goroutine stands: a countdown runs only below the cap,
\* and an action that reached the cap is the one that will halt the trigger.
WatchdogCapInv ==
  MaxMisses > 0 =>
    /\ missCount <= MaxMisses
    /\ at \in {"unborn", "select", "dormant"} => missCount < MaxMisses
    /\ at = "firing" => missCount < MaxMisses \/ miss >= MaxMisses

\* Type correctness: no countdown without a select that waits for it, none that
\* is longer than the window or the grace period.
THEOREM WatchdogTypeCorrect == WatchdogOK => (Watchdog!Spec => []Watchdog!TypeOK)
<1> SUFFICES ASSUME WatchdogOK PROVE Watchdog!Spec => []Watchdog!TypeOK
  OBVIOUS
<1> USE DEF WatchdogOK
<1>1. Watchdog!Init => Watchdog!TypeOK
  <2> SUFFICES ASSUME Watchdog!Init PROVE Watchdog!TypeOK
    OBVIOUS
  <2>1. lastSet \in BOOLEAN /\ setCh \in BOOLEAN /\ stopping \in BOOLEAN
    BY Zenon DEF Watchdog!Init
  <2>2. feeds \in [Feeders -> BOOLEAN]
    BY Zenon DEF Watchdog!Init
  <2> QED BY <2>1, <2>2 DEF Watchdog!Init, Watchdog!TypeOK, Watchdog!Place, Watchdog!NoCountdown
<1>2. Watchdog!TypeOK /\ [Watchdog!Next]_Watchdog!vars => Watchdog!TypeOK'
  <2> SUFFICES ASSUME Watchdog!TypeOK, [Watchdog!Next]_Watchdog!vars PROVE Watchdog!TypeOK'
    OBVIOUS
  <2> USE DEF Watchdog!TypeOK, Watchdog!Place, Watchdog!NoCountdown
  <2>1. ASSUME NEW f \in Feeders, Watchdog!Signal(f) PROVE Watchdog!TypeOK'
    BY <2>1 DEF Watchdog!Signal
  <2>2. ASSUME NEW f \in Feeders, NEW set \in BOOLEAN, Watchdog!Feed(f, set) PROVE Watchdog!TypeOK'
    BY <2>2 DEF Watchdog!Feed
  <2>3. CASE Watchdog!PostStart
    BY <2>3 DEF Watchdog!PostStart
  <2>4. CASE Watchdog!Stop
    BY <2>4 DEF Watchdog!Stop
  <2>5. CASE Watchdog!Expire
    BY <2>5 DEF Watchdog!Expire
  <2>6. CASE Watchdog!FireEnds
    BY <2>6 DEF Watchdog!FireEnds, Watchdog!Rearm
  <2>7. CASE Watchdog!FedWhileArmed
    <3>1. setCh' \in BOOLEAN
      BY <2>7, Zenon DEF Watchdog!FedWhileArmed
    <3> QED BY <2>7, <3>1 DEF Watchdog!FedWhileArmed, Watchdog!Rearm
  <2>8. CASE Watchdog!FedWhileDormant
    <3>1. setCh' \in BOOLEAN
      BY <2>8, Zenon DEF Watchdog!FedWhileDormant
    <3> QED BY <2>8, <3>1 DEF Watchdog!FedWhileDormant, Watchdog!Rearm
  <2>9. CASE Watchdog!FedWhileStopped
    BY <2>9 DEF Watchdog!FedWhileStopped
  <2>10. CASE Watchdog!ShouldRemainStopped
    BY <2>10 DEF Watchdog!ShouldRemainStopped, Watchdog!Rearm
  <2>11. CASE Watchdog!Exit
    BY <2>11 DEF Watchdog!Exit
  <2>12. CASE Watchdog!Tick
    BY <2>12 DEF Watchdog!Tick
  <2>13. CASE UNCHANGED Watchdog!vars
    BY <2>13 DEF Watchdog!vars
  <2> QED BY <2>1, <2>2, <2>3, <2>4, <2>5, <2>6, <2>7, <2>8, <2>9, <2>10,
             <2>11, <2>12, <2>13 DEF Watchdog!Next, Watchdog!Run
<1> QED BY <1>1, <1>2, PTL DEF Watchdog!Spec

\* waitForRevival revives exactly below the cap, unless stop_when keeps the
\* trigger stopped.
LEMMA WatchdogRevivalChecked ==
  ASSUME WatchdogOK, Watchdog!ShouldRemainStopped
  PROVE  /\ at = "recheck" /\ at' \in {"stopped", "select"}
         /\ MaxMisses > 0 /\ missCount >= MaxMisses => at' = "stopped"
         /\ ~HasStopWhen /\ ~(MaxMisses > 0 /\ missCount >= MaxMisses) => at' = "select"
         /\ missCount' = missCount /\ miss' = miss /\ setCh' = setCh /\ feeds' = feeds
<1> USE DEF WatchdogOK
<1> DEFINE capped == MaxMisses > 0 /\ missCount >= MaxMisses
<1>1. PICK stays \in IF capped THEN {TRUE} ELSE IF HasStopWhen THEN BOOLEAN ELSE {FALSE} :
        IF stays THEN at' = "stopped" ELSE at' = "select"
  BY DEF Watchdog!ShouldRemainStopped
<1>2. capped => stays = TRUE
  BY <1>1
<1>3. ~HasStopWhen /\ ~capped => stays = FALSE
  BY <1>1
<1>4. /\ at = "recheck"
      /\ missCount' = missCount /\ miss' = miss /\ setCh' = setCh /\ feeds' = feeds
  BY DEF Watchdog!ShouldRemainStopped
<1>5. CASE stays = TRUE
  BY <1>1, <1>3, <1>4, <1>5
<1>6. CASE stays = FALSE
  BY <1>1, <1>2, <1>4, <1>6
<1>7. stays \in BOOLEAN
  BY <1>1
<1> QED BY <1>5, <1>6, <1>7

\* WatchdogFeedInv is inductive, given the types.
LEMMA WatchdogFeedInvNext ==
  ASSUME WatchdogOK
  PROVE  Watchdog!TypeOK /\ WatchdogFeedInv /\ [Watchdog!Next]_Watchdog!vars => WatchdogFeedInv'
<1> USE DEF WatchdogOK
<1> SUFFICES ASSUME Watchdog!TypeOK, WatchdogFeedInv, [Watchdog!Next]_Watchdog!vars PROVE WatchdogFeedInv'
  OBVIOUS
<1>0. missCount \in Nat /\ feeds \in [Feeders -> BOOLEAN] /\ at \in Watchdog!Place
  BY DEF Watchdog!TypeOK
<1> USE DEF WatchdogFeedInv, WatchdogFed
<1>1. ASSUME NEW f \in Feeders, Watchdog!Signal(f) PROVE WatchdogFeedInv'
  BY <1>1 DEF Watchdog!Signal
<1>2. ASSUME NEW f \in Feeders, NEW set \in BOOLEAN, Watchdog!Feed(f, set) PROVE WatchdogFeedInv'
  BY <1>0, <1>2 DEF Watchdog!Feed
<1>3. CASE Watchdog!PostStart
  BY <1>3 DEF Watchdog!PostStart
<1>4. CASE Watchdog!Stop
  BY <1>4 DEF Watchdog!Stop
<1>5. CASE Watchdog!Expire
  BY <1>0, <1>5 DEF Watchdog!Expire
<1>6. CASE Watchdog!FireEnds
  BY <1>6 DEF Watchdog!FireEnds
<1>7. CASE Watchdog!FedWhileArmed
  BY <1>7 DEF Watchdog!FedWhileArmed
<1>8. CASE Watchdog!FedWhileDormant
  BY <1>8 DEF Watchdog!FedWhileDormant
<1>9. CASE Watchdog!FedWhileStopped
  BY <1>9 DEF Watchdog!FedWhileStopped
<1>10. CASE Watchdog!ShouldRemainStopped
  BY <1>0, <1>10, WatchdogRevivalChecked
<1>11. CASE Watchdog!Exit
  BY <1>11 DEF Watchdog!Exit
<1>12. CASE Watchdog!Tick
  BY <1>12 DEF Watchdog!Tick
<1>13. CASE UNCHANGED Watchdog!vars
  BY <1>13 DEF Watchdog!vars
<1> QED BY <1>1, <1>2, <1>3, <1>4, <1>5, <1>6, <1>7, <1>8, <1>9, <1>10,
           <1>11, <1>12, <1>13 DEF Watchdog!Next, Watchdog!Run

\* No feed is lost, however feeders, the countdown and the action interleave.
THEOREM WatchdogLosesNoFeed == WatchdogOK => (Watchdog!Spec => []Watchdog!NoLostFeed)
<1> SUFFICES ASSUME WatchdogOK PROVE Watchdog!Spec => []Watchdog!NoLostFeed
  OBVIOUS
<1> USE DEF WatchdogOK
<1>1. Watchdog!Init => WatchdogFeedInv
  BY DEF Watchdog!Init, WatchdogFeedInv
<1>2. WatchdogFeedInv => Watchdog!NoLostFeed
  BY DEF WatchdogFeedInv, Watchdog!NoLostFeed, WatchdogFed
<1>3. Watchdog!TypeOK /\ WatchdogFeedInv /\ [Watchdog!Next]_Watchdog!vars => WatchdogFeedInv'
  BY WatchdogFeedInvNext
<1> QED BY <1>1, <1>2, <1>3, WatchdogTypeCorrect, PTL DEF Watchdog!Spec

\* WatchdogCapInv is inductive when actions do not fail: fire() then reaches its check.
LEMMA WatchdogCapInvNext ==
  ASSUME WatchdogOK, ~ActionFails
  PROVE  Watchdog!TypeOK /\ WatchdogCapInv /\ [Watchdog!Next]_Watchdog!vars => WatchdogCapInv'
<1> USE DEF WatchdogOK
<1> SUFFICES ASSUME Watchdog!TypeOK, WatchdogCapInv, [Watchdog!Next]_Watchdog!vars PROVE WatchdogCapInv'
  OBVIOUS
<1>0. missCount \in Nat /\ miss \in Nat /\ at \in Watchdog!Place
  BY DEF Watchdog!TypeOK
<1> USE DEF WatchdogCapInv
<1>1. ASSUME NEW f \in Feeders, Watchdog!Signal(f) PROVE WatchdogCapInv'
  BY <1>1 DEF Watchdog!Signal
<1>2. ASSUME NEW f \in Feeders, NEW set \in BOOLEAN, Watchdog!Feed(f, set) PROVE WatchdogCapInv'
  BY <1>0, <1>2 DEF Watchdog!Feed
<1>3. CASE Watchdog!PostStart
  BY <1>3 DEF Watchdog!PostStart
<1>4. CASE Watchdog!Stop
  BY <1>4 DEF Watchdog!Stop
<1>5. CASE Watchdog!Expire
  BY <1>0, <1>5 DEF Watchdog!Expire
<1>6. CASE Watchdog!FireEnds
  <2>1. PICK halt \in Watchdog!FireResult :
          IF ~halt /\ Repeat THEN at' = "select"
          ELSE at' = (IF halt THEN "stopped" ELSE "dormant")
    BY <1>6 DEF Watchdog!FireEnds
  <2>2. missCount' = missCount /\ miss' = miss /\ at = "firing"
    BY <1>6 DEF Watchdog!FireEnds
  <2>3. MaxMisses > 0 /\ miss >= MaxMisses => halt = TRUE
    BY <2>1 DEF Watchdog!FireResult
  <2> QED BY <1>0, <2>1, <2>2, <2>3
<1>7. CASE Watchdog!FedWhileArmed
  BY <1>7 DEF Watchdog!FedWhileArmed
<1>8. CASE Watchdog!FedWhileDormant
  BY <1>8 DEF Watchdog!FedWhileDormant
<1>9. CASE Watchdog!FedWhileStopped
  BY <1>9 DEF Watchdog!FedWhileStopped
<1>10. CASE Watchdog!ShouldRemainStopped
  BY <1>0, <1>10, WatchdogRevivalChecked
<1>11. CASE Watchdog!Exit
  BY <1>11 DEF Watchdog!Exit
<1>12. CASE Watchdog!Tick
  BY <1>12 DEF Watchdog!Tick
<1>13. CASE UNCHANGED Watchdog!vars
  BY <1>13 DEF Watchdog!vars
<1> QED BY <1>1, <1>2, <1>3, <1>4, <1>5, <1>6, <1>7, <1>8, <1>9, <1>10,
           <1>11, <1>12, <1>13 DEF Watchdog!Next, Watchdog!Run

\* max_misses caps the consecutive fires, as long as the action does not fail.
THEOREM WatchdogCapHolds == WatchdogOK /\ ~ActionFails => (Watchdog!Spec => []Watchdog!MissesCapped)
<1> SUFFICES ASSUME WatchdogOK, ~ActionFails PROVE Watchdog!Spec => []Watchdog!MissesCapped
  OBVIOUS
<1> USE DEF WatchdogOK
<1>1. Watchdog!Init => WatchdogCapInv
  BY DEF Watchdog!Init, WatchdogCapInv
<1>2. WatchdogCapInv => Watchdog!MissesCapped
  BY DEF WatchdogCapInv, Watchdog!MissesCapped
<1>3. Watchdog!TypeOK /\ WatchdogCapInv /\ [Watchdog!Next]_Watchdog!vars => WatchdogCapInv'
  BY WatchdogCapInvNext
<1> QED BY <1>1, <1>2, <1>3, WatchdogTypeCorrect, PTL DEF Watchdog!Spec

-----------------------------------------------------------------------------
(* What holds when a ready goroutine runs before time passes (Prompt): a   *)
(* feed then reaches a countdown that has not run out.                     *)

\* A countdown that ran out, and an action under way, have met no feed.
WatchdogUnfed == at = "firing" \/ (at = "select" /\ left = 0) => ~WatchdogFed

\* Without repeat, where the goroutine may count down it has been fed since it
\* fired, and so has one that is being woken.
WatchdogOnceInv ==
  ~Repeat => /\ missCount <= 1
             /\ at \in {"unborn", "select", "recheck"} => missCount = 0
             /\ WatchdogFed /\ at # "exited" => missCount = 0

\* What is left of a countdown and what has passed since the last feed or
\* re-arming make a window, from the first countdown on unless it is a grace.
WatchdogWindowInv ==
  at = "select" /\ ~WatchdogFed => /\ InitialGrace = 0 => age + left >= Window
                                   /\ left > 0 \/ age >= 1

WatchdogPromptInv == WatchdogUnfed /\ WatchdogOnceInv /\ WatchdogWindowInv

LEMMA WatchdogPromptInvNext ==
  ASSUME WatchdogOK, Prompt
  PROVE  Watchdog!TypeOK /\ WatchdogPromptInv /\ [Watchdog!Next]_Watchdog!vars => WatchdogPromptInv'
<1> USE DEF WatchdogOK
<1> SUFFICES ASSUME Watchdog!TypeOK, WatchdogPromptInv, [Watchdog!Next]_Watchdog!vars PROVE WatchdogPromptInv'
  OBVIOUS
<1>0. /\ missCount \in Nat /\ miss \in Nat /\ at \in Watchdog!Place
      /\ left \in Int /\ left >= -1 /\ age \in Nat /\ age <= Window
      /\ feeds \in [Feeders -> BOOLEAN] /\ setCh \in BOOLEAN
      /\ at = "select" => left # -1
  BY DEF Watchdog!TypeOK, Watchdog!NoCountdown
<1> USE DEF WatchdogPromptInv, WatchdogUnfed, WatchdogOnceInv, WatchdogWindowInv, WatchdogFed
<1>1. ASSUME NEW f \in Feeders, Watchdog!Signal(f) PROVE WatchdogPromptInv'
  BY <1>0, <1>1 DEF Watchdog!Signal
<1>2. ASSUME NEW f \in Feeders, NEW set \in BOOLEAN, Watchdog!Feed(f, set) PROVE WatchdogPromptInv'
  BY <1>0, <1>2 DEF Watchdog!Feed, Watchdog!Ready
<1>3. CASE Watchdog!PostStart
  BY <1>0, <1>3 DEF Watchdog!PostStart
<1>4. CASE Watchdog!Stop
  BY <1>0, <1>4 DEF Watchdog!Stop
<1>5. CASE Watchdog!Expire
  BY <1>0, <1>5 DEF Watchdog!Expire
<1>6. CASE Watchdog!FireEnds
  BY <1>0, <1>6 DEF Watchdog!FireEnds, Watchdog!Rearm
<1>7. CASE Watchdog!FedWhileArmed
  BY <1>0, <1>7 DEF Watchdog!FedWhileArmed, Watchdog!Rearm
<1>8. CASE Watchdog!FedWhileDormant
  BY <1>0, <1>8 DEF Watchdog!FedWhileDormant, Watchdog!Rearm
<1>9. CASE Watchdog!FedWhileStopped
  BY <1>0, <1>9 DEF Watchdog!FedWhileStopped
<1>10. CASE Watchdog!ShouldRemainStopped
  BY <1>0, <1>10 DEF Watchdog!ShouldRemainStopped, Watchdog!Rearm
<1>11. CASE Watchdog!Exit
  BY <1>0, <1>11 DEF Watchdog!Exit
<1>12. CASE Watchdog!Tick
  BY <1>0, <1>12 DEF Watchdog!Tick, Watchdog!Ready, Watchdog!NoCountdown
<1>13. CASE UNCHANGED Watchdog!vars
  BY <1>13 DEF Watchdog!vars
<1> QED BY <1>1, <1>2, <1>3, <1>4, <1>5, <1>6, <1>7, <1>8, <1>9, <1>10,
           <1>11, <1>12, <1>13 DEF Watchdog!Next, Watchdog!Run

LEMMA WatchdogPromptInvariance == WatchdogOK /\ Prompt => (Watchdog!Spec => []WatchdogPromptInv)
<1> SUFFICES ASSUME WatchdogOK, Prompt PROVE Watchdog!Spec => []WatchdogPromptInv
  OBVIOUS
<1> USE DEF WatchdogOK
<1>1. Watchdog!Init => WatchdogPromptInv
  BY DEF Watchdog!Init, WatchdogPromptInv, WatchdogUnfed, WatchdogOnceInv, WatchdogWindowInv,
    WatchdogFed
<1>2. Watchdog!TypeOK /\ WatchdogPromptInv /\ [Watchdog!Next]_Watchdog!vars => WatchdogPromptInv'
  BY WatchdogPromptInvNext
<1> QED BY <1>1, <1>2, WatchdogTypeCorrect, PTL DEF Watchdog!Spec

\* repeat = false: one fire per feed, whoever feeds and whatever the action and
\* stop_when do.
THEOREM WatchdogFiresOnce == WatchdogOK /\ Prompt => (Watchdog!Spec => []Watchdog!FiresOncePerFeed)
<1> SUFFICES ASSUME WatchdogOK, Prompt PROVE Watchdog!Spec => []Watchdog!FiresOncePerFeed
  OBVIOUS
<1> USE DEF WatchdogOK
<1>1. WatchdogPromptInv => Watchdog!FiresOncePerFeed
  BY DEF WatchdogPromptInv, WatchdogOnceInv, Watchdog!FiresOncePerFeed
<1> QED BY <1>1, WatchdogPromptInvariance, PTL

\* "Fire if not fed within this duration": a fire comes a whole window after
\* the last feed or re-arming, and never at once when a grace comes first.
THEOREM WatchdogNeverFiresFed == WatchdogOK /\ Prompt => (Watchdog!Spec => [][Watchdog!FiresUnfed]_Watchdog!vars)
<1> SUFFICES ASSUME WatchdogOK, Prompt PROVE Watchdog!Spec => [][Watchdog!FiresUnfed]_Watchdog!vars
  OBVIOUS
<1> USE DEF WatchdogOK
<1>1. Watchdog!TypeOK /\ WatchdogPromptInv => Watchdog!FiresUnfed
  BY DEF Watchdog!TypeOK, WatchdogPromptInv, WatchdogUnfed, WatchdogWindowInv,
    Watchdog!FiresUnfed, Watchdog!Expire,
    Watchdog!NoCountdown
<1> QED BY <1>1, WatchdogPromptInvariance, WatchdogTypeCorrect, PTL DEF Watchdog!Spec
=============================================================================
