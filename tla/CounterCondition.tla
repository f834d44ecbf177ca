-------------------------- MODULE CounterCondition --------------------------
(***************************************************************************)
(* condition "counter": conditions/counter.go.  The count is kept under    *)
(* c.mu; the comparison with the preset is handed to the state machine     *)
(* after the unlock (StateMachine.SetRawInput), so calls may overtake each *)
(* other in between.  With a window the count is the number of events of   *)
(* the last Window ticks, and a timer re-evaluates it when the oldest      *)
(* leaves.  Of the state machine only its rawInput is kept here; the       *)
(* machine is ConditionStateMachine.                                       *)
(***************************************************************************)
EXTENDS Integers, Sequences, FiniteSets

CONSTANTS Callers,     \* goroutines calling increment, decrement, reset
          Presets, Initials, Windows,   \* values the attributes may take
          Deltas,      \* arguments of increment and decrement
          MaxCount     \* bound on the count

VARIABLES body,        \* the block's attributes
          count, events,   \* events: their ages, oldest first
          timer,       \* expiryTimer: ticks left, or NoTimer
          launched,    \* an expiry callback is on its way to c.mu
          raw,         \* the machine's rawInput
          pc,          \* per goroutine: what it does after its unlock
          started, overlap

vars == <<body, count, events, timer, launched, raw, pc, started, overlap>>

NoTimer == -1
Expiry == "expiry"
Goroutines == Callers \cup {Expiry}
Idle == [at |-> "idle", v |-> FALSE]
At(a, v) == [at |-> a, v |-> v]

-----------------------------------------------------------------------------
\* processCounterCondition: what it refuses.  A window excludes rollover,
\* count_down and a non-zero initial.
ProcessCounterCondition(b) ==
  b.window > 0 => ~b.rollover /\ ~b.countDown /\ b.initial = 0

Matched(n) == IF body.countDown THEN n <= body.preset ELSE n >= body.preset

\* pruneLocked drops from the front, up to the first event inside the window.
Live(es) == {i \in DOMAIN es : es[i] < body.window}
Prune(es) ==
  IF Live(es) = {} THEN <<>>
  ELSE SubSeq(es, CHOOSE i \in Live(es) : \A j \in Live(es) : i <= j, Len(es))

(* Broken form: only the first event of a window arms the timer. *)
ArmExpiryOnce(es) == IF Len(es) = 1 THEN body.window ELSE timer

\* armExpiryLocked: for when the oldest event leaves, or not at all.
ArmExpiry(es) ==
  IF es = <<>> THEN NoTimer
  ELSE LET rest == body.window - es[1] IN IF rest < 0 THEN 0 ELSE rest

Busy == {g \in Goroutines : pc[g] # Idle}
Overlapping == overlap' = (overlap \/ Busy # {})

-----------------------------------------------------------------------------
\* applyWindowedDelta, up to its unlock: a decrement takes the oldest.
WindowedDelta(delta) ==
  LET live == Prune(events)
      es == IF delta >= 0 THEN live \o [i \in 1..delta |-> 0]
            ELSE SubSeq(live, 1 + (IF -delta > Len(live) THEN Len(live) ELSE -delta), Len(live))
  IN  /\ events' = es /\ count' = Len(es) /\ timer' = ArmExpiry(es)

\* applyDelta, up to its unlock; the count does not go below zero.
PlainDelta(delta) ==
  /\ count' = IF count + delta < 0 THEN 0 ELSE count + delta
  /\ UNCHANGED <<events, timer>>

ApplyDelta(g, delta) ==
  /\ pc[g] = Idle /\ count + delta <= MaxCount
  /\ IF body.window > 0 THEN WindowedDelta(delta) ELSE PlainDelta(delta)
  /\ pc' = [pc EXCEPT ![g] = At(IF body.window > 0 THEN "set last" ELSE "set", Matched(count'))]
  /\ Overlapping
  /\ UNCHANGED <<body, launched, raw>>

Increment(g, delta) == started /\ ApplyDelta(g, delta) /\ UNCHANGED started

Start(g) == ~started /\ started' = TRUE /\ ApplyDelta(g, 0)

\* sm.SetRawInput; a match with rollover goes on to reset the count.
SetRawInput(g) ==
  /\ pc[g].at \in {"set", "set last"}
  /\ raw' = pc[g].v
  /\ pc' = [pc EXCEPT ![g] = IF pc[g].at = "set" /\ pc[g].v /\ body.rollover
                               THEN At("roll", TRUE) ELSE Idle]
  /\ UNCHANGED <<body, count, events, timer, launched, started, overlap>>

(* Broken form: rollover resets the count without releasing the machine. *)
AfterRollSilent(g) == [pc EXCEPT ![g] = Idle]

AfterRoll(g) == [pc EXCEPT ![g] = IF Matched(body.initial) THEN Idle ELSE At("set last", FALSE)]

\* The second critical section of a rollover.
Rollover(g) ==
  /\ pc[g].at = "roll"
  /\ count' = body.initial /\ pc' = AfterRoll(g)
  /\ overlap' = (overlap \/ Cardinality(Busy) > 1)
  /\ UNCHANGED <<body, events, timer, launched, raw, started>>

\* Reset and Clear: the count goes back before the machine is cleared.
Reset(g) ==
  /\ started /\ pc[g] = Idle
  /\ count' = body.initial /\ events' = <<>> /\ timer' = NoTimer
  /\ pc' = [pc EXCEPT ![g] = At("clear", FALSE)]
  /\ Overlapping
  /\ UNCHANGED <<body, launched, raw, started>>

\* sm.Clear drops the machine's rawInput, whatever the count says.
Clear(g) ==
  /\ pc[g].at = "clear" /\ raw' = FALSE /\ pc' = [pc EXCEPT ![g] = Idle]
  /\ UNCHANGED <<body, count, events, timer, launched, started, overlap>>

\* Count prunes under the lock and arms nothing.
Count ==
  /\ started /\ body.window > 0 /\ Prune(events) # events
  /\ events' = Prune(events) /\ count' = Len(Prune(events))
  /\ UNCHANGED <<body, timer, launched, raw, pc, started, overlap>>

Launch ==
  /\ timer = 0 /\ ~launched /\ launched' = TRUE /\ timer' = NoTimer
  /\ UNCHANGED <<body, count, events, raw, pc, started, overlap>>

\* onWindowExpire, up to its unlock.
OnWindowExpire ==
  /\ launched /\ pc[Expiry] = Idle
  /\ launched' = FALSE
  /\ events' = Prune(events) /\ timer' = ArmExpiry(Prune(events))
  /\ count' = IF Prune(events) = events THEN count ELSE Len(Prune(events))
  /\ pc' = [pc EXCEPT ![Expiry] = At("set last", Matched(count'))]
  /\ Overlapping
  /\ UNCHANGED <<body, raw, started>>

\* A due timer is launched before time goes on; its callback may lag.
Tick ==
  /\ body.window > 0 /\ timer # 0 /\ events # <<>>
  /\ \A i \in DOMAIN events : events[i] <= body.window
  /\ events' = [i \in DOMAIN events |-> events[i] + 1]
  /\ timer' = IF timer = NoTimer THEN timer ELSE timer - 1
  /\ UNCHANGED <<body, count, launched, raw, pc, started, overlap>>

-----------------------------------------------------------------------------
Bodies == {b \in [preset : Presets, initial : Initials, window : Windows,
                  rollover : BOOLEAN, countDown : BOOLEAN] : ProcessCounterCondition(b)}

Init ==
  /\ body \in Bodies /\ count = body.initial /\ events = <<>> /\ timer = NoTimer
  /\ launched = FALSE /\ raw = FALSE /\ pc = [g \in Goroutines |-> Idle]
  /\ started = FALSE /\ overlap = FALSE

Next ==
  \/ \E g \in Callers : Start(g) \/ Reset(g) \/ \E d \in Deltas : Increment(g, d)
  \/ \E g \in Goroutines : SetRawInput(g) \/ Rollover(g) \/ Clear(g)
  \/ Count \/ Launch \/ OnWindowExpire \/ Tick

Spec == Init /\ [][Next]_vars

-----------------------------------------------------------------------------
(* Properties.                                                             *)

Quiet == started /\ Busy = {} /\ ~launched /\ timer # 0

\* An event inside the window always has a re-evaluation coming, so a burst
\* that has passed cannot hold the condition (armExpiryLocked).
WindowArmed == events # <<>> => timer # NoTimer \/ launched

\* However increments interleave, a rollover counter at rest is below its
\* preset and does not assert its input: the reset and the release are two
\* critical sections, and the last one to run is a release (applyDelta).
RolloverReleases ==
  Quiet /\ body.rollover /\ ~Matched(body.initial) => ~raw /\ ~Matched(count)

\* Calls that do not overlap leave the input at what the count says, except
\* that reset releases the input until the next call.
LoneCallTracks ==
  Quiet /\ ~overlap => raw = Matched(count) \/ (~raw /\ count = body.initial)
=============================================================================
