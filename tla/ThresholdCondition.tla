------------------------- MODULE ThresholdCondition -------------------------
(***************************************************************************)
(* condition "threshold": conditions/threshold.go.  A numeric input is     *)
(* turned into a boolean with hysteresis (deriveLocked), debounced, and    *)
(* handed to the state machine.  c.mu is taken three times on the way:     *)
(* submitValue, submitDerived, and the debounce callback; each is a step,  *)
(* and SetRawInput after it another.  Of the machine only rawInput is kept.*)
(***************************************************************************)
EXTENDS Integers, FiniteSets

CONSTANTS Callers,   \* goroutines the input's sources notify from
          Values,    \* what the input may be
          High, Low, \* the two levels, High > Low
          Debounces, \* {0}, {1}, {0, 1}: whether debounce is set
          MaxFired   \* bound: debounce callbacks on their way

VARIABLES form,      \* [high, debounce, startActive]
          value,     \* the input expression's value
          derived, stable, ref,
          deb,       \* debTimer: "none" or "armed"
          fired,     \* callbacks launched and not yet run
          raw, pc, overlap

vars == <<form, value, derived, stable, ref, deb, fired, raw, pc, overlap>>

Callback == "callback"
Goroutines == Callers \cup {Callback}
Idle == [at |-> "idle", v |-> FALSE]
At(a, v) == [at |-> a, v |-> v]
Busy == {g \in Goroutines : pc[g] # Idle}
Overlapping == overlap' = (overlap \/ Busy # {})

-----------------------------------------------------------------------------
\* processThresholdCondition: one complete pair, in order.  Absent is -1.
Absent == -1
ProcessThresholdCondition(b) ==
  LET high == b.onAbove # Absent \/ b.offBelow # Absent
      low == b.onBelow # Absent \/ b.offAbove # Absent
  IN  /\ high # low
      /\ high => b.onAbove # Absent /\ b.offBelow # Absent /\ b.onAbove > b.offBelow
      /\ low => b.onBelow # Absent /\ b.offAbove # Absent /\ b.offAbove > b.onBelow

Levels == {Absent, Low, High}
Bodies == {b \in [onAbove : Levels, offBelow : Levels, onBelow : Levels, offAbove : Levels] :
             ProcessThresholdCondition(b)}

(* Broken form: the deadband is not one, the input leaves at the on level. *)
DeriveNoBand(was, v) == IF form.high THEN v > form.on ELSE v < form.on

\* deriveLocked.
DeriveLocked(was, v) ==
  IF form.high
    THEN IF was THEN ~(v < form.off) ELSE v > form.on
    ELSE IF was THEN ~(v > form.off) ELSE v < form.on

\* What hysteresis means: the last value that was outside the band decides.
Beyond(v) == IF form.high THEN v > form.on ELSE v < form.on
Within(v) == IF form.high THEN v < form.off ELSE v > form.off
Reference(was, v) == IF Beyond(v) THEN TRUE ELSE IF Within(v) THEN FALSE ELSE was

-----------------------------------------------------------------------------
\* A source changes and its goroutine submits what it evaluated.
SubmitValue(g, v) ==
  /\ pc[g] = Idle
  /\ value' = v
  /\ LET d == DeriveLocked(derived, v) IN
       /\ derived' = d /\ ref' = Reference(ref, v)
       /\ pc' = [pc EXCEPT ![g] = IF d = derived THEN Idle ELSE At("derived", d)]
  /\ Overlapping
  /\ UNCHANGED <<form, stable, deb, fired, raw>>

\* submitDerived: without debounce the edge goes straight on; with it, the
\* timer is restarted, or stopped when the input is back where it was.
SubmitDerived(g) ==
  LET v == pc[g].v IN
  /\ pc[g].at = "derived"
  /\ IF v = stable
       THEN /\ deb' = IF form.debounce > 0 THEN "none" ELSE deb
            /\ pc' = [pc EXCEPT ![g] = Idle] /\ UNCHANGED stable
     ELSE IF form.debounce = 0
       THEN /\ stable' = v /\ pc' = [pc EXCEPT ![g] = At("set", v)] /\ UNCHANGED deb
       ELSE /\ deb' = "armed" /\ pc' = [pc EXCEPT ![g] = Idle] /\ UNCHANGED stable
  /\ overlap' = (overlap \/ Cardinality(Busy) > 1)
  /\ UNCHANGED <<form, value, derived, ref, fired, raw>>

DebounceExpires ==
  /\ deb = "armed" /\ fired < MaxFired
  /\ deb' = "none" /\ fired' = fired + 1
  /\ UNCHANGED <<form, value, derived, stable, ref, raw, pc, overlap>>

(* Broken form: the callback commits what it was armed for, not what is. *)
CommitOpposite == ~stable

\* onDebounceFire drops the timer it finds, its own or a later one, and
\* commits the current derived value.
CommitDerived == derived

OnDebounceFire ==
  /\ fired > 0 /\ pc[Callback] = Idle
  /\ fired' = fired - 1
  /\ deb' = IF deb = "armed" THEN "lost" ELSE deb
  /\ IF CommitDerived = stable THEN UNCHANGED <<stable, pc>>
     ELSE /\ stable' = CommitDerived
          /\ pc' = [pc EXCEPT ![Callback] = At("set", CommitDerived)]
  /\ Overlapping
  /\ UNCHANGED <<form, value, derived, ref, raw>>

\* debTimer = nil does not stop the timer it forgets: that one still fires.
ForgottenExpires ==
  /\ deb = "lost" /\ fired < MaxFired /\ deb' = "none" /\ fired' = fired + 1
  /\ UNCHANGED <<form, value, derived, stable, ref, raw, pc, overlap>>

SetRawInput(g) ==
  /\ pc[g].at = "set" /\ raw' = pc[g].v /\ pc' = [pc EXCEPT ![g] = Idle]
  /\ UNCHANGED <<form, value, derived, stable, ref, deb, fired, overlap>>

\* Clear forgets everything, clears the machine, and samples the input anew.
Clear(g) ==
  /\ pc[g] = Idle
  /\ derived' = FALSE /\ stable' = FALSE /\ ref' = FALSE
  /\ deb' = IF deb = "armed" THEN "none" ELSE deb
  /\ pc' = [pc EXCEPT ![g] = At("clear", FALSE)]
  /\ Overlapping
  /\ UNCHANGED <<form, value, fired, raw>>

ClearMachine(g) ==
  /\ pc[g].at = "clear" /\ raw' = FALSE
  /\ pc' = [pc EXCEPT ![g] = At("sample", FALSE)]
  /\ UNCHANGED <<form, value, derived, stable, ref, deb, fired, overlap>>

Sample(g) ==
  LET d == DeriveLocked(derived, value) IN
  /\ pc[g].at = "sample"
  /\ derived' = d /\ stable' = d /\ ref' = Reference(ref, value)
  /\ pc' = [pc EXCEPT ![g] = IF d THEN At("set", TRUE) ELSE Idle]
  /\ overlap' = (overlap \/ Cardinality(Busy) > 1)
  /\ UNCHANGED <<form, value, deb, fired, raw>>

-----------------------------------------------------------------------------
\* Start: start_active boots derived and stable true; Bootstrap the machine.
Init ==
  /\ \E b \in Bodies, d \in Debounces, s \in BOOLEAN :
       /\ form = [high |-> b.onAbove # Absent, debounce |-> d,
                  on |-> IF b.onAbove # Absent THEN b.onAbove ELSE b.onBelow,
                  off |-> IF b.onAbove # Absent THEN b.offBelow ELSE b.offAbove]
       /\ derived = s /\ stable = s /\ ref = s /\ raw = s
  /\ value = Low /\ deb = "none" /\ fired = 0
  /\ pc = [g \in Goroutines |-> Idle] /\ overlap = FALSE

Next ==
  \/ \E g \in Callers : Clear(g) \/ \E v \in Values : SubmitValue(g, v)
  \/ \E g \in Goroutines : SubmitDerived(g) \/ SetRawInput(g) \/ ClearMachine(g) \/ Sample(g)
  \/ DebounceExpires \/ ForgottenExpires \/ OnDebounceFire

Spec == Init /\ [][Next]_vars

-----------------------------------------------------------------------------
(* Properties.                                                             *)

\* The output side of the band is decided by the last value that left it,
\* whatever came between and whoever cleared the condition (deriveLocked).
Hysteresis == derived = ref

\* Notifications that do not overlap bring the machine to the derived value:
\* an edge that is not committed yet has a debounce callback coming, and one
\* that is committed has reached the machine (submitDerived, onDebounceFire).
LoneEdgeCommits ==
  Busy = {} /\ ~overlap =>
    /\ raw = stable
    /\ derived # stable => form.debounce > 0 /\ (deb # "none" \/ fired > 0)
=============================================================================
