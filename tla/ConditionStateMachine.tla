------------------------ MODULE ConditionStateMachine ------------------------
(***************************************************************************)
(* The four-state machine behind every condition: conditions/state.go.     *)
(*                                                                         *)
(* Everything the Go code does between sm.mu.Lock and sm.mu.Unlock is one  *)
(* atomic step here.  What is NOT atomic is what makes it hard:            *)
(*   - a timer is armed (AfterFunc), later launched by the runtime, and    *)
(*     only then does its callback ask for sm.mu.  Stop() removes an armed *)
(*     timer and does nothing to a launched one, so a callback may find    *)
(*     the machine in another state than the one that armed it;            *)
(*   - notifyAll runs after the unlock, so deliveries may overtake.        *)
(*                                                                         *)
(* Time is discrete and relative: an armed timer stores the ticks it has   *)
(* left, cooldownUntil the ticks until the instant it names (0 for the     *)
(* zero time and for an instant that has passed, which the code does not   *)
(* tell apart), retStartedAt the ticks since the instant it names.         *)
(***************************************************************************)
EXTENDS Integers

CONSTANTS
  ActivateAfter, DeactivateAfter, Timeout, Cooldown,  \* Behavior, in ticks
  Latch, Invert, Retentive, StartActive,              \* Behavior, flags
  Concurrent,  \* TRUE: RealClock and any number of goroutines.  FALSE: one
               \* goroutine and the fake clock of the unit tests, which runs
               \* a due callback before anything else happens.
  TimerIds,    \* bound: timers alive at a time
  NoTimer,     \* the nil ClockTimer
  MaxNotices   \* bound: notifications of each kind on their way

ASSUME DurationAssumption ==
  /\ ActivateAfter \in Nat /\ DeactivateAfter \in Nat
  /\ Timeout \in Nat       /\ Cooldown \in Nat
ASSUME FlagAssumption ==
  /\ Latch \in BOOLEAN     /\ Invert \in BOOLEAN
  /\ Retentive \in BOOLEAN /\ StartActive \in BOOLEAN
  /\ Concurrent \in BOOLEAN
ASSUME TimerAssumption == TimerIds # {} /\ NoTimer \notin TimerIds
ASSUME BoundAssumption == MaxNotices \in Nat

VARIABLES
  sm,       \* the StateMachine, and the timers of its clock
  notices,  \* notifyAll calls that have left the lock and not yet run
  balance,  \* on_activate minus on_deactivate hooks run so far
  heard,    \* the value the last watcher call to run carried
  hist      \* what the delays are judged by, see History

vars == <<sm, notices, balance, heard, hist>>

Inactive == "inactive"
PendingActivation == "pending_activation"
Active == "active"
PendingDeactivation == "pending_deactivation"
State == {Inactive, PendingActivation, Active, PendingDeactivation}

\* A notification runs the hook of the value it carries.
Hook == {"on_activate", "on_deactivate"}
HookFor(value) == IF value THEN "on_activate" ELSE "on_deactivate"

Callback == {"onActivateTimer", "onDeactivateTimer", "onTimeoutTimer",
             "onCooldownTimer"}
Idle == [fn |-> "none", phase |-> "idle", left |-> 0]
Timer == {Idle} \cup [fn : Callback, phase : {"armed"}, left : Nat]
                \cup [fn : Callback, phase : {"launched"}, left : {0}]

NoTime == -1  \* the zero time.Time, for retStartedAt

StateMachine ==
  [state : State, rawInput : BOOLEAN, latched : BOOLEAN, inhibited : BOOLEAN,
   cooldownUntil : Nat,
   pendingTimer : TimerIds \cup {NoTimer},
   timeoutTimer : TimerIds \cup {NoTimer},
   cooldownTimer : TimerIds \cup {NoTimer},
   retAccumulated : Nat, retStartedAt : Nat \cup {NoTime},
   clock : [TimerIds -> Timer]]

-----------------------------------------------------------------------------
(* The clock: AfterFunc and Stop.                                          *)

Handles(s) == {s.pendingTimer, s.timeoutTimer, s.cooldownTimer}

\* An identity for a new timer: of no timer alive and of no handle still held.
FreeIds(s) == {i \in TimerIds : s.clock[i] = Idle} \ Handles(s)
NewTimer(s) == CHOOSE i \in FreeIds(s) : TRUE

AfterFunc(s, d, f) ==
  [s.clock EXCEPT ![NewTimer(s)] = [fn |-> f, phase |-> "armed", left |-> d]]

\* Stop() of a timer that was launched, or has run, changes nothing.
Stopped(s, h) ==
  [i \in TimerIds |->
     IF i = h /\ s.clock[i].phase = "armed" THEN Idle ELSE s.clock[i]]

\* Timers alive, armed or launched, that will call f.
Outstanding(s, f) == {i \in TimerIds : s.clock[i].fn = f}

-----------------------------------------------------------------------------
(* The *Locked helpers.                                                    *)

Output(s) == s.state \in {Active, PendingDeactivation}

CooldownActive(s) == s.cooldownUntil > 0

CancelPending(s) ==
  [s EXCEPT !.clock = Stopped(s, s.pendingTimer), !.pendingTimer = NoTimer]

CancelTimeout(s) ==
  [s EXCEPT !.clock = Stopped(s, s.timeoutTimer), !.timeoutTimer = NoTimer]

\* Broken form: the latch does not suppress the timeout.
TimeoutDespiteLatch(s) ==
  LET c == CancelTimeout(s)
  IN  IF Timeout = 0
        THEN c
        ELSE [c EXCEPT !.clock = AfterFunc(c, Timeout, "onTimeoutTimer"),
                       !.timeoutTimer = NewTimer(c)]
RestartTimeout(s) ==
  LET c == CancelTimeout(s)
  IN  IF s.latched \/ Timeout = 0
        THEN c
        ELSE [c EXCEPT !.clock = AfterFunc(c, Timeout, "onTimeoutTimer"),
                       !.timeoutTimer = NewTimer(c)]

BecomeActive(s) ==
  RestartTimeout([s EXCEPT !.state = Active,
                           !.retAccumulated = 0,
                           !.retStartedAt = NoTime,
                           !.latched = @ \/ Latch])

\* Starts the cooldown window whatever ended the active period, Clear excepted.
StartCooldown(s) ==
  LET c == [s EXCEPT !.clock = Stopped(s, s.cooldownTimer)]
  IN  IF Cooldown = 0
        THEN s
        ELSE [c EXCEPT !.cooldownUntil = Cooldown,
                       !.clock = AfterFunc(c, Cooldown, "onCooldownTimer"),
                       !.cooldownTimer = NewTimer(c)]

BecomeInactive(s) == StartCooldown(CancelTimeout([s EXCEPT !.state = Inactive]))

\* Arms the activation timer for what is left of activate_after.
ArmActivation(s) ==
  [s EXCEPT !.state = PendingActivation,
            !.retStartedAt = 0,
            !.clock = AfterFunc(s, ActivateAfter - s.retAccumulated,
                                "onActivateTimer"),
            !.pendingTimer = NewTimer(s)]

\* Broken form: the cooldown window is not consulted.
ActivateInCooldown(s) ==
  IF s.inhibited THEN s
  ELSE IF ActivateAfter <= s.retAccumulated THEN BecomeActive(s)
  ELSE ArmActivation(s)
\* Broken form: inhibit is not consulted.
ActivateInhibited(s) ==
  IF CooldownActive(s) THEN s
  ELSE IF ActivateAfter <= s.retAccumulated THEN BecomeActive(s)
  ELSE ArmActivation(s)
TryActivate(s) ==
  IF CooldownActive(s) \/ s.inhibited THEN s
  ELSE IF ActivateAfter <= s.retAccumulated THEN BecomeActive(s)
  ELSE ArmActivation(s)

\* The elapsed slice is added to the accumulator, and the timer is stopped.
PauseRetentive(s) ==
  [CancelPending(s) EXCEPT
     !.retAccumulated = IF s.retStartedAt = NoTime THEN @ ELSE @ + s.retStartedAt,
     !.retStartedAt = NoTime]

\* Broken form: a completed accumulation arms a timer all the same.
ResumeUnchecked(s) == ArmActivation(s)
ResumeRetentive(s) ==
  IF ActivateAfter <= s.retAccumulated THEN BecomeActive(s) ELSE ArmActivation(s)

\* onInputChangeLocked, by the state the edge meets.
InputWhileInactive(s, value) == IF value THEN TryActivate(s) ELSE s

InputWhilePendingActivation(s, value) ==
  CASE value /\ Retentive /\ s.pendingTimer = NoTimer -> ResumeRetentive(s)
    [] value /\ ~(Retentive /\ s.pendingTimer = NoTimer) -> s
    [] ~value /\ Retentive  -> PauseRetentive(s)
    [] ~value /\ ~Retentive -> [CancelPending(s) EXCEPT !.state = Inactive]

ArmDeactivation(s) ==
  [s EXCEPT !.state = PendingDeactivation,
            !.clock = AfterFunc(s, DeactivateAfter, "onDeactivateTimer"),
            !.pendingTimer = NewTimer(s)]

\* Broken form: a latched machine deactivates with its input.
IgnoreLatch(s, value) ==
  IF value THEN RestartTimeout(s)
  ELSE IF DeactivateAfter > 0 THEN ArmDeactivation(s) ELSE BecomeInactive(s)
InputWhileActive(s, value) ==
  IF value THEN RestartTimeout(s)
  ELSE IF s.latched THEN s
  ELSE IF DeactivateAfter > 0 THEN ArmDeactivation(s) ELSE BecomeInactive(s)

\* Broken form: re-assertion leaves the hold timer running.
KeepDeactivationTimer(s, value) ==
  IF value THEN RestartTimeout([s EXCEPT !.state = Active]) ELSE s
\* Broken form: re-assertion does not restart the timeout.
KeepTimeout(s, value) ==
  IF value THEN [CancelPending(s) EXCEPT !.state = Active] ELSE s
InputWhilePendingDeactivation(s, value) ==
  IF value
    THEN RestartTimeout([CancelPending(s) EXCEPT !.state = Active])
    ELSE s

OnInputChange(s, value) ==
  CASE s.state = Inactive            -> InputWhileInactive(s, value)
    [] s.state = PendingActivation   -> InputWhilePendingActivation(s, value)
    [] s.state = Active              -> InputWhileActive(s, value)
    [] s.state = PendingDeactivation -> InputWhilePendingDeactivation(s, value)

-----------------------------------------------------------------------------
(* Auxiliary: hist records, for the properties about delays only,          *)
(*   held   ticks the input has been asserted toward the next activation;  *)
(*   quiet  ticks since the last deactivation that was not a Clear;        *)
(*   lit    ticks since the last activation or re-assertion;               *)
(*   low    ticks since the input last fell.                               *)
(* Each stops counting one past the delay it is compared with.             *)

History ==
  [held : 0..ActivateAfter + 1, quiet : 0..Cooldown + 1,
   lit : 0..Timeout + 1, low : 0..DeactivateAfter + 1]

Observed(s) ==
  [held  |-> IF Output(s) \/ s.inhibited \/ (~s.rawInput /\ ~Retentive)
               THEN 0 ELSE hist.held,
   quiet |-> IF Output(sm) /\ ~Output(s) THEN 0 ELSE hist.quiet,
   lit   |-> IF (s.rawInput /\ ~sm.rawInput) \/ (Output(s) /\ ~Output(sm))
               THEN 0 ELSE hist.lit,
   low   |-> IF sm.rawInput /\ ~s.rawInput THEN 0 ELSE hist.low]

Aged(n, limit) == IF n <= limit THEN n + 1 ELSE n

-----------------------------------------------------------------------------
(* Steps.                                                                  *)

Quiescent ==
  /\ \A h \in Hook : notices[h] = 0
  /\ \A i \in TimerIds : sm.clock[i].phase # "launched"

Due(i) == sm.clock[i].phase = "armed" /\ sm.clock[i].left = 0

\* A caller may take sm.mu: always, or between the events of a sequential run.
MayEnter == Concurrent \/ (Quiescent /\ \A i \in TimerIds : ~Due(i))

\* Broken form: watchers hear the value before inversion.
NotifyUninverted(s) ==
  /\ sm' = s
  /\ IF Output(s) = Output(sm)
       THEN UNCHANGED notices
       ELSE LET h == HookFor(Output(s))
            IN  /\ notices[h] < MaxNotices
                /\ notices' = [notices EXCEPT ![h] = @ + 1]
  /\ UNCHANGED <<balance, heard>>
\* The lock is released with the machine in s; before # after makes one
\* notification, whose value notifyAll inverts if so configured.
Unlock(s) ==
  /\ sm' = s
  /\ IF Output(s) = Output(sm)
       THEN UNCHANGED notices
       ELSE LET h == HookFor(Output(s) # Invert)
            IN  /\ notices[h] < MaxNotices
                /\ notices' = [notices EXCEPT ![h] = @ + 1]
  /\ UNCHANGED <<balance, heard>>

Armable == FreeIds(sm) # {}

SetRawInput(value) ==
  /\ MayEnter
  /\ Armable
  /\ sm.rawInput # value
  /\ LET s == OnInputChange([sm EXCEPT !.rawInput = value], value)
     IN  Unlock(s) /\ hist' = Observed(s)

Inhibit(s) ==
  IF s.state = PendingActivation
    THEN [CancelPending(s) EXCEPT !.retAccumulated = 0,
                                  !.retStartedAt = NoTime,
                                  !.state = Inactive]
    ELSE s

\* Broken form: release of inhibit skips activate_after and cooldown.
UninhibitAtOnce(s) ==
  IF s.state = Inactive /\ s.rawInput THEN BecomeActive(s) ELSE s
Uninhibit(s) == IF s.state = Inactive /\ s.rawInput THEN TryActivate(s) ELSE s

SetInhibited(inhibited) ==
  /\ MayEnter
  /\ Armable
  /\ sm.inhibited # inhibited
  /\ LET t == [sm EXCEPT !.inhibited = inhibited]
         s == IF inhibited THEN Inhibit(t) ELSE Uninhibit(t)
     IN  Unlock(s) /\ hist' = Observed(s)

Cleared(s) ==
  [CancelTimeout(CancelPending(s)) EXCEPT !.latched = FALSE,
                                          !.retAccumulated = 0,
                                          !.retStartedAt = NoTime,
                                          !.rawInput = FALSE,
                                          !.state = Inactive]

\* Broken form: clear() notifies nobody.
ClearSilently ==
  /\ MayEnter
  /\ sm' = Cleared(sm)
  /\ hist' = [Observed(Cleared(sm)) EXCEPT !.held = 0, !.quiet = hist.quiet]
  /\ UNCHANGED <<notices, balance, heard>>
Clear ==
  /\ MayEnter
  /\ Unlock(Cleared(sm))
  /\ hist' = [Observed(Cleared(sm)) EXCEPT !.held = 0, !.quiet = hist.quiet]

\* The runtime starts the callback of a due timer; it now waits for sm.mu.
Launch(i) ==
  /\ Due(i)
  /\ Concurrent \/ Quiescent
  /\ sm' = [sm EXCEPT !.clock[i].phase = "launched"]
  /\ UNCHANGED <<notices, balance, heard, hist>>

\* The callback on timer i gets the lock, and i is no longer alive.
Ran(i) == [sm EXCEPT !.clock[i] = Idle]
Enter(i, f) ==
  /\ sm.clock[i].phase = "launched"
  /\ sm.clock[i].fn = f
  /\ FreeIds(Ran(i)) # {}

\* Broken form: a late callback does not check the state.
ActivateUnchecked(s) == BecomeActive([s EXCEPT !.pendingTimer = NoTimer])
ActivateFired(s) ==
  IF s.state = PendingActivation
    THEN BecomeActive([s EXCEPT !.pendingTimer = NoTimer]) ELSE s

OnActivateTimer(i) ==
  /\ Enter(i, "onActivateTimer")
  /\ LET s == ActivateFired(Ran(i)) IN Unlock(s) /\ hist' = Observed(s)

DeactivateFired(s) ==
  IF s.state = PendingDeactivation
    THEN BecomeInactive([s EXCEPT !.pendingTimer = NoTimer]) ELSE s

OnDeactivateTimer(i) ==
  /\ Enter(i, "onDeactivateTimer")
  /\ LET s == DeactivateFired(Ran(i)) IN Unlock(s) /\ hist' = Observed(s)

TimeoutFired(s) ==
  IF s.state = Active
    THEN [BecomeInactive([s EXCEPT !.timeoutTimer = NoTimer])
            EXCEPT !.rawInput = FALSE]
    ELSE s

OnTimeoutTimer(i) ==
  /\ Enter(i, "onTimeoutTimer")
  /\ LET s == TimeoutFired(Ran(i)) IN Unlock(s) /\ hist' = Observed(s)

\* Broken form: an input held back by cooldown is not taken up.
CooldownForgetsInput(s) ==
  [s EXCEPT !.cooldownTimer = NoTimer, !.cooldownUntil = 0]
CooldownFired(s) ==
  Uninhibit([s EXCEPT !.cooldownTimer = NoTimer, !.cooldownUntil = 0])

OnCooldownTimer(i) ==
  /\ Enter(i, "onCooldownTimer")
  /\ LET s == CooldownFired(Ran(i)) IN Unlock(s) /\ hist' = Observed(s)

\* A NotifyAll reaches the watchers: HookDispatcher.OnChange runs on_activate
\* or on_deactivate.
Notify(h) ==
  /\ notices[h] > 0
  /\ notices' = [notices EXCEPT ![h] = @ - 1]
  /\ balance' = IF h = "on_activate" THEN balance + 1 ELSE balance - 1
  /\ heard' = (h = "on_activate")
  /\ UNCHANGED <<sm, hist>>

\* Time passes.  No timer is left due: the runtime launches it first.
Tick ==
  /\ MayEnter
  /\ \A i \in TimerIds : ~Due(i)
  /\ sm' = [sm EXCEPT
       !.clock = [i \in TimerIds |->
                    IF sm.clock[i].phase = "armed"
                      THEN [sm.clock[i] EXCEPT !.left = @ - 1]
                      ELSE sm.clock[i]],
       !.cooldownUntil = IF @ = 0 THEN 0 ELSE @ - 1,
       !.retStartedAt = IF @ \in {NoTime, ActivateAfter} THEN @ ELSE @ + 1]
  /\ hist' = [held  |-> IF sm.rawInput /\ ~sm.inhibited /\ ~Output(sm)
                          THEN Aged(hist.held, ActivateAfter) ELSE hist.held,
              quiet |-> Aged(hist.quiet, Cooldown),
              lit   |-> Aged(hist.lit, Timeout),
              low   |-> Aged(hist.low, DeactivateAfter)]
  /\ UNCHANGED <<notices, balance, heard>>

-----------------------------------------------------------------------------
NewStateMachine ==
  [state |-> Inactive, rawInput |-> FALSE, latched |-> FALSE,
   inhibited |-> FALSE, cooldownUntil |-> 0,
   pendingTimer |-> NoTimer, timeoutTimer |-> NoTimer,
   cooldownTimer |-> NoTimer, retAccumulated |-> 0, retStartedAt |-> NoTime,
   clock |-> [i \in TimerIds |-> Idle]]

\* Runs once, from the subtype's Start, before any input.
Bootstrap(s) ==
  IF StartActive
    THEN RestartTimeout([s EXCEPT !.state = Active, !.rawInput = TRUE,
                                  !.latched = Latch])
    ELSE s

Init ==
  /\ sm = Bootstrap(NewStateMachine)
  /\ notices = [h \in Hook |-> 0]
  /\ balance = 0
  /\ heard = (Output(sm) # Invert)
  /\ hist = [held |-> 0, quiet |-> Cooldown + 1, lit |-> 0, low |-> 0]

RunCallback(i) == \/ OnActivateTimer(i) \/ OnDeactivateTimer(i)
                  \/ OnTimeoutTimer(i)  \/ OnCooldownTimer(i)

Next ==
  \/ \E value \in BOOLEAN : SetRawInput(value) \/ SetInhibited(value)
  \/ Clear
  \/ \E i \in TimerIds : Launch(i) \/ RunCallback(i)
  \/ \E h \in Hook : Notify(h)
  \/ Tick

Spec == Init /\ [][Next]_vars

\* The runtime keeps time, starts the callbacks of due timers, schedules the
\* goroutines that wait for sm.mu and lets notifications run.  Nobody owes the
\* machine an input, an inhibit change or a Clear.
Fairness ==
  /\ WF_vars(Tick)
  /\ \A i \in TimerIds : WF_vars(Launch(i)) /\ WF_vars(RunCallback(i))
  /\ \A h \in Hook : WF_vars(Notify(h))

FairSpec == Spec /\ Fairness

-----------------------------------------------------------------------------
(* What holds for the production clock and any number of goroutines.       *)

\* Every variable keeps its type: in particular no timer is ever armed for a
\* negative time, and the retentive accumulator is never resumed past its end.
TypeOK ==
  /\ sm \in StateMachine
  /\ notices \in [Hook -> Nat]
  /\ balance \in Int
  /\ heard \in BOOLEAN
  /\ hist \in History

\* While a latch holds, no timer that could end the active period exists, the
\* machine is active exactly when latched, and pending_deactivation is never
\* entered - late callbacks included (becomeActiveLocked, restartTimeoutLocked).
LatchSafe ==
  /\ sm.latched => sm.state = Active
  /\ Latch => /\ sm.state = Active => sm.latched
              /\ sm.state # PendingDeactivation
              /\ Outstanding(sm, "onTimeoutTimer") = {}
              /\ Outstanding(sm, "onDeactivateTimer") = {}

\* A latched output falls in a Clear and in no other step.
OnlyClearUnlatches == [][sm.latched /\ ~Output(sm') => Clear]_vars

\* While inhibited the output never rises, whatever callback was already
\* waiting for the lock when inhibit was asserted, and no activation is pending.
InhibitBlocks ==
  [][sm.inhibited /\ sm'.inhibited => /\ sm'.state # PendingActivation
                                      /\ Output(sm') => Output(sm)]_vars

\* The machine never waits for a timer that is not coming: whatever it defers,
\* a callback that will take the decision up again is armed or launched.  The
\* cases: an input held back by cooldown, a delayed activation, a delayed
\* deactivation.
NoLostWakeup ==
  /\ sm.state = Inactive /\ sm.rawInput /\ ~sm.inhibited
       => Outstanding(sm, "onCooldownTimer") # {}
  /\ sm.state = PendingActivation /\ sm.rawInput
       => Outstanding(sm, "onActivateTimer") # {}
  /\ sm.state = PendingDeactivation
       => Outstanding(sm, "onDeactivateTimer") # {}

\* State and tracked input agree, so that the "value unchanged" early return
\* of SetRawInput never swallows an edge the state still needs: an unlatched
\* active machine has its input asserted and can see it fall, a pending one has
\* the input it is pending on.  Retentive machines pause with the input false.
InputAgrees ==
  /\ sm.state = PendingDeactivation => ~sm.rawInput
  /\ ~Retentive /\ sm.state = PendingActivation => sm.rawInput
  /\ ~Retentive /\ sm.state = Active /\ ~sm.latched => sm.rawInput

\* The on_activate and on_deactivate hooks never drift: those that have run
\* and those on their way add up to the change of output since boot, so every
\* output transition runs one hook, and no other step does.
One(b) == IF b THEN 1 ELSE 0
HooksBalance ==
  One(Output(sm) # Invert) - One(StartActive # Invert)
    = balance + notices["on_activate"] - notices["on_deactivate"]

\* An input that stays asserted, uninhibited and not cleared, activates; an
\* input that stays low deactivates an unlatched machine.  Both through any
\* delay and cooldown.
EventuallyActive ==
  <>[][~(\E v \in BOOLEAN : SetRawInput(v) \/ SetInhibited(v)) /\ ~Clear]_vars
    => <>[](\/ Output(sm) <=> (sm.rawInput \/ sm.latched)
            \/ sm.inhibited
            \/ sm.state = PendingActivation /\ ~sm.rawInput)

-----------------------------------------------------------------------------
(* What the documentation says of the delays.                              *)

Rises == ~Output(sm) /\ Output(sm')

\* activate_after: "Wait this long after the input asserts before activating."
ActivationDelayed == [][Rises => hist.held >= ActivateAfter]_vars

\* cooldown: "After deactivating, the condition cannot re-activate until this
\* has elapsed, even if the input immediately re-asserts."
CooldownObserved == [][Rises => hist.quiet >= Cooldown]_vars

\* timeout: "Auto-deactivate after this long active", counted from activation
\* or the last re-assertion: neither earlier nor later.
TimeoutExact ==
  [][/\ sm.state = Active /\ ~sm.latched /\ Timeout > 0 => hist.lit <= Timeout
     /\ (\E i \in TimerIds : OnTimeoutTimer(i)) /\ sm' # sm /\ ~Output(sm') /\ Output(sm)
          => hist.lit = Timeout]_vars

\* deactivate_after: "Hold the output active this long after it would otherwise
\* deactivate": neither shorter nor longer.
HoldExact ==
  [][sm.state = PendingDeactivation
       => /\ hist.low <= DeactivateAfter
          /\ sm'.state = Inactive /\ ~Clear => hist.low = DeactivateAfter]_vars

\* A quiet machine's watchers have last heard the value get() returns.
WatchersAgree == Quiescent => heard = (Output(sm) # Invert)
=============================================================================
