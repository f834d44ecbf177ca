-------------------------- MODULE ConditionProofs --------------------------
(***************************************************************************)
(* Proofs about the machine of a condition and the timer condition in      *)
(* front of it, for every Behavior, every number of timers, notifications, *)
(* calling goroutines and debounce timers, and both kinds of clock.        *)
(*                                                                         *)
(* The machine: Core is what every Locked helper keeps, also in the middle *)
(* of a critical section; Sound is what holds whenever sm.mu is free.  The *)
(* helpers get one lemma each, saying which fields they leave alone, which *)
(* timers they may touch and that they keep Core; each action then follows *)
(* from the lemmas of the helpers it calls.                                *)
(*                                                                         *)
(* The timer condition refines its machine: whatever its calls, debounce   *)
(* callbacks and reactive input do between the two locks, the machine      *)
(* underneath takes only steps of its own specification, so everything     *)
(* proved of it holds there.  What the condition adds is about input: a    *)
(* waiting edge has a debounce timer, a call that nothing overlaps is what *)
(* the machine ends up with, and an input expression is tracked.           *)
(***************************************************************************)
EXTENDS TimerCondition, TLAPS


\* A handle names a timer of the kind it is for, or one that has run.
HandleKinds(s) ==
  /\ s.timeoutTimer # NoTimer
       => s.clock[s.timeoutTimer].fn \in {"none", "onTimeoutTimer"}
  /\ s.cooldownTimer # NoTimer
       => s.clock[s.cooldownTimer].fn \in {"none", "onCooldownTimer"}
  /\ s.pendingTimer # NoTimer
       => s.clock[s.pendingTimer].fn
            \in {"none", "onActivateTimer", "onDeactivateTimer"}

\* What holds also in the middle of a critical section.
Core(s) ==
  /\ s \in StateMachine
  /\ HandleKinds(s)
  /\ s.latched => Latch
  /\ Latch => /\ Outstanding(s, "onTimeoutTimer") = {}
              /\ Outstanding(s, "onDeactivateTimer") = {}
  /\ s.cooldownUntil > 0 => Outstanding(s, "onCooldownTimer") # {}

\* What holds whenever the lock is free: Core, and what each state waits for.
Sound(s) ==
  /\ Core(s)
  /\ Latch => s.state # PendingDeactivation /\ (s.latched <=> s.state = Active)
  /\ s.inhibited => s.state # PendingActivation
  /\ s.state = Inactive /\ s.rawInput /\ ~s.inhibited
       => Outstanding(s, "onCooldownTimer") # {}
  /\ s.state = PendingActivation
       => IF s.rawInput THEN Outstanding(s, "onActivateTimer") # {}
                        ELSE Retentive /\ s.pendingTimer = NoTimer
  /\ s.state = PendingDeactivation
       => ~s.rawInput /\ Outstanding(s, "onDeactivateTimer") # {}
  /\ ~Retentive /\ s.state = Active /\ ~s.latched => s.rawInput

\* The inductive invariant.
IndInv == TypeOK /\ Sound(sm)

-----------------------------------------------------------------------------
USE DurationAssumption, FlagAssumption, TimerAssumption

\* A new timer is one nobody owns.
LEMMA NewTimerIsFree ==
  ASSUME NEW s, FreeIds(s) # {}
  PROVE  NewTimer(s) \in FreeIds(s)
BY DEF NewTimer

\* The fields a timer operation leaves alone.
SameButTimers(s, r) ==
  /\ r.state = s.state /\ r.rawInput = s.rawInput /\ r.latched = s.latched
  /\ r.inhibited = s.inhibited /\ r.cooldownUntil = s.cooldownUntil
  /\ r.retAccumulated = s.retAccumulated /\ r.retStartedAt = s.retStartedAt

\* Stop, on any handle, leaves a well-typed clock with fewer timers in it.
LEMMA StopType ==
  ASSUME NEW s \in StateMachine, NEW h
  PROVE  /\ Stopped(s, h) \in [TimerIds -> Timer]
         /\ \A i \in TimerIds : Stopped(s, h)[i] \in {s.clock[i], Idle}
         /\ \A i \in TimerIds : i # h => Stopped(s, h)[i] = s.clock[i]
BY DEF StateMachine, Stopped, Timer, Idle

\* AfterFunc changes the new timer only.
LEMMA AfterFuncType ==
  ASSUME NEW s \in StateMachine, NEW d \in Nat, NEW f \in Callback,
         FreeIds(s) # {}
  PROVE  /\ NewTimer(s) \in TimerIds /\ NewTimer(s) # NoTimer
         /\ NewTimer(s) \notin Handles(s)
         /\ s.clock[NewTimer(s)] = Idle
         /\ AfterFunc(s, d, f) \in [TimerIds -> Timer]
         /\ AfterFunc(s, d, f)[NewTimer(s)].fn = f
         /\ \A i \in TimerIds \ {NewTimer(s)} : AfterFunc(s, d, f)[i] = s.clock[i]
<1>1. NewTimer(s) \in FreeIds(s)
  BY NewTimerIsFree
<1>2. /\ NewTimer(s) \in TimerIds /\ NewTimer(s) # NoTimer
      /\ NewTimer(s) \notin Handles(s) /\ s.clock[NewTimer(s)] = Idle
  BY <1>1 DEF FreeIds
<1>3. [fn |-> f, phase |-> "armed", left |-> d] \in Timer
  BY DEF Timer
<1> QED
  BY <1>2, <1>3 DEF AfterFunc, StateMachine

\* cancelTimeoutLocked drops the timeout handle, stops at most a timeout timer
\* and touches nothing else.
LEMMA CancelTimeoutCore ==
  ASSUME NEW s, Core(s)
  PROVE  LET r == CancelTimeout(s)
         IN  /\ Core(r) /\ SameButTimers(s, r)
             /\ r.timeoutTimer = NoTimer
             /\ r.pendingTimer = s.pendingTimer
             /\ r.cooldownTimer = s.cooldownTimer
             /\ \A f \in Callback \ {"onTimeoutTimer"} :
                  Outstanding(r, f) = Outstanding(s, f)
             /\ FreeIds(s) \subseteq FreeIds(r)
<1> DEFINE r == CancelTimeout(s)
<1>0. s \in StateMachine /\ Stopped(s, s.timeoutTimer) \in [TimerIds -> Timer]
  BY StopType DEF Core
<1>1. /\ r \in StateMachine /\ SameButTimers(s, r)
      /\ r.timeoutTimer = NoTimer /\ r.pendingTimer = s.pendingTimer
      /\ r.cooldownTimer = s.cooldownTimer
      /\ r.clock = Stopped(s, s.timeoutTimer)
  BY <1>0 DEF CancelTimeout, StateMachine, SameButTimers
<1>2. /\ \A i \in TimerIds : r.clock[i] \in {s.clock[i], Idle}
      /\ \A i \in TimerIds : i # s.timeoutTimer => r.clock[i] = s.clock[i]
  BY <1>0, <1>1, StopType
<1>3. \A f \in Callback \ {"onTimeoutTimer"} : Outstanding(r, f) = Outstanding(s, f)
  <2>1. s.timeoutTimer # NoTimer
          => s.clock[s.timeoutTimer].fn \in {"none", "onTimeoutTimer"}
    BY DEF Core, HandleKinds
  <2>2. \A i \in TimerIds : r.clock[i] # s.clock[i]
          => r.clock[i].fn = "none" /\ s.clock[i].fn \in {"none", "onTimeoutTimer"}
    BY <1>2, <2>1 DEF Idle
  <2> QED BY <2>2 DEF Outstanding, Callback
<1>4. HandleKinds(r)
  BY <1>0, <1>1, <1>2 DEF Core, HandleKinds, Idle, StateMachine
<1>5. Latch => /\ Outstanding(r, "onTimeoutTimer") = {}
               /\ Outstanding(r, "onDeactivateTimer") = {}
  BY <1>2, <1>3 DEF Core, Outstanding, Idle, Callback
<1>6. Core(r)
  BY <1>1, <1>3, <1>4, <1>5 DEF Core, SameButTimers, Callback
<1>7. FreeIds(s) \subseteq FreeIds(r)
  BY <1>1, <1>2 DEF FreeIds, Handles
<1> QED BY <1>1, <1>3, <1>6, <1>7

\* cancelPendingLocked drops the pending handle, stops at most an activation or
\* deactivation timer and touches nothing else.
LEMMA CancelPendingCore ==
  ASSUME NEW s, Core(s)
  PROVE  LET r == CancelPending(s)
         IN  /\ Core(r) /\ SameButTimers(s, r)
             /\ r.pendingTimer = NoTimer
             /\ r.timeoutTimer = s.timeoutTimer
             /\ r.cooldownTimer = s.cooldownTimer
             /\ \A f \in {"onTimeoutTimer", "onCooldownTimer"} :
                  Outstanding(r, f) = Outstanding(s, f)
             /\ FreeIds(s) \subseteq FreeIds(r)
<1> DEFINE r == CancelPending(s)
<1>0. s \in StateMachine /\ Stopped(s, s.pendingTimer) \in [TimerIds -> Timer]
  BY StopType DEF Core
<1>1. /\ r \in StateMachine /\ SameButTimers(s, r)
      /\ r.pendingTimer = NoTimer /\ r.timeoutTimer = s.timeoutTimer
      /\ r.cooldownTimer = s.cooldownTimer
      /\ r.clock = Stopped(s, s.pendingTimer)
  BY <1>0 DEF CancelPending, StateMachine, SameButTimers
<1>2. /\ \A i \in TimerIds : r.clock[i] \in {s.clock[i], Idle}
      /\ \A i \in TimerIds : i # s.pendingTimer => r.clock[i] = s.clock[i]
  BY <1>0, <1>1, StopType
<1>3. \A f \in {"onTimeoutTimer", "onCooldownTimer"} :
        Outstanding(r, f) = Outstanding(s, f)
  <2>1. s.pendingTimer # NoTimer
          => s.clock[s.pendingTimer].fn
               \in {"none", "onActivateTimer", "onDeactivateTimer"}
    BY DEF Core, HandleKinds
  <2>2. \A i \in TimerIds : r.clock[i] # s.clock[i]
          => /\ r.clock[i].fn = "none"
             /\ s.clock[i].fn \in {"none", "onActivateTimer", "onDeactivateTimer"}
    BY <1>2, <2>1 DEF Idle
  <2> QED BY <2>2 DEF Outstanding
<1>4. HandleKinds(r)
  BY <1>0, <1>1, <1>2 DEF Core, HandleKinds, Idle, StateMachine
<1>5. Latch => /\ Outstanding(r, "onTimeoutTimer") = {}
               /\ Outstanding(r, "onDeactivateTimer") = {}
  BY <1>2, <1>3 DEF Core, Outstanding, Idle
<1>6. Core(r)
  BY <1>1, <1>3, <1>4, <1>5 DEF Core, SameButTimers
<1>7. FreeIds(s) \subseteq FreeIds(r)
  BY <1>1, <1>2 DEF FreeIds, Handles
<1> QED BY <1>1, <1>3, <1>6, <1>7

\* restartTimeoutLocked keeps Core: under a latch it arms nothing.
LEMMA RestartTimeoutCore ==
  ASSUME NEW s, Core(s), FreeIds(s) # {}, Latch => s.latched
  PROVE  LET r == RestartTimeout(s)
         IN  /\ Core(r) /\ SameButTimers(s, r)
             /\ r.pendingTimer = s.pendingTimer
             /\ \A f \in Callback \ {"onTimeoutTimer"} :
                  Outstanding(r, f) = Outstanding(s, f)
<1> DEFINE c == CancelTimeout(s)
           r == RestartTimeout(s)
<1>1. /\ Core(c) /\ SameButTimers(s, c) /\ c.pendingTimer = s.pendingTimer
      /\ c.timeoutTimer = NoTimer /\ c.cooldownTimer = s.cooldownTimer
      /\ \A f \in Callback \ {"onTimeoutTimer"} : Outstanding(c, f) = Outstanding(s, f)
      /\ FreeIds(c) # {}
  BY CancelTimeoutCore
<1>2. CASE s.latched \/ Timeout = 0
  BY <1>1, <1>2 DEF RestartTimeout
<1>3. CASE ~(s.latched \/ Timeout = 0)
  <2> DEFINE n == NewTimer(c)
  <2>0. c \in StateMachine /\ "onTimeoutTimer" \in Callback
    BY <1>1 DEF Core, Callback
  <2>1. /\ n \in TimerIds /\ n # NoTimer /\ n \notin Handles(c) /\ c.clock[n] = Idle
        /\ AfterFunc(c, Timeout, "onTimeoutTimer") \in [TimerIds -> Timer]
        /\ AfterFunc(c, Timeout, "onTimeoutTimer")[n].fn = "onTimeoutTimer"
        /\ \A i \in TimerIds \ {n} :
             AfterFunc(c, Timeout, "onTimeoutTimer")[i] = c.clock[i]
    BY <1>1, <2>0, AfterFuncType
  <2>2. r = [c EXCEPT !.clock = AfterFunc(c, Timeout, "onTimeoutTimer"),
                      !.timeoutTimer = n]
    BY <1>3 DEF RestartTimeout
  <2>3. /\ r \in StateMachine /\ SameButTimers(c, r)
        /\ r.pendingTimer = c.pendingTimer /\ r.cooldownTimer = c.cooldownTimer
        /\ r.timeoutTimer = n
        /\ r.clock = AfterFunc(c, Timeout, "onTimeoutTimer")
    <3> HIDE DEF n, c, r
    <3> QED BY <2>0, <2>1, <2>2 DEF StateMachine, SameButTimers
  <2>4. \A f \in Callback \ {"onTimeoutTimer"} : Outstanding(r, f) = Outstanding(c, f)
    <3> HIDE DEF n, c, r
    <3> QED BY <2>1, <2>3 DEF Outstanding, Idle, Callback
  <2>5. HandleKinds(r)
    <3> HIDE DEF n, c, r
    <3> QED BY <1>1, <2>1, <2>3 DEF Core, HandleKinds, Handles, StateMachine
  <2>6. ~Latch
    BY <1>3
  <2>7. Core(r)
    <3> HIDE DEF n, c, r
    <3> QED BY <1>1, <2>3, <2>4, <2>5, <2>6 DEF Core, SameButTimers, Callback
  <2>8. SameButTimers(s, r) /\ r.pendingTimer = s.pendingTimer
    <3> HIDE DEF n, c, r
    <3> QED BY <1>1, <2>3 DEF SameButTimers
  <2> QED BY <1>1, <2>4, <2>7, <2>8
<1> QED BY <1>2, <1>3

\* Core does not depend on the fields the actions assign themselves, and
\* survives a handle being dropped.
LEMMA CoreFields ==
  ASSUME NEW s, Core(s), NEW r \in StateMachine, r.latched => Latch,
         r.clock = s.clock, r.timeoutTimer \in {s.timeoutTimer, NoTimer},
         r.pendingTimer \in {s.pendingTimer, NoTimer},
         r.cooldownTimer = s.cooldownTimer, r.cooldownUntil = s.cooldownUntil
  PROVE  /\ Core(r) /\ FreeIds(s) \subseteq FreeIds(r)
         /\ \A f \in Callback : Outstanding(r, f) = Outstanding(s, f)
<1>1. FreeIds(s) \subseteq FreeIds(r)
  BY DEF FreeIds, Handles
<1> QED BY <1>1 DEF Core, HandleKinds, Outstanding

\* becomeActiveLocked latches exactly when so configured, and resets the
\* retentive accumulator.
LEMMA BecomeActiveCore ==
  ASSUME NEW s, Core(s), FreeIds(s) # {}
  PROVE  LET r == BecomeActive(s)
         IN  /\ Core(r) /\ r.state = Active /\ r.latched = Latch
             /\ r.rawInput = s.rawInput /\ r.inhibited = s.inhibited
             /\ r.retAccumulated = 0 /\ r.retStartedAt = NoTime
             /\ r.pendingTimer = s.pendingTimer
<1> DEFINE q == [s EXCEPT !.state = Active, !.retAccumulated = 0,
                          !.retStartedAt = NoTime, !.latched = @ \/ Latch]
<1>1. s \in StateMachine /\ (s.latched => Latch)
  BY DEF Core
<1>2. (s.latched \/ Latch) = Latch /\ s.latched \in BOOLEAN
  BY <1>1 DEF StateMachine
<1>3. /\ q \in StateMachine /\ q.state = Active /\ q.retAccumulated = 0
      /\ q.retStartedAt = NoTime /\ q.latched = Latch
      /\ q.rawInput = s.rawInput /\ q.inhibited = s.inhibited
      /\ q.clock = s.clock /\ q.timeoutTimer = s.timeoutTimer
      /\ q.pendingTimer = s.pendingTimer /\ q.cooldownTimer = s.cooldownTimer
      /\ q.cooldownUntil = s.cooldownUntil
  BY <1>1, <1>2 DEF StateMachine, State, NoTime
<1>5. BecomeActive(s) = RestartTimeout(q)
  BY DEF BecomeActive
<1> HIDE DEF q
<1>4. Core(q) /\ FreeIds(q) # {}
  BY <1>3, CoreFields
<1>6. /\ Core(RestartTimeout(q)) /\ SameButTimers(q, RestartTimeout(q))
      /\ RestartTimeout(q).pendingTimer = q.pendingTimer
  BY <1>3, <1>4, RestartTimeoutCore
<1> QED BY <1>3, <1>5, <1>6 DEF SameButTimers

\* The cooldown window becomeInactiveLocked opens has a callback that ends it.
LEMMA StartCooldownCore ==
  ASSUME NEW s, Core(s), FreeIds(s) # {}
  PROVE  LET r == StartCooldown(s)
         IN  /\ Core(r) /\ r.state = s.state /\ r.latched = s.latched
             /\ r.rawInput = s.rawInput /\ r.inhibited = s.inhibited
             /\ r.pendingTimer = s.pendingTimer
<1> DEFINE c == [s EXCEPT !.clock = Stopped(s, s.cooldownTimer)]
           r == StartCooldown(s)
<1>1. CASE Cooldown = 0
  BY <1>1 DEF StartCooldown
<1>2. CASE Cooldown # 0
  <2>1. s \in StateMachine /\ Stopped(s, s.cooldownTimer) \in [TimerIds -> Timer]
    BY StopType DEF Core
  <2>2. /\ c \in StateMachine /\ SameButTimers(s, c)
        /\ c.timeoutTimer = s.timeoutTimer /\ c.pendingTimer = s.pendingTimer
        /\ c.cooldownTimer = s.cooldownTimer
        /\ c.clock = Stopped(s, s.cooldownTimer)
    BY <2>1 DEF StateMachine, SameButTimers
  <2>3. /\ \A i \in TimerIds : c.clock[i] \in {s.clock[i], Idle}
        /\ \A i \in TimerIds : i # s.cooldownTimer => c.clock[i] = s.clock[i]
    BY <2>1, <2>2, StopType
  <2>4. FreeIds(c) # {}
    BY <2>2, <2>3 DEF FreeIds, Handles
  <2> DEFINE n == NewTimer(c)
             k == AfterFunc(c, Cooldown, "onCooldownTimer")
  <2>5. "onCooldownTimer" \in Callback
    BY DEF Callback
  <2>6. /\ n \in TimerIds /\ n # NoTimer /\ n \notin Handles(c) /\ c.clock[n] = Idle
        /\ k \in [TimerIds -> Timer] /\ k[n].fn = "onCooldownTimer"
        /\ \A i \in TimerIds \ {n} : k[i] = c.clock[i]
    <3> HIDE DEF c
    <3> QED BY <2>2, <2>4, <2>5, AfterFuncType
  <2>7. r = [c EXCEPT !.cooldownUntil = Cooldown, !.clock = k, !.cooldownTimer = n]
    BY <1>2 DEF StartCooldown
  <2> HIDE DEF n, k, c, r
  <2>8. /\ r \in StateMachine /\ r.state = s.state /\ r.latched = s.latched
        /\ r.rawInput = s.rawInput /\ r.inhibited = s.inhibited
        /\ r.pendingTimer = s.pendingTimer /\ r.timeoutTimer = s.timeoutTimer
        /\ r.cooldownTimer = n /\ r.clock = k
    BY <2>2, <2>6, <2>7 DEF StateMachine, SameButTimers
  <2>9. HandleKinds(r)
    BY <2>2, <2>3, <2>6, <2>8
       DEF Core, HandleKinds, Handles, StateMachine, Idle
  <2>10. Latch => /\ Outstanding(r, "onTimeoutTimer") = {}
                  /\ Outstanding(r, "onDeactivateTimer") = {}
    <3>1. \A i \in TimerIds : r.clock[i].fn
            \in {s.clock[i].fn, "none", "onCooldownTimer"}
      BY <2>3, <2>6, <2>8 DEF Idle
    <3> QED BY <3>1 DEF Core, Outstanding
  <2>11. Outstanding(r, "onCooldownTimer") # {}
    BY <2>6, <2>8 DEF Outstanding
  <2>12. Core(r)
    BY <2>8, <2>9, <2>10, <2>11 DEF Core
  <2> USE DEF r
  <2> QED BY <2>8, <2>12
<1> QED BY <1>1, <1>2

\* becomeInactiveLocked leaves an inactive machine that is still Core.
LEMMA BecomeInactiveCore ==
  ASSUME NEW s, Core(s), FreeIds(s) # {}
  PROVE  LET r == BecomeInactive(s)
         IN  /\ Core(r) /\ r.state = Inactive /\ r.latched = s.latched
             /\ r.rawInput = s.rawInput /\ r.inhibited = s.inhibited
             /\ r.pendingTimer = s.pendingTimer
<1> DEFINE q == [s EXCEPT !.state = Inactive]
           c == CancelTimeout(q)
<1>1. /\ q \in StateMachine /\ q.state = Inactive /\ q.latched = s.latched
      /\ q.rawInput = s.rawInput /\ q.inhibited = s.inhibited
      /\ q.clock = s.clock /\ q.timeoutTimer = s.timeoutTimer
      /\ q.pendingTimer = s.pendingTimer /\ q.cooldownTimer = s.cooldownTimer
      /\ q.cooldownUntil = s.cooldownUntil
  BY DEF Core, StateMachine, State
<1>2. Core(q) /\ FreeIds(q) # {}
  BY <1>1, CoreFields DEF Core
<1>3. BecomeInactive(s) = StartCooldown(c)
  BY DEF BecomeInactive
<1> HIDE DEF q
<1>4. /\ Core(c) /\ SameButTimers(q, c) /\ c.pendingTimer = q.pendingTimer
      /\ FreeIds(c) # {}
  BY <1>2, CancelTimeoutCore
<1> HIDE DEF c
<1>5. LET r == StartCooldown(c)
      IN  /\ Core(r) /\ r.state = c.state /\ r.latched = c.latched
          /\ r.rawInput = c.rawInput /\ r.inhibited = c.inhibited
          /\ r.pendingTimer = c.pendingTimer
  BY <1>4, StartCooldownCore
<1> QED BY <1>1, <1>3, <1>4, <1>5 DEF SameButTimers

\* ArmActivation and ArmDeactivation leave the machine waiting for a timer
\* that exists.
LEMMA ArmActivationCore ==
  ASSUME NEW s, Core(s), FreeIds(s) # {}, s.retAccumulated < ActivateAfter
  PROVE  LET r == ArmActivation(s)
         IN  /\ Core(r) /\ r.state = PendingActivation
             /\ r.latched = s.latched /\ r.rawInput = s.rawInput
             /\ r.inhibited = s.inhibited
             /\ Outstanding(r, "onActivateTimer") # {}
<1> DEFINE n == NewTimer(s)
           k == AfterFunc(s, ActivateAfter - s.retAccumulated, "onActivateTimer")
           r == ArmActivation(s)
<1>1. /\ s \in StateMachine /\ "onActivateTimer" \in Callback
      /\ ActivateAfter - s.retAccumulated \in Nat
  BY DEF Core, Callback, StateMachine
<1>2. /\ n \in TimerIds /\ n # NoTimer /\ n \notin Handles(s) /\ s.clock[n] = Idle
      /\ k \in [TimerIds -> Timer] /\ k[n].fn = "onActivateTimer"
      /\ \A i \in TimerIds \ {n} : k[i] = s.clock[i]
  BY <1>1, AfterFuncType
<1>3. r = [s EXCEPT !.state = PendingActivation, !.retStartedAt = 0, !.clock = k,
                    !.pendingTimer = n]
  BY DEF ArmActivation
<1> HIDE DEF n, k, r
<1>4. /\ r \in StateMachine /\ r.state = PendingActivation
      /\ r.latched = s.latched /\ r.rawInput = s.rawInput
      /\ r.inhibited = s.inhibited /\ r.cooldownUntil = s.cooldownUntil
      /\ r.pendingTimer = n /\ r.timeoutTimer = s.timeoutTimer
      /\ r.cooldownTimer = s.cooldownTimer /\ r.clock = k
  BY <1>1, <1>2, <1>3 DEF StateMachine, State
<1>5. HandleKinds(r)
  BY <1>1, <1>2, <1>4 DEF Core, HandleKinds, Handles, StateMachine
<1>6. \A f \in Callback \ {"onActivateTimer"} : Outstanding(r, f) = Outstanding(s, f)
  BY <1>2, <1>4 DEF Outstanding, Idle, Callback
<1>7. Outstanding(r, "onActivateTimer") # {}
  BY <1>2, <1>4 DEF Outstanding
<1>8. Core(r)
  BY <1>4, <1>5, <1>6 DEF Core, Callback
<1> USE DEF r
<1> QED BY <1>4, <1>7, <1>8

\* Likewise for deactivate_after, which a latched machine never reaches.
LEMMA ArmDeactivationCore ==
  ASSUME NEW s, Core(s), FreeIds(s) # {}, ~Latch
  PROVE  LET r == ArmDeactivation(s)
         IN  /\ Core(r) /\ r.state = PendingDeactivation
             /\ r.latched = s.latched /\ r.rawInput = s.rawInput
             /\ r.inhibited = s.inhibited
             /\ Outstanding(r, "onDeactivateTimer") # {}
<1> DEFINE n == NewTimer(s)
           k == AfterFunc(s, DeactivateAfter, "onDeactivateTimer")
           r == ArmDeactivation(s)
<1>1. s \in StateMachine /\ "onDeactivateTimer" \in Callback
  BY DEF Core, Callback, StateMachine
<1>2. /\ n \in TimerIds /\ n # NoTimer /\ n \notin Handles(s) /\ s.clock[n] = Idle
      /\ k \in [TimerIds -> Timer] /\ k[n].fn = "onDeactivateTimer"
      /\ \A i \in TimerIds \ {n} : k[i] = s.clock[i]
  BY <1>1, AfterFuncType
<1>3. r = [s EXCEPT !.state = PendingDeactivation, !.clock = k, !.pendingTimer = n]
  BY DEF ArmDeactivation
<1> HIDE DEF n, k, r
<1>4. /\ r \in StateMachine /\ r.state = PendingDeactivation
      /\ r.latched = s.latched /\ r.rawInput = s.rawInput
      /\ r.inhibited = s.inhibited /\ r.cooldownUntil = s.cooldownUntil
      /\ r.pendingTimer = n /\ r.timeoutTimer = s.timeoutTimer
      /\ r.cooldownTimer = s.cooldownTimer /\ r.clock = k
  BY <1>1, <1>2, <1>3 DEF StateMachine, State
<1>5. HandleKinds(r)
  BY <1>1, <1>2, <1>4 DEF Core, HandleKinds, Handles, StateMachine
<1>6. \A f \in Callback \ {"onDeactivateTimer"} : Outstanding(r, f) = Outstanding(s, f)
  BY <1>2, <1>4 DEF Outstanding, Idle, Callback
<1>7. Outstanding(r, "onDeactivateTimer") # {}
  BY <1>2, <1>4 DEF Outstanding
<1>8. Core(r)
  BY <1>4, <1>5, <1>6 DEF Core, Callback
<1> USE DEF r
<1> QED BY <1>4, <1>7, <1>8

-----------------------------------------------------------------------------
(* What the critical sections make of a sound machine.                     *)

\* tryActivateLocked, called with the input asserted, activates, arms the
\* activation timer, or leaves the decision to a cooldown callback or to the
\* end of inhibit.
LEMMA TryActivateSound ==
  ASSUME NEW s, Core(s), FreeIds(s) # {}, s.state = Inactive, ~s.latched,
         s.rawInput
  PROVE  Sound(TryActivate(s))
<1>0. s \in StateMachine
  BY DEF Core
<1>1. CASE CooldownActive(s) \/ s.inhibited
  <2>1. TryActivate(s) = s
    BY <1>1 DEF TryActivate
  <2> QED BY <1>0, <1>1, <2>1
     DEF Sound, Core, CooldownActive, Inactive, Active, PendingActivation,
         PendingDeactivation
<1>2. CASE ~(CooldownActive(s) \/ s.inhibited) /\ ActivateAfter <= s.retAccumulated
  <2>1. TryActivate(s) = BecomeActive(s)
    BY <1>2 DEF TryActivate
  <2> QED BY <1>0, <1>2, <2>1, BecomeActiveCore
     DEF Sound, Inactive, Active, PendingActivation, PendingDeactivation
<1>3. CASE ~(CooldownActive(s) \/ s.inhibited) /\ ~(ActivateAfter <= s.retAccumulated)
  <2>1. TryActivate(s) = ArmActivation(s) /\ s.retAccumulated < ActivateAfter
    BY <1>0, <1>3 DEF TryActivate, StateMachine
  <2> QED BY <1>0, <1>3, <2>1, ArmActivationCore
     DEF Sound, Inactive, Active, PendingActivation, PendingDeactivation
<1> QED BY <1>1, <1>2, <1>3

\* pauseRetentiveLocked leaves a machine that waits for its input, not for a
\* timer.
LEMMA PauseSound ==
  ASSUME NEW s, Core(s), s.state = PendingActivation, ~s.rawInput, Retentive,
         ~s.inhibited, ~s.latched
  PROVE  Sound(PauseRetentive(s))
<1> DEFINE c == CancelPending(s)
           r == PauseRetentive(s)
<1>1. /\ Core(c) /\ SameButTimers(s, c) /\ c.pendingTimer = NoTimer
  BY CancelPendingCore
<1>2. s \in StateMachine /\ c \in StateMachine
  BY <1>1 DEF Core
<1> DEFINE acc == IF s.retStartedAt = NoTime THEN c.retAccumulated
                    ELSE c.retAccumulated + s.retStartedAt
<1>3. r = [c EXCEPT !.retAccumulated = acc, !.retStartedAt = NoTime]
  BY DEF PauseRetentive
<1> HIDE DEF c, r
<1>7. acc \in Nat
  BY <1>2 DEF StateMachine, NoTime
<1> HIDE DEF acc
<1>4. /\ r \in StateMachine /\ r.state = c.state /\ r.latched = c.latched
      /\ r.rawInput = c.rawInput /\ r.inhibited = c.inhibited
      /\ r.clock = c.clock /\ r.timeoutTimer = c.timeoutTimer
      /\ r.pendingTimer = c.pendingTimer /\ r.cooldownTimer = c.cooldownTimer
      /\ r.cooldownUntil = c.cooldownUntil
  BY <1>2, <1>3, <1>7 DEF StateMachine
<1>5. Core(r)
  BY <1>1, <1>4, CoreFields DEF Core
<1>6. Sound(r)
  BY <1>1, <1>4, <1>5
     DEF Sound, SameButTimers, Inactive, Active, PendingActivation,
         PendingDeactivation
<1> USE DEF r
<1> QED BY <1>6

\* resumeRetentiveLocked activates or arms the timer for what is left.
LEMMA ResumeSound ==
  ASSUME NEW s, Core(s), FreeIds(s) # {}, s.state = PendingActivation,
         s.rawInput, ~s.inhibited, ~s.latched
  PROVE  Sound(ResumeRetentive(s))
<1>0. s \in StateMachine
  BY DEF Core
<1>1. CASE ActivateAfter <= s.retAccumulated
  BY <1>0, <1>1, BecomeActiveCore
     DEF ResumeRetentive, Sound, Inactive, Active, PendingActivation,
         PendingDeactivation
<1>2. CASE ~(ActivateAfter <= s.retAccumulated)
  <2>1. ResumeRetentive(s) = ArmActivation(s) /\ s.retAccumulated < ActivateAfter
    BY <1>0, <1>2 DEF ResumeRetentive, StateMachine
  <2> QED BY <1>0, <2>1, ArmActivationCore
     DEF Sound, Inactive, Active, PendingActivation, PendingDeactivation
<1> QED BY <1>1, <1>2

\* An input edge, whatever the state it meets.
LEMMA InputSound ==
  ASSUME NEW s, Sound(s), FreeIds(s) # {}, NEW value \in BOOLEAN,
         s.rawInput # value
  PROVE  Sound(OnInputChange([s EXCEPT !.rawInput = value], value))
<1> DEFINE q == [s EXCEPT !.rawInput = value]
<1> USE DEF Inactive, Active, PendingActivation, PendingDeactivation
<1>1. s \in StateMachine /\ s.rawInput \in BOOLEAN /\ Core(s)
  BY DEF Sound, Core, StateMachine
<1>2. /\ q \in StateMachine /\ q.state = s.state /\ q.latched = s.latched
      /\ q.inhibited = s.inhibited /\ q.clock = s.clock /\ q.rawInput = value
      /\ q.timeoutTimer = s.timeoutTimer /\ q.pendingTimer = s.pendingTimer
      /\ q.cooldownTimer = s.cooldownTimer /\ q.cooldownUntil = s.cooldownUntil
  BY <1>1 DEF StateMachine
<1>3. /\ Core(q) /\ FreeIds(q) # {}
      /\ \A f \in Callback : Outstanding(q, f) = Outstanding(s, f)
  BY <1>1, <1>2, CoreFields DEF Core
<1>4. /\ Latch => q.state # PendingDeactivation /\ (q.latched <=> q.state = Active)
      /\ q.latched => Latch
      /\ q.inhibited => q.state # PendingActivation
      /\ q.state = PendingActivation /\ q.rawInput => Retentive /\ q.pendingTimer = NoTimer
      /\ q.state = PendingDeactivation => q.rawInput
      /\ ~q.rawInput => s.rawInput
  BY <1>1, <1>2 DEF Sound, Core
<1>5. q.state \in State
  BY <1>2 DEF StateMachine
<1> SUFFICES Sound(OnInputChange(q, value))
  OBVIOUS
<1> HIDE DEF q
<1>6. CASE q.state = Inactive
  <2>1. CASE value
    <3>1. OnInputChange(q, value) = TryActivate(q)
      BY <1>6, <2>1 DEF OnInputChange, InputWhileInactive
    <3> QED BY <1>2, <1>3, <1>4, <1>6, <2>1, <3>1, TryActivateSound
  <2>2. CASE ~value
    <3>1. OnInputChange(q, value) = q
      BY <1>6, <2>2 DEF OnInputChange, InputWhileInactive
    <3> QED BY <1>2, <1>3, <1>4, <1>6, <2>2, <3>1 DEF Sound
  <2> QED BY <2>1, <2>2
<1>7. CASE q.state = PendingActivation
  <2>1. CASE value
    <3>1. OnInputChange(q, value) = ResumeRetentive(q)
      BY <1>2, <1>4, <1>7, <2>1 DEF OnInputChange, InputWhilePendingActivation
    <3> QED BY <1>2, <1>3, <1>4, <1>7, <2>1, <3>1, ResumeSound
  <2>2. CASE ~value /\ Retentive
    <3>1. OnInputChange(q, value) = PauseRetentive(q)
      BY <1>2, <1>7, <2>2 DEF OnInputChange, InputWhilePendingActivation
    <3> QED BY <1>2, <1>3, <1>4, <1>7, <2>2, <3>1, PauseSound
  <2>3. CASE ~value /\ ~Retentive
    <3> DEFINE c == CancelPending(q)
               r == [c EXCEPT !.state = Inactive]
    <3>1. OnInputChange(q, value) = r
      BY <1>2, <1>7, <2>3 DEF OnInputChange, InputWhilePendingActivation
    <3>2. Core(c) /\ SameButTimers(q, c)
      BY <1>3, CancelPendingCore
    <3> HIDE DEF c
    <3>3. /\ r \in StateMachine /\ r.state = Inactive /\ r.latched = c.latched
          /\ r.rawInput = c.rawInput /\ r.inhibited = c.inhibited
          /\ r.clock = c.clock /\ r.timeoutTimer = c.timeoutTimer
          /\ r.pendingTimer = c.pendingTimer /\ r.cooldownTimer = c.cooldownTimer
          /\ r.cooldownUntil = c.cooldownUntil
      BY <3>2 DEF Core, StateMachine, State
    <3>4. Core(r)
      BY <3>2, <3>3, CoreFields DEF Core
    <3>5. Sound(r)
      <4> HIDE DEF r
      <4> QED BY <1>2, <1>4, <1>7, <2>3, <3>2, <3>3, <3>4 DEF Sound, SameButTimers
    <3> QED BY <3>1, <3>5
  <2> QED BY <2>1, <2>2, <2>3
<1>8. CASE q.state = Active
  <2>1. CASE value
    <3>1. OnInputChange(q, value) = RestartTimeout(q)
      BY <1>8, <2>1 DEF OnInputChange, InputWhileActive
    <3>2. Core(RestartTimeout(q)) /\ SameButTimers(q, RestartTimeout(q))
      BY <1>3, <1>4, <1>8, RestartTimeoutCore
    <3> QED BY <1>2, <1>4, <1>8, <2>1, <3>1, <3>2 DEF Sound, SameButTimers
  <2>2. CASE ~value /\ q.latched
    <3>1. OnInputChange(q, value) = q
      BY <1>8, <2>2 DEF OnInputChange, InputWhileActive
    <3> QED BY <1>2, <1>3, <1>4, <1>8, <2>2, <3>1 DEF Sound
  <2>3. CASE ~value /\ ~q.latched /\ DeactivateAfter > 0
    <3>1. OnInputChange(q, value) = ArmDeactivation(q)
      BY <1>8, <2>3 DEF OnInputChange, InputWhileActive
    <3> QED BY <1>2, <1>3, <1>4, <1>8, <2>3, <3>1, ArmDeactivationCore DEF Sound
  <2>4. CASE ~value /\ ~q.latched /\ ~(DeactivateAfter > 0)
    <3>1. OnInputChange(q, value) = BecomeInactive(q)
      BY <1>8, <2>4 DEF OnInputChange, InputWhileActive
    <3> QED BY <1>2, <1>3, <1>4, <1>8, <2>4, <3>1, BecomeInactiveCore DEF Sound
  <2> QED BY <2>1, <2>2, <2>3, <2>4
<1>9. CASE q.state = PendingDeactivation
  <2> DEFINE c == CancelPending(q)
             p == [c EXCEPT !.state = Active]
  <2>1. OnInputChange(q, value) = RestartTimeout(p) /\ value
    BY <1>2, <1>4, <1>9 DEF OnInputChange, InputWhilePendingDeactivation
  <2>2. Core(c) /\ SameButTimers(q, c) /\ FreeIds(c) # {}
    BY <1>3, CancelPendingCore
  <2> HIDE DEF c
  <2>3. /\ p \in StateMachine /\ p.state = Active /\ p.latched = c.latched
        /\ p.rawInput = c.rawInput /\ p.inhibited = c.inhibited
        /\ p.clock = c.clock /\ p.timeoutTimer = c.timeoutTimer
        /\ p.pendingTimer = c.pendingTimer /\ p.cooldownTimer = c.cooldownTimer
        /\ p.cooldownUntil = c.cooldownUntil
    BY <2>2 DEF Core, StateMachine, State
  <2> HIDE DEF p
  <2>4. Core(p) /\ FreeIds(p) # {} /\ ~Latch
    BY <1>4, <1>9, <2>2, <2>3, CoreFields DEF Core
  <2>5. Core(RestartTimeout(p)) /\ SameButTimers(p, RestartTimeout(p))
    BY <2>4, RestartTimeoutCore
  <2> QED BY <1>2, <1>4, <2>1, <2>2, <2>3, <2>4, <2>5 DEF Sound, SameButTimers
<1> QED BY <1>5, <1>6, <1>7, <1>8, <1>9 DEF State

\* SetInhibited, in both directions.
LEMMA InhibitSound ==
  ASSUME NEW s, Sound(s), FreeIds(s) # {}, NEW inhibited \in BOOLEAN
  PROVE  LET q == [s EXCEPT !.inhibited = inhibited]
         IN  Sound(IF inhibited THEN Inhibit(q) ELSE Uninhibit(q))
<1> DEFINE q == [s EXCEPT !.inhibited = inhibited]
<1> USE DEF Inactive, Active, PendingActivation, PendingDeactivation
<1>1. s \in StateMachine /\ Core(s)
  BY DEF Sound, Core
<1>2. /\ q \in StateMachine /\ q.state = s.state /\ q.latched = s.latched
      /\ q.inhibited = inhibited /\ q.clock = s.clock /\ q.rawInput = s.rawInput
      /\ q.timeoutTimer = s.timeoutTimer /\ q.pendingTimer = s.pendingTimer
      /\ q.cooldownTimer = s.cooldownTimer /\ q.cooldownUntil = s.cooldownUntil
  BY <1>1 DEF StateMachine
<1> SUFFICES Sound(IF inhibited THEN Inhibit(q) ELSE Uninhibit(q))
  OBVIOUS
<1> HIDE DEF q
<1>3. /\ Core(q) /\ FreeIds(q) # {}
      /\ \A f \in Callback : Outstanding(q, f) = Outstanding(s, f)
  BY <1>1, <1>2, CoreFields DEF Core
<1>4. CASE inhibited /\ q.state = PendingActivation
  <2> DEFINE c == CancelPending(q)
             r == [c EXCEPT !.retAccumulated = 0, !.retStartedAt = NoTime,
                            !.state = Inactive]
  <2>1. Core(c) /\ SameButTimers(q, c)
    BY <1>3, CancelPendingCore
  <2>2. Inhibit(q) = r
    BY <1>4 DEF Inhibit
  <2> HIDE DEF c
  <2>3. /\ r \in StateMachine /\ r.state = Inactive /\ r.latched = c.latched
        /\ r.rawInput = c.rawInput /\ r.inhibited = c.inhibited
        /\ r.clock = c.clock /\ r.timeoutTimer = c.timeoutTimer
        /\ r.pendingTimer = c.pendingTimer /\ r.cooldownTimer = c.cooldownTimer
        /\ r.cooldownUntil = c.cooldownUntil
    BY <2>1 DEF Core, StateMachine, State, NoTime
  <2> HIDE DEF r
  <2>4. Core(r)
    BY <2>1, <2>3, CoreFields DEF Core
  <2> QED BY <1>2, <1>4, <2>1, <2>2, <2>3, <2>4 DEF Sound, SameButTimers
<1>5. CASE inhibited /\ q.state # PendingActivation
  BY <1>2, <1>3, <1>5 DEF Inhibit, Sound, Callback
<1>6. CASE ~inhibited /\ q.state = Inactive /\ q.rawInput
  <2>1. Uninhibit(q) = TryActivate(q) /\ ~q.latched
    BY <1>1, <1>2, <1>6 DEF Uninhibit, Sound, Core
  <2> QED BY <1>3, <1>6, <2>1, TryActivateSound
<1>7. CASE ~inhibited /\ ~(q.state = Inactive /\ q.rawInput)
  BY <1>2, <1>3, <1>7 DEF Uninhibit, Sound, Callback
<1> QED BY <1>4, <1>5, <1>6, <1>7

\* Clear leaves a sound, inactive machine.
LEMMA ClearSound ==
  ASSUME NEW s, Sound(s)
  PROVE  Sound(Cleared(s)) /\ Cleared(s).state = Inactive
<1> DEFINE c == CancelPending(s)
           d == CancelTimeout(c)
           r == Cleared(s)
<1>1. Core(c) /\ SameButTimers(s, c)
  BY CancelPendingCore DEF Sound
<1>2. Core(d) /\ SameButTimers(c, d)
  BY <1>1, CancelTimeoutCore
<1>3. r = [d EXCEPT !.latched = FALSE, !.retAccumulated = 0,
                    !.retStartedAt = NoTime, !.rawInput = FALSE,
                    !.state = Inactive]
  BY DEF Cleared
<1> HIDE DEF c, d, r
<1>4. /\ r \in StateMachine /\ r.state = Inactive /\ r.latched = FALSE
      /\ r.rawInput = FALSE /\ r.inhibited = d.inhibited
      /\ r.clock = d.clock /\ r.timeoutTimer = d.timeoutTimer
      /\ r.pendingTimer = d.pendingTimer /\ r.cooldownTimer = d.cooldownTimer
      /\ r.cooldownUntil = d.cooldownUntil
  BY <1>2, <1>3 DEF Core, StateMachine, State, NoTime
<1>5. Core(r)
  BY <1>2, <1>4, CoreFields
<1>6. Sound(r)
  BY <1>4, <1>5 DEF Sound, Inactive, Active, PendingActivation, PendingDeactivation
<1> USE DEF r
<1> QED BY <1>4, <1>6

\* What is left of a sound machine when the callback f has used up its timer.
Used(s, i, f, r) ==
  /\ r \in StateMachine /\ HandleKinds(r) /\ SameButTimers(s, r)
  /\ r.pendingTimer = s.pendingTimer /\ r.timeoutTimer = s.timeoutTimer
  /\ r.cooldownTimer = s.cooldownTimer
  /\ \A g \in Callback \ {f} : Outstanding(r, g) = Outstanding(s, g)
  /\ Outstanding(r, f) = Outstanding(s, f) \ {i}

\* A callback that gets the lock has used up its timer and nothing else.
LEMMA RanUsed ==
  ASSUME TypeOK, Sound(sm), NEW i \in TimerIds, NEW f \in Callback,
         sm.clock[i].fn = f
  PROVE  Used(sm, i, f, Ran(i))
<1>1. sm \in StateMachine /\ Idle \in Timer
  BY DEF TypeOK, Timer
<1>2. /\ Ran(i) \in StateMachine /\ SameButTimers(sm, Ran(i))
      /\ Ran(i).pendingTimer = sm.pendingTimer
      /\ Ran(i).timeoutTimer = sm.timeoutTimer
      /\ Ran(i).cooldownTimer = sm.cooldownTimer
      /\ Ran(i).clock[i].fn = "none"
      /\ \A j \in TimerIds : j # i => Ran(i).clock[j] = sm.clock[j]
  BY <1>1 DEF Ran, StateMachine, SameButTimers, Idle
<1>3. HandleKinds(Ran(i))
  BY <1>1, <1>2 DEF Sound, Core, HandleKinds, StateMachine
<1>4. /\ \A g \in Callback \ {f} : Outstanding(Ran(i), g) = Outstanding(sm, g)
      /\ Outstanding(Ran(i), f) = Outstanding(sm, f) \ {i}
  BY <1>2 DEF Outstanding, Callback
<1> QED BY <1>2, <1>3, <1>4 DEF Used

\* Unless it was a cooldown callback, the machine is still Core.
LEMMA UsedCore ==
  ASSUME NEW s, Sound(s), NEW i, NEW r, NEW f \in Callback, Used(s, i, f, r)
  PROVE  f # "onCooldownTimer" => Core(r)
BY DEF Sound, Core, Used, SameButTimers, Callback

\* onActivateTimer, on time or late.
LEMMA ActivateFiredSound ==
  ASSUME NEW s, Sound(s), NEW i, NEW r, Used(s, i, "onActivateTimer", r),
         FreeIds(r) # {}
  PROVE  Sound(ActivateFired(r))
<1> USE DEF Inactive, Active, PendingActivation, PendingDeactivation
<1>1. Core(r) /\ SameButTimers(s, r)
  BY UsedCore DEF Callback, Used
<1>2. CASE r.state = PendingActivation
  <2> DEFINE q == [r EXCEPT !.pendingTimer = NoTimer]
  <2>1. ActivateFired(r) = BecomeActive(q)
    BY <1>2 DEF ActivateFired
  <2>2. /\ q \in StateMachine /\ q.latched = r.latched /\ q.rawInput = r.rawInput
        /\ q.inhibited = r.inhibited /\ q.clock = r.clock
        /\ q.timeoutTimer = r.timeoutTimer /\ q.pendingTimer = NoTimer
        /\ q.cooldownTimer = r.cooldownTimer /\ q.cooldownUntil = r.cooldownUntil
    BY <1>1 DEF Core, StateMachine
  <2> HIDE DEF q
  <2>3. Core(q) /\ FreeIds(q) # {}
    BY <1>1, <2>2, CoreFields DEF Core
  <2>4. ~Retentive => q.rawInput
    BY <1>1, <1>2, <2>2 DEF Sound, SameButTimers
  <2> QED BY <1>1, <1>2, <2>1, <2>2, <2>3, <2>4, BecomeActiveCore DEF Sound
<1>3. CASE r.state # PendingActivation
  BY <1>1, <1>3 DEF ActivateFired, Sound, Used, SameButTimers, Callback
<1> QED BY <1>2, <1>3

\* onDeactivateTimer, on time or late.
LEMMA DeactivateFiredSound ==
  ASSUME NEW s, Sound(s), NEW i, NEW r, Used(s, i, "onDeactivateTimer", r),
         FreeIds(r) # {}
  PROVE  Sound(DeactivateFired(r))
<1> USE DEF Inactive, Active, PendingActivation, PendingDeactivation
<1>1. Core(r) /\ SameButTimers(s, r)
  BY UsedCore DEF Callback, Used
<1>2. CASE r.state = PendingDeactivation
  <2> DEFINE q == [r EXCEPT !.pendingTimer = NoTimer]
  <2>1. DeactivateFired(r) = BecomeInactive(q)
    BY <1>2 DEF DeactivateFired
  <2>2. /\ q \in StateMachine /\ q.latched = r.latched /\ q.rawInput = r.rawInput
        /\ q.inhibited = r.inhibited /\ q.clock = r.clock
        /\ q.timeoutTimer = r.timeoutTimer /\ q.pendingTimer = NoTimer
        /\ q.cooldownTimer = r.cooldownTimer /\ q.cooldownUntil = r.cooldownUntil
    BY <1>1 DEF Core, StateMachine
  <2> HIDE DEF q
  <2>3. Core(q) /\ FreeIds(q) # {}
    BY <1>1, <2>2, CoreFields DEF Core
  <2>4. ~q.rawInput /\ ~Latch
    BY <1>1, <1>2, <2>2 DEF Sound, SameButTimers
  <2> QED BY <2>1, <2>3, <2>4, BecomeInactiveCore DEF Sound
<1>3. CASE r.state # PendingDeactivation
  BY <1>1, <1>3 DEF DeactivateFired, Sound, Used, SameButTimers, Callback
<1> QED BY <1>2, <1>3

\* onTimeoutTimer, on time or late.
LEMMA TimeoutFiredSound ==
  ASSUME NEW s, Sound(s), NEW i \in Outstanding(s, "onTimeoutTimer"), NEW r,
         Used(s, i, "onTimeoutTimer", r), FreeIds(r) # {}
  PROVE  Sound(TimeoutFired(r))
<1> USE DEF Inactive, Active, PendingActivation, PendingDeactivation
<1>1. Core(r) /\ SameButTimers(s, r)
  BY UsedCore DEF Callback, Used
<1>2. CASE r.state = Active
  <2> DEFINE q == [r EXCEPT !.timeoutTimer = NoTimer]
             b == BecomeInactive(q)
             e == [b EXCEPT !.rawInput = FALSE]
  <2>1. TimeoutFired(r) = e
    BY <1>2 DEF TimeoutFired
  <2>2. /\ q \in StateMachine /\ q.latched = r.latched /\ q.rawInput = r.rawInput
        /\ q.inhibited = r.inhibited /\ q.clock = r.clock
        /\ q.timeoutTimer = NoTimer /\ q.pendingTimer = r.pendingTimer
        /\ q.cooldownTimer = r.cooldownTimer /\ q.cooldownUntil = r.cooldownUntil
    BY <1>1 DEF Core, StateMachine
  <2> HIDE DEF q
  <2>3. Core(q) /\ FreeIds(q) # {}
    BY <1>1, <2>2, CoreFields DEF Core
  <2>4. ~Latch
    BY DEF Sound, Core
  <2>5. Core(b) /\ b.state = Inactive
    BY <2>3, BecomeInactiveCore
  <2> HIDE DEF b
  <2>6. /\ e \in StateMachine /\ e.state = Inactive /\ e.rawInput = FALSE
        /\ e.latched = b.latched /\ e.clock = b.clock
        /\ e.timeoutTimer = b.timeoutTimer /\ e.pendingTimer = b.pendingTimer
        /\ e.cooldownTimer = b.cooldownTimer /\ e.cooldownUntil = b.cooldownUntil
    BY <2>5 DEF Core, StateMachine
  <2> HIDE DEF e
  <2>7. Core(e)
    BY <2>5, <2>6, CoreFields DEF Core
  <2> QED BY <2>1, <2>4, <2>6, <2>7 DEF Sound
<1>3. CASE r.state # Active
  BY <1>1, <1>3 DEF TimeoutFired, Sound, Used, SameButTimers, Callback
<1> QED BY <1>2, <1>3

\* onCooldownTimer, on time or late.
LEMMA CooldownFiredSound ==
  ASSUME NEW s, Sound(s), NEW i, NEW r, Used(s, i, "onCooldownTimer", r),
         FreeIds(r) # {}
  PROVE  Sound(CooldownFired(r))
<1> USE DEF Inactive, Active, PendingActivation, PendingDeactivation
<1> DEFINE q == [r EXCEPT !.cooldownTimer = NoTimer, !.cooldownUntil = 0]
<1>1. r \in StateMachine /\ HandleKinds(r) /\ SameButTimers(s, r)
  BY DEF Used
<1>2. /\ q \in StateMachine /\ q.state = r.state /\ q.latched = r.latched
      /\ q.rawInput = r.rawInput /\ q.inhibited = r.inhibited
      /\ q.clock = r.clock /\ q.timeoutTimer = r.timeoutTimer
      /\ q.pendingTimer = r.pendingTimer /\ q.cooldownTimer = NoTimer
      /\ q.cooldownUntil = 0
  BY <1>1 DEF StateMachine
<1>3. CooldownFired(r) = Uninhibit(q)
  BY DEF CooldownFired
<1> HIDE DEF q
<1>4. /\ FreeIds(q) # {}
      /\ \A f \in Callback : Outstanding(q, f) = Outstanding(r, f)
  BY <1>2 DEF FreeIds, Handles, Outstanding
<1>5. Core(q)
  BY <1>1, <1>2, <1>4 DEF Sound, Core, Used, HandleKinds, SameButTimers, Callback
<1>6. CASE q.state = Inactive /\ q.rawInput
  <2>1. ~q.latched
    BY <1>1, <1>2, <1>6 DEF Sound, Core, SameButTimers
  <2> QED BY <1>3, <1>4, <1>5, <1>6, <2>1, TryActivateSound DEF Uninhibit
<1>7. CASE ~(q.state = Inactive /\ q.rawInput)
  BY <1>1, <1>2, <1>3, <1>4, <1>5, <1>7
     DEF Uninhibit, Sound, Used, SameButTimers, Callback
<1> QED BY <1>6, <1>7

-----------------------------------------------------------------------------
(* The specification keeps IndInv.                                         *)

\* The bookkeeping of the delays keeps its type in every critical section.
LEMMA ObservedType ==
  ASSUME hist \in History, NEW s
  PROVE  Observed(s) \in History
BY DEF Observed, History

\* Releasing the lock with a well-typed machine keeps TypeOK.
LEMMA UnlockType ==
  ASSUME TypeOK, NEW s \in StateMachine, Unlock(s), hist' \in History
  PROVE  TypeOK'
<1>1. Output(s) \in BOOLEAN /\ (Output(s) # Invert) \in BOOLEAN
  BY DEF Output
<1>2. HookFor(Output(s) # Invert) \in Hook
  BY DEF HookFor, Hook
<1> QED BY <1>1, <1>2 DEF TypeOK, Unlock

\* A step that runs a critical section ending in a sound machine.
LEMMA SectionStep ==
  ASSUME IndInv, NEW s, Sound(s), Unlock(s), hist' = Observed(s)
  PROVE  IndInv'
<1>1. s \in StateMachine /\ hist' \in History
  BY ObservedType DEF Sound, Core, IndInv, TypeOK
<1>2. TypeOK'
  BY <1>1, UnlockType DEF IndInv
<1>3. sm' = s
  BY DEF Unlock
<1> QED BY <1>2, <1>3 DEF IndInv

\* Bootstrap, on a new machine, establishes IndInv.
LEMMA IndInvInit == Init => IndInv
<1> SUFFICES ASSUME Init PROVE IndInv
  OBVIOUS
<1> USE DEF Inactive, Active, PendingActivation, PendingDeactivation
<1> DEFINE n == NewStateMachine
<1>1. n \in StateMachine /\ n.state = Inactive /\ ~n.latched /\ ~n.rawInput
      /\ ~n.inhibited /\ n.cooldownUntil = 0 /\ n.clock = [i \in TimerIds |-> Idle]
      /\ n.pendingTimer = NoTimer /\ n.timeoutTimer = NoTimer
      /\ n.cooldownTimer = NoTimer
  BY DEF NewStateMachine, StateMachine, State, Timer, NoTime
<1>2. \A f \in Callback : Outstanding(n, f) = {}
  BY <1>1 DEF Outstanding, Callback, Idle
<1>3. Core(n) /\ FreeIds(n) # {}
  BY <1>1, <1>2 DEF Core, HandleKinds, FreeIds, Handles, Callback
<1>4. Sound(sm)
  <2>1. CASE ~StartActive
    BY <1>1, <1>3, <2>1 DEF Init, Bootstrap, Sound
  <2>2. CASE StartActive
    <3> DEFINE q == [n EXCEPT !.state = Active, !.rawInput = TRUE, !.latched = Latch]
    <3>1. sm = RestartTimeout(q)
      BY <2>2 DEF Init, Bootstrap
    <3> HIDE DEF n
    <3>2. /\ q \in StateMachine /\ q.state = Active /\ q.rawInput = TRUE
          /\ q.latched = Latch /\ q.clock = n.clock
          /\ q.timeoutTimer = n.timeoutTimer /\ q.pendingTimer = n.pendingTimer
          /\ q.cooldownTimer = n.cooldownTimer /\ q.cooldownUntil = n.cooldownUntil
      BY <1>1 DEF StateMachine, State
    <3> HIDE DEF q
    <3>3. Core(q) /\ FreeIds(q) # {}
      BY <1>3, <3>2, CoreFields
    <3>4. Core(sm) /\ SameButTimers(q, sm)
      BY <3>1, <3>2, <3>3, RestartTimeoutCore
    <3> QED BY <3>2, <3>4 DEF Sound, SameButTimers
  <2> QED BY <2>1, <2>2
<1>5. sm \in StateMachine
  BY <1>4 DEF Sound, Core
<1>6. hist \in History
  BY DEF Init, History
<1>7. heard \in BOOLEAN /\ balance \in Int /\ notices \in [Hook -> Nat]
  BY DEF Init
<1> QED BY <1>4, <1>5, <1>6, <1>7 DEF IndInv, TypeOK

\* The passage of time keeps IndInv: an armed timer is launched before it
\* could run past its end.
LEMMA TickKeeps == ASSUME IndInv, Tick PROVE IndInv'
<1> DEFINE k == [i \in TimerIds |->
                   IF sm.clock[i].phase = "armed"
                     THEN [sm.clock[i] EXCEPT !.left = @ - 1] ELSE sm.clock[i]]
           cd == IF sm.cooldownUntil = 0 THEN 0 ELSE sm.cooldownUntil - 1
           ret == IF sm.retStartedAt \in {NoTime, ActivateAfter}
                    THEN sm.retStartedAt ELSE sm.retStartedAt + 1
<1>1. sm \in StateMachine /\ Sound(sm) /\ Core(sm)
  BY DEF IndInv, TypeOK, Sound
<1>2. \A i \in TimerIds : sm.clock[i] \in Timer
  BY <1>1 DEF StateMachine
<1>3. \A i \in TimerIds : k[i] \in Timer /\ k[i].fn = sm.clock[i].fn
  <2> SUFFICES ASSUME NEW i \in TimerIds
               PROVE  k[i] \in Timer /\ k[i].fn = sm.clock[i].fn
    OBVIOUS
  <2>1. CASE sm.clock[i].phase = "armed"
    <3>1. sm.clock[i] \in [fn : Callback, phase : {"armed"}, left : Nat]
      BY <1>2, <2>1 DEF Timer, Idle
    <3>2. sm.clock[i].left \in Nat \ {0}
      BY <2>1, <3>1 DEF Tick, Due
    <3>3. [sm.clock[i] EXCEPT !.left = @ - 1]
            \in [fn : Callback, phase : {"armed"}, left : Nat]
      BY <3>1, <3>2
    <3> QED BY <2>1, <3>1, <3>3 DEF Timer
  <2>2. CASE sm.clock[i].phase # "armed"
    BY <1>2, <2>2
  <2> QED BY <2>1, <2>2
<1>4. cd \in Nat /\ ret \in Nat \cup {NoTime} /\ (cd > 0 => sm.cooldownUntil > 0)
  BY <1>1 DEF StateMachine, NoTime
<1>5. sm' = [sm EXCEPT !.clock = k, !.cooldownUntil = cd, !.retStartedAt = ret]
  BY DEF Tick
<1>6. k \in [TimerIds -> Timer]
  BY <1>3
<1> HIDE DEF k, cd, ret
<1>7. /\ sm' \in StateMachine /\ sm'.clock = k /\ sm'.cooldownUntil = cd
      /\ sm'.state = sm.state /\ sm'.rawInput = sm.rawInput
      /\ sm'.latched = sm.latched /\ sm'.inhibited = sm.inhibited
      /\ sm'.pendingTimer = sm.pendingTimer /\ sm'.timeoutTimer = sm.timeoutTimer
      /\ sm'.cooldownTimer = sm.cooldownTimer
  BY <1>1, <1>4, <1>5, <1>6 DEF StateMachine
<1>8. \A f \in Callback : Outstanding(sm', f) = Outstanding(sm, f)
  BY <1>3, <1>7 DEF Outstanding
<1>9. Sound(sm')
  <2>1. HandleKinds(sm')
    BY <1>1, <1>3, <1>7 DEF Core, HandleKinds, StateMachine
  <2>2. Core(sm')
    BY <1>1, <1>4, <1>7, <1>8, <2>1 DEF Core, Callback
  <2> QED BY <1>1, <1>7, <1>8, <2>2 DEF Sound, Callback
<1>10. hist' \in History
  BY DEF Tick, IndInv, TypeOK, History, Aged
<1> QED BY <1>7, <1>9, <1>10 DEF IndInv, TypeOK, Tick

\* Starting a callback keeps IndInv: the timer is still outstanding.
LEMMA LaunchKeeps == ASSUME IndInv, NEW i \in TimerIds, Launch(i) PROVE IndInv'
<1>1. sm \in StateMachine /\ Sound(sm) /\ Core(sm)
  BY DEF IndInv, TypeOK, Sound
<1> DEFINE c == [sm.clock[i] EXCEPT !.phase = "launched"]
<1>2. c \in Timer /\ c.fn = sm.clock[i].fn
  <2>1. sm.clock[i] \in Timer
    BY <1>1 DEF StateMachine
  <2>2. sm.clock[i] \in [fn : Callback, phase : {"armed"}, left : {0}]
    BY <2>1 DEF Launch, Due, Timer, Idle
  <2> QED BY <2>2 DEF Timer
<1>3. sm' = [sm EXCEPT !.clock = [sm.clock EXCEPT ![i] = c]]
  BY <1>1 DEF Launch, StateMachine
<1> HIDE DEF c
<1>4. /\ sm' \in StateMachine /\ sm'.cooldownUntil = sm.cooldownUntil
      /\ sm'.state = sm.state /\ sm'.rawInput = sm.rawInput
      /\ sm'.latched = sm.latched /\ sm'.inhibited = sm.inhibited
      /\ sm'.pendingTimer = sm.pendingTimer /\ sm'.timeoutTimer = sm.timeoutTimer
      /\ sm'.cooldownTimer = sm.cooldownTimer
      /\ \A j \in TimerIds : sm'.clock[j].fn = sm.clock[j].fn
  BY <1>1, <1>2, <1>3 DEF StateMachine
<1>5. \A f \in Callback : Outstanding(sm', f) = Outstanding(sm, f)
  BY <1>4 DEF Outstanding
<1>6. Sound(sm')
  <2>1. HandleKinds(sm')
    BY <1>1, <1>4 DEF Core, HandleKinds, StateMachine
  <2>2. Core(sm')
    BY <1>1, <1>4, <1>5, <2>1 DEF Core, Callback
  <2> QED BY <1>1, <1>4, <1>5, <2>2 DEF Sound, Callback
<1> QED BY <1>4, <1>6 DEF IndInv, TypeOK, Launch

\* Each of the four timer callbacks, on time or late, keeps IndInv.
LEMMA CallbackKeeps ==
  ASSUME IndInv, NEW i \in TimerIds, RunCallback(i)
  PROVE  IndInv'
<1>0. TypeOK /\ Sound(sm)
  BY DEF IndInv
<1>1. CASE OnActivateTimer(i)
  <2> DEFINE s == ActivateFired(Ran(i))
  <2>1. Used(sm, i, "onActivateTimer", Ran(i)) /\ FreeIds(Ran(i)) # {}
    BY <1>0, <1>1, RanUsed DEF OnActivateTimer, Enter, Callback
  <2>2. Sound(s)
    BY <1>0, <2>1, ActivateFiredSound
  <2> QED BY <1>1, <2>2, SectionStep DEF OnActivateTimer
<1>2. CASE OnDeactivateTimer(i)
  <2> DEFINE s == DeactivateFired(Ran(i))
  <2>1. Used(sm, i, "onDeactivateTimer", Ran(i)) /\ FreeIds(Ran(i)) # {}
    BY <1>0, <1>2, RanUsed DEF OnDeactivateTimer, Enter, Callback
  <2>2. Sound(s)
    BY <1>0, <2>1, DeactivateFiredSound
  <2> QED BY <1>2, <2>2, SectionStep DEF OnDeactivateTimer
<1>3. CASE OnTimeoutTimer(i)
  <2> DEFINE s == TimeoutFired(Ran(i))
  <2>1. /\ Used(sm, i, "onTimeoutTimer", Ran(i)) /\ FreeIds(Ran(i)) # {}
        /\ i \in Outstanding(sm, "onTimeoutTimer")
    BY <1>0, <1>3, RanUsed DEF OnTimeoutTimer, Enter, Callback, Outstanding
  <2>2. Sound(s)
    BY <1>0, <2>1, TimeoutFiredSound
  <2> QED BY <1>3, <2>2, SectionStep DEF OnTimeoutTimer
<1>4. CASE OnCooldownTimer(i)
  <2> DEFINE s == CooldownFired(Ran(i))
  <2>1. Used(sm, i, "onCooldownTimer", Ran(i)) /\ FreeIds(Ran(i)) # {}
    BY <1>0, <1>4, RanUsed DEF OnCooldownTimer, Enter, Callback
  <2>2. Sound(s)
    BY <1>0, <2>1, CooldownFiredSound
  <2> QED BY <1>4, <2>2, SectionStep DEF OnCooldownTimer
<1> QED BY <1>1, <1>2, <1>3, <1>4 DEF RunCallback

\* IndInv is inductive.
LEMMA IndInvNext == IndInv /\ [Next]_vars => IndInv'
<1> SUFFICES ASSUME IndInv, [Next]_vars PROVE IndInv'
  OBVIOUS
<1>0. TypeOK /\ Sound(sm)
  BY DEF IndInv
<1>1. ASSUME NEW value \in BOOLEAN, SetRawInput(value) PROVE IndInv'
  <2>1. Sound(OnInputChange([sm EXCEPT !.rawInput = value], value))
    BY <1>0, <1>1, InputSound DEF SetRawInput, Armable
  <2> QED BY <1>1, <2>1, SectionStep DEF SetRawInput
<1>2. ASSUME NEW value \in BOOLEAN, SetInhibited(value) PROVE IndInv'
  <2> DEFINE q == [sm EXCEPT !.inhibited = value]
             s == IF value THEN Inhibit(q) ELSE Uninhibit(q)
  <2>1. Sound(s)
    BY <1>0, <1>2, InhibitSound DEF SetInhibited, Armable
  <2>2. Unlock(s) /\ hist' = Observed(s)
    BY <1>2 DEF SetInhibited
  <2> HIDE DEF s
  <2> QED BY <2>1, <2>2, SectionStep
<1>3. CASE Clear
  <2>1. Sound(Cleared(sm)) /\ Unlock(Cleared(sm))
    BY <1>0, <1>3, ClearSound DEF Clear
  <2>2. Cleared(sm) \in StateMachine /\ sm' = Cleared(sm)
    BY <2>1 DEF Sound, Core, Unlock
  <2>3. Observed(Cleared(sm)) \in History /\ hist \in History
    BY <1>0, ObservedType DEF TypeOK
  <2>4. hist' \in History
    <3> DEFINE o == Observed(Cleared(sm))
    <3>1. hist' = [o EXCEPT !.held = 0, !.quiet = hist.quiet]
      BY <1>3 DEF Clear
    <3> HIDE DEF o
    <3>2. o \in History
      BY <2>3 DEF o
    <3>3. 0 \in 0..ActivateAfter + 1 /\ hist.quiet \in 0..Cooldown + 1
      BY <2>3 DEF History
    <3>4. [o EXCEPT !.held = 0, !.quiet = hist.quiet] \in History
      BY <3>2, <3>3 DEF History
    <3> QED BY <3>1, <3>4
  <2>5. TypeOK'
    BY <1>0, <2>1, <2>2, <2>4, UnlockType
  <2> QED BY <2>1, <2>2, <2>5 DEF IndInv
<1>4. ASSUME NEW h \in Hook, Notify(h) PROVE IndInv'
  BY <1>0, <1>4 DEF Notify, IndInv, TypeOK
<1>5. CASE UNCHANGED vars
  BY <1>0, <1>5 DEF vars, IndInv, TypeOK
<1> QED
  BY <1>1, <1>2, <1>3, <1>4, <1>5, TickKeeps, LaunchKeeps, CallbackKeeps DEF Next

\* Every reachable state satisfies IndInv.
THEOREM Invariance == Spec => []IndInv
BY IndInvInit, IndInvNext, PTL DEF Spec

-----------------------------------------------------------------------------
(* What IndInv gives.                                                      *)

\* Type correctness of the whole machine, clock and bookkeeping.
THEOREM TypeCorrect == Spec => []TypeOK
<1>1. IndInv => TypeOK
  BY DEF IndInv
<1> QED BY <1>1, Invariance, PTL

\* No late callback can end a latched active period: none exists.
THEOREM LatchIsSafe == Spec => []LatchSafe
<1>1. IndInv => LatchSafe
  BY DEF IndInv, Sound, Core, LatchSafe
<1> QED BY <1>1, Invariance, PTL

\* Whatever the machine defers, the callback that takes it up again exists.
THEOREM WakeupNeverLost == Spec => []NoLostWakeup
<1>1. IndInv => NoLostWakeup
  BY DEF IndInv, Sound, NoLostWakeup
<1> QED BY <1>1, Invariance, PTL

\* State and tracked input agree in every reachable state.
THEOREM InputAlwaysAgrees == Spec => []InputAgrees
<1>1. IndInv => InputAgrees
  BY DEF IndInv, Sound, InputAgrees
<1> QED BY <1>1, Invariance, PTL

\* Only Clear takes a latched output down.
THEOREM LatchOnlyCleared == Spec => OnlyClearUnlatches
<1> DEFINE A == sm.latched /\ ~Output(sm') => Clear
<1> USE DEF Inactive, Active, PendingActivation, PendingDeactivation
<1>1. IndInv /\ [Next]_vars => [A]_vars
  <2> SUFFICES ASSUME IndInv, [Next]_vars, sm.latched, ~Clear
               PROVE  Output(sm')
    BY DEF vars
  <2>1. /\ Latch /\ sm.state = Active /\ sm \in StateMachine
        /\ Outstanding(sm, "onTimeoutTimer") = {} /\ Core(sm)
    BY DEF IndInv, Sound, Core
  <2>2. ASSUME NEW value \in BOOLEAN, SetRawInput(value) PROVE Output(sm')
    <3> DEFINE q == [sm EXCEPT !.rawInput = value]
    <3>1. /\ q \in StateMachine /\ q.state = Active /\ q.latched = sm.latched
          /\ q.clock = sm.clock /\ q.timeoutTimer = sm.timeoutTimer
          /\ q.pendingTimer = sm.pendingTimer
          /\ q.cooldownTimer = sm.cooldownTimer
          /\ q.cooldownUntil = sm.cooldownUntil
      BY <2>1 DEF StateMachine
    <3>2. sm' = OnInputChange(q, value) /\ FreeIds(sm) # {}
      BY <2>2 DEF SetRawInput, Unlock, Armable
    <3> HIDE DEF q
    <3>3. Core(q) /\ FreeIds(q) # {}
      BY <2>1, <3>1, <3>2, CoreFields
    <3>4. sm' \in {RestartTimeout(q), q}
      BY <3>1, <3>2 DEF OnInputChange, InputWhileActive
    <3>5. SameButTimers(q, RestartTimeout(q))
      BY <3>1, <3>3, RestartTimeoutCore
    <3> QED BY <3>1, <3>4, <3>5 DEF Output, SameButTimers
  <2>3. ASSUME NEW value \in BOOLEAN, SetInhibited(value) PROVE Output(sm')
    BY <2>1, <2>3 DEF SetInhibited, Unlock, Inhibit, Uninhibit, Output, StateMachine
  <2>4. ASSUME NEW i \in TimerIds, RunCallback(i) PROVE Output(sm')
    <3>1. Ran(i).state = Active
      BY <2>1 DEF Ran, StateMachine
    <3>2. CASE OnActivateTimer(i)
      BY <3>1, <3>2 DEF OnActivateTimer, ActivateFired, Unlock, Output
    <3>3. CASE OnDeactivateTimer(i)
      BY <3>1, <3>3 DEF OnDeactivateTimer, DeactivateFired, Unlock, Output
    <3>4. CASE OnTimeoutTimer(i)
      BY <2>1, <3>4 DEF OnTimeoutTimer, Enter, Outstanding
    <3>5. CASE OnCooldownTimer(i)
      <4> DEFINE q == [Ran(i) EXCEPT !.cooldownTimer = NoTimer, !.cooldownUntil = 0]
      <4>1. q.state = Active
        BY <2>1, <3>1 DEF Ran, StateMachine
      <4> QED BY <3>5, <4>1 DEF OnCooldownTimer, CooldownFired, Uninhibit, Unlock, Output
    <3> QED BY <2>4, <3>2, <3>3, <3>4, <3>5 DEF RunCallback
  <2>5. ASSUME NEW i \in TimerIds, Launch(i) PROVE Output(sm')
    BY <2>1, <2>5 DEF Launch, Output, StateMachine
  <2>6. CASE Tick
    BY <2>1, <2>6 DEF Tick, Output, StateMachine
  <2>7. ASSUME NEW h \in Hook, Notify(h) PROVE Output(sm')
    BY <2>1, <2>7 DEF Notify, Output
  <2>8. CASE UNCHANGED vars
    BY <2>1, <2>8 DEF vars, Output
  <2> QED BY <2>2, <2>3, <2>4, <2>5, <2>6, <2>7, <2>8 DEF Next
<1> QED BY <1>1, Invariance, PTL DEF Spec, OnlyClearUnlatches

\* While inhibited, the output does not rise and no activation is pending.
THEOREM InhibitAlwaysBlocks == Spec => InhibitBlocks
<1> DEFINE A == sm.inhibited /\ sm'.inhibited => /\ sm'.state # PendingActivation
                                                 /\ Output(sm') => Output(sm)
<1> USE DEF Inactive, Active, PendingActivation, PendingDeactivation
<1>1. IndInv /\ IndInv' /\ [Next]_vars => [A]_vars
  <2> SUFFICES ASSUME IndInv, IndInv', [Next]_vars, sm.inhibited, sm'.inhibited,
                      ~Output(sm)
               PROVE  ~Output(sm')
    BY DEF IndInv, Sound
  <2>1. sm.state = Inactive /\ sm \in StateMachine /\ ~sm.latched
    BY DEF IndInv, Sound, Core, StateMachine, State, Output
  <2>2. ASSUME NEW value \in BOOLEAN, SetRawInput(value) PROVE ~Output(sm')
    <3> DEFINE q == [sm EXCEPT !.rawInput = value]
    <3>1. q.state = Inactive /\ q.inhibited
      BY <2>1 DEF StateMachine
    <3>2. sm' = OnInputChange(q, value)
      BY <2>2 DEF SetRawInput, Unlock
    <3> HIDE DEF q
    <3>3. OnInputChange(q, value) = q
      BY <3>1 DEF OnInputChange, InputWhileInactive, TryActivate
    <3> QED BY <3>1, <3>2, <3>3 DEF Output
  <2>3. ASSUME NEW value \in BOOLEAN, SetInhibited(value) PROVE ~Output(sm')
    <3> DEFINE q == [sm EXCEPT !.inhibited = FALSE]
    <3>1. value = FALSE
      BY <2>1, <2>3 DEF SetInhibited, StateMachine
    <3>2. sm' = Uninhibit(q) /\ FreeIds(sm) # {}
      BY <2>3, <3>1 DEF SetInhibited, Unlock, Armable
    <3>3. /\ q \in StateMachine /\ q.inhibited = FALSE /\ q.latched = sm.latched
          /\ q.clock = sm.clock /\ q.timeoutTimer = sm.timeoutTimer
          /\ q.pendingTimer = sm.pendingTimer /\ q.cooldownTimer = sm.cooldownTimer
          /\ q.cooldownUntil = sm.cooldownUntil
      BY <2>1 DEF StateMachine
    <3> HIDE DEF q
    <3>4. Core(q) /\ FreeIds(q) # {}
      BY <2>1, <3>2, <3>3, CoreFields DEF IndInv, Sound
    <3>5. \/ Uninhibit(q) = q
          \/ Uninhibit(q) = BecomeActive(q)
          \/ Uninhibit(q) = ArmActivation(q) /\ q.retAccumulated < ActivateAfter
      BY <3>3 DEF Uninhibit, TryActivate, StateMachine
    <3>6. Uninhibit(q).inhibited = FALSE
      BY <3>3, <3>4, <3>5, BecomeActiveCore, ArmActivationCore
    <3> QED BY <3>2, <3>6
  <2>4. ASSUME NEW i \in TimerIds, RunCallback(i) PROVE ~Output(sm')
    <3>1. Ran(i).state = Inactive /\ Ran(i).inhibited
      BY <2>1 DEF Ran, StateMachine
    <3>2. CASE OnActivateTimer(i)
      BY <3>1, <3>2 DEF OnActivateTimer, ActivateFired, Unlock, Output
    <3>3. CASE OnDeactivateTimer(i)
      BY <3>1, <3>3 DEF OnDeactivateTimer, DeactivateFired, Unlock, Output
    <3>4. CASE OnTimeoutTimer(i)
      BY <3>1, <3>4 DEF OnTimeoutTimer, TimeoutFired, Unlock, Output
    <3>5. CASE OnCooldownTimer(i)
      <4> DEFINE q == [Ran(i) EXCEPT !.cooldownTimer = NoTimer, !.cooldownUntil = 0]
      <4>1. q.state = Inactive /\ q.inhibited
        BY <2>1, <3>1 DEF Ran, StateMachine
      <4>2. sm' = Uninhibit(q)
        BY <3>5 DEF OnCooldownTimer, CooldownFired, Unlock
      <4> HIDE DEF q
      <4>3. Uninhibit(q) = q
        BY <4>1 DEF Uninhibit, TryActivate
      <4> QED BY <4>1, <4>2, <4>3 DEF Output
    <3> QED BY <2>4, <3>2, <3>3, <3>4, <3>5 DEF RunCallback
  <2>5. ASSUME NEW i \in TimerIds, Launch(i) PROVE ~Output(sm')
    BY <2>1, <2>5 DEF Launch, Output, StateMachine
  <2>6. CASE Tick
    BY <2>1, <2>6 DEF Tick, Output, StateMachine
  <2>7. ASSUME NEW h \in Hook, Notify(h) PROVE ~Output(sm')
    BY <2>1, <2>7 DEF Notify, Output
  <2>8. CASE UNCHANGED vars
    BY <2>1, <2>8 DEF vars, Output
  <2>9. CASE Clear
    BY <2>1, <2>9, ClearSound DEF Clear, Unlock, Output, IndInv
  <2> QED BY <2>2, <2>3, <2>4, <2>5, <2>6, <2>7, <2>8, <2>9 DEF Next
<1> QED BY <1>1, Invariance, PTL DEF Spec, InhibitBlocks

\* A critical section that changes the output sends one notification for it.
LEMMA UnlockBalances ==
  ASSUME TypeOK, HooksBalance, NEW s, Unlock(s)
  PROVE  HooksBalance'
<1>1. /\ Output(s) \in BOOLEAN /\ Output(sm) \in BOOLEAN
      /\ notices \in [Hook -> Nat] /\ balance \in Int
  BY DEF Output, TypeOK
<1>2. sm' = s /\ balance' = balance
  BY DEF Unlock
<1> DEFINE before == (Output(sm) # Invert)
           after == (Output(s) # Invert)
           h == HookFor(after)
<1>3. /\ One(before) \in Int /\ One(after) \in Int /\ One(StartActive # Invert) \in Int
      /\ h \in Hook
  BY DEF One, Hook, HookFor
<1>4. HooksBalance' <=> One(after) - One(StartActive # Invert)
                          = balance + notices'["on_activate"] - notices'["on_deactivate"]
  BY <1>2 DEF HooksBalance, Output
<1>5. CASE Output(s) = Output(sm)
  BY <1>4, <1>5 DEF HooksBalance, Unlock
<1>6. CASE Output(s) # Output(sm)
  <2>1. notices' = [notices EXCEPT ![h] = @ + 1]
    BY <1>6 DEF Unlock
  <2>2. One(after) - One(before) = IF h = "on_activate" THEN 1 ELSE -1
    BY <1>1, <1>6 DEF One, HookFor
  <2> HIDE DEF h
  <2> QED BY <1>1, <1>3, <1>4, <2>1, <2>2 DEF HooksBalance, Hook
<1> QED BY <1>5, <1>6

\* Hooks run and hooks on their way always add up to the change of output.
THEOREM HooksNeverDrift == Spec => []HooksBalance
<1>1. Init => HooksBalance
  <2> SUFFICES ASSUME Init PROVE HooksBalance
    OBVIOUS
  <2>1. Output(sm) = StartActive
    <3> DEFINE q == [NewStateMachine EXCEPT !.state = Active, !.rawInput = TRUE,
                                            !.latched = Latch]
    <3>1. q.state = Active /\ NewStateMachine.state = Inactive
      BY DEF NewStateMachine
    <3>2. RestartTimeout(q).state = Active
      BY <3>1 DEF RestartTimeout, CancelTimeout, NewStateMachine
    <3> QED BY <3>1, <3>2
       DEF Init, Bootstrap, Output, Active, Inactive, PendingDeactivation
  <2>2. balance = 0 /\ \A h \in Hook : notices[h] = 0
    BY DEF Init
  <2>3. One(Output(sm) # Invert) = One(StartActive # Invert)
    BY <2>1
  <2>4. One(Output(sm) # Invert) \in Int
    BY DEF One
  <2> QED BY <2>2, <2>3, <2>4 DEF HooksBalance, Hook
<1>2. IndInv /\ HooksBalance /\ [Next]_vars => HooksBalance'
  <2> SUFFICES ASSUME IndInv, HooksBalance, [Next]_vars PROVE HooksBalance'
    OBVIOUS
  <2>0. TypeOK
    BY DEF IndInv
  <2>1. ASSUME NEW value \in BOOLEAN, SetRawInput(value) PROVE HooksBalance'
    BY <2>0, <2>1, UnlockBalances DEF SetRawInput
  <2>2. ASSUME NEW value \in BOOLEAN, SetInhibited(value) PROVE HooksBalance'
    BY <2>0, <2>2, UnlockBalances DEF SetInhibited
  <2>3. CASE Clear
    BY <2>0, <2>3, UnlockBalances DEF Clear
  <2>4. ASSUME NEW i \in TimerIds, RunCallback(i) PROVE HooksBalance'
    BY <2>0, <2>4, UnlockBalances
       DEF RunCallback, OnActivateTimer, OnDeactivateTimer, OnTimeoutTimer,
           OnCooldownTimer
  <2>5. ASSUME NEW i \in TimerIds, Launch(i) PROVE HooksBalance'
    BY <2>0, <2>5 DEF Launch, TypeOK, StateMachine, HooksBalance, Output
  <2>6. CASE Tick
    BY <2>0, <2>6 DEF Tick, TypeOK, StateMachine, HooksBalance, Output
  <2>7. ASSUME NEW h \in Hook, Notify(h) PROVE HooksBalance'
    <3>1. notices \in [Hook -> Nat] /\ balance \in Int
      BY <2>0 DEF TypeOK
    <3>2. sm' = sm
      BY <2>7 DEF Notify
    <3>3. One(Output(sm) # Invert) = One(Output(sm') # Invert)
      BY <3>2 DEF Output
    <3>4. One(Output(sm) # Invert) \in Int /\ One(StartActive # Invert) \in Int
      BY DEF One
    <3> QED BY <2>7, <3>1, <3>3, <3>4 DEF Notify, HooksBalance, Hook
  <2>8. CASE UNCHANGED vars
    BY <2>8 DEF vars, HooksBalance, Output
  <2> QED BY <2>1, <2>2, <2>3, <2>4, <2>5, <2>6, <2>7, <2>8 DEF Next
<1> QED BY <1>1, <1>2, Invariance, PTL DEF Spec

-----------------------------------------------------------------------------
(* What the delays amount to, for every length of activate_after,          *)
(* deactivate_after, timeout and cooldown, of a machine driven by one      *)
(* goroutine and a clock that runs a due callback before anything else     *)
(* (~Concurrent), as the fake clock of the unit tests does.  With          *)
(* callbacks that wait for sm.mu the delays are not exact (run             *)
(* stale_activation).                                                      *)
(*                                                                         *)
(* OneEvent is how events follow one another; Timely ties what every timer *)
(* has left to what has been observed.  Each Locked helper gets a lemma    *)
(* saying which kinds of timer it leaves alone, removes or arms.           *)

\* One event at a time: a callback is launched when no notification is on its
\* way and no other callback waits, and a notification tells the watchers
\* what get() returns.
OneEvent ==
  /\ \A i, j \in TimerIds :
       sm.clock[i].phase = "launched" /\ sm.clock[j].phase = "launched" => i = j
  /\ (\E i \in TimerIds : sm.clock[i].phase = "launched") => \A h \in Hook : notices[h] = 0
  /\ \A h \in Hook : notices[h] > 0 => notices[h] = 1 /\ h = HookFor(Output(sm) # Invert)
  /\ (\A h \in Hook : notices[h] = 0) => heard = (Output(sm) # Invert)

\* Every timer is the one its handle names.
Owned(s) ==
  \A i \in TimerIds :
    /\ s.clock[i].fn \in {"onActivateTimer", "onDeactivateTimer"} => i = s.pendingTimer
    /\ s.clock[i].fn = "onTimeoutTimer" => i = s.timeoutTimer
    /\ s.clock[i].fn = "onCooldownTimer" => i = s.cooldownTimer

\* Every timer is one the state is waiting for, and has left what its delay
\* and the time observed since leave.
Left(s, h) ==
  \A i \in TimerIds :
    /\ s.clock[i].fn = "onActivateTimer" =>
         /\ s.state = PendingActivation /\ s.rawInput
         /\ s.clock[i].left + s.retAccumulated + s.retStartedAt = ActivateAfter
    /\ s.clock[i].fn = "onDeactivateTimer" =>
         s.state = PendingDeactivation /\ s.clock[i].left + h.low = DeactivateAfter
    /\ s.clock[i].fn = "onTimeoutTimer" =>
         Output(s) /\ s.clock[i].left + h.lit = Timeout
    /\ s.clock[i].fn = "onCooldownTimer" => s.clock[i].left = s.cooldownUntil

\* What an activation is due to: the input was held as long as the
\* accumulator says, the cooldown was over when it became pending.
Earned(s, h) ==
  /\ s.state # PendingActivation \/ ~Retentive => s.retAccumulated = 0
  /\ s.retAccumulated <= h.held
  /\ s.state = PendingActivation =>
       /\ s.cooldownUntil = 0
       /\ s.rawInput => s.retStartedAt \in Nat /\ s.retAccumulated + s.retStartedAt <= h.held
  /\ Cooldown <= h.quiet + s.cooldownUntil
  /\ s.state = Active /\ ~s.latched =>
       s.rawInput /\ (Timeout > 0 => Outstanding(s, "onTimeoutTimer") # {})

Timely(s, h) == Owned(s) /\ Left(s, h) /\ Earned(s, h)

DelayInv == IndInv /\ OneEvent /\ Timely(sm, hist)

-----------------------------------------------------------------------------
(* What the helpers do to the timers of each kind.                         *)

\* No callback waits for the lock: Stop stops whatever it is called on.
Calm(s) == \A i \in TimerIds : s.clock[i].phase # "launched"

Fine(s) == Core(s) /\ Calm(s) /\ Owned(s) /\ FreeIds(s) # {}

\* The timers for f are left alone, are gone, or are new and armed for d.
Keeps(s, r, f) ==
  \A i \in TimerIds : s.clock[i].fn = f \/ r.clock[i].fn = f => r.clock[i] = s.clock[i]
None(s, f) == \A i \in TimerIds : s.clock[i].fn # f
Armed(s, f, d) == /\ \E i \in TimerIds : s.clock[i].fn = f
                  /\ \A i \in TimerIds : s.clock[i].fn = f => s.clock[i].left = d

LEMMA CalmStop ==
  ASSUME NEW s \in StateMachine, Calm(s), NEW h, NEW i \in TimerIds
  PROVE  Stopped(s, h)[i] = IF i = h THEN Idle ELSE s.clock[i]
<1>1. s.clock[i] \in Timer
  BY DEF StateMachine
<1> QED BY <1>1 DEF Stopped, Calm, Timer, Idle

\* cancelTimeoutLocked.
LEMMA CancelTimeoutTimers ==
  ASSUME NEW s, Fine(s)
  PROVE  LET r == CancelTimeout(s)
         IN  /\ Fine(r) /\ SameButTimers(s, r) /\ None(r, "onTimeoutTimer")
             /\ \A f \in Callback \ {"onTimeoutTimer"} : Keeps(s, r, f)
             /\ r.pendingTimer = s.pendingTimer /\ r.cooldownTimer = s.cooldownTimer
<1> DEFINE r == CancelTimeout(s)
<1>1. /\ Core(r) /\ SameButTimers(s, r) /\ r.timeoutTimer = NoTimer
      /\ r.pendingTimer = s.pendingTimer /\ r.cooldownTimer = s.cooldownTimer
      /\ FreeIds(r) # {}
  BY CancelTimeoutCore DEF Fine
<1>2. s \in StateMachine /\ r.clock = Stopped(s, s.timeoutTimer)
  BY DEF Fine, Core, CancelTimeout, StateMachine
<1>3. \A i \in TimerIds : r.clock[i] = IF i = s.timeoutTimer THEN Idle ELSE s.clock[i]
  BY <1>2, CalmStop DEF Fine
<1> HIDE DEF r
<1>4. Idle.fn = "none" /\ Idle.phase = "idle"
  BY DEF Idle
<1>5. Calm(r)
  BY <1>3, <1>4 DEF Calm, Fine
<1>6. \A i \in TimerIds : s.clock[i].fn = "onTimeoutTimer" => i = s.timeoutTimer
  BY DEF Fine, Owned
<1>7. None(r, "onTimeoutTimer")
  BY <1>3, <1>4, <1>6 DEF None
<1>8. s.timeoutTimer \in TimerIds => s.clock[s.timeoutTimer].fn \in {"none", "onTimeoutTimer"}
  BY DEF Fine, Core, HandleKinds
<1>9. \A f \in Callback \ {"onTimeoutTimer"} : Keeps(s, r, f)
  BY <1>3, <1>4, <1>8 DEF Keeps, Callback
<1>10. Owned(r)
  BY <1>1, <1>3, <1>4, <1>7 DEF Fine, Owned, None
<1> QED BY <1>1, <1>5, <1>7, <1>9, <1>10 DEF Fine, r

\* cancelPendingLocked.
LEMMA CancelPendingTimers ==
  ASSUME NEW s, Fine(s)
  PROVE  LET r == CancelPending(s)
         IN  /\ Fine(r) /\ SameButTimers(s, r)
             /\ None(r, "onActivateTimer") /\ None(r, "onDeactivateTimer")
             /\ \A f \in {"onTimeoutTimer", "onCooldownTimer"} : Keeps(s, r, f)
             /\ r.timeoutTimer = s.timeoutTimer /\ r.cooldownTimer = s.cooldownTimer
<1> DEFINE r == CancelPending(s)
<1>1. /\ Core(r) /\ SameButTimers(s, r) /\ r.pendingTimer = NoTimer
      /\ r.timeoutTimer = s.timeoutTimer /\ r.cooldownTimer = s.cooldownTimer
      /\ FreeIds(r) # {}
  BY CancelPendingCore DEF Fine
<1>2. s \in StateMachine /\ r.clock = Stopped(s, s.pendingTimer)
  BY DEF Fine, Core, CancelPending, StateMachine
<1>3. \A i \in TimerIds : r.clock[i] = IF i = s.pendingTimer THEN Idle ELSE s.clock[i]
  BY <1>2, CalmStop DEF Fine
<1> HIDE DEF r
<1>4. Idle.fn = "none" /\ Idle.phase = "idle"
  BY DEF Idle
<1>5. Calm(r)
  BY <1>3, <1>4 DEF Calm, Fine
<1>6. \A i \in TimerIds :
        s.clock[i].fn \in {"onActivateTimer", "onDeactivateTimer"} => i = s.pendingTimer
  BY DEF Fine, Owned
<1>7. None(r, "onActivateTimer") /\ None(r, "onDeactivateTimer")
  BY <1>3, <1>4, <1>6 DEF None
<1>8. s.pendingTimer \in TimerIds =>
        s.clock[s.pendingTimer].fn \in {"none", "onActivateTimer", "onDeactivateTimer"}
  BY DEF Fine, Core, HandleKinds
<1>9. \A f \in {"onTimeoutTimer", "onCooldownTimer"} : Keeps(s, r, f)
  BY <1>3, <1>4, <1>8 DEF Keeps
<1>10. Owned(r)
  BY <1>1, <1>3, <1>4, <1>7 DEF Fine, Owned, None
<1> QED BY <1>1, <1>5, <1>7, <1>9, <1>10 DEF Fine, r

\* AfterFunc, into a handle of s whose timers are gone.
LEMMA NewTimerArmed ==
  ASSUME NEW s \in StateMachine, Calm(s), FreeIds(s) # {}, NEW d \in Nat,
         NEW f \in Callback, NEW r, r.clock = AfterFunc(s, d, f), None(s, f)
  PROVE  /\ Calm(r) /\ Armed(r, f, d)
         /\ \A i \in TimerIds : r.clock[i].fn = f => i = NewTimer(s)
         /\ \A g \in Callback \ {f} : Keeps(s, r, g)
<1> DEFINE n == NewTimer(s)
<1>1. n \in TimerIds /\ s.clock[n] = Idle
  BY AfterFuncType
<1>2. \A i \in TimerIds : r.clock[i] = IF i = n THEN [fn |-> f, phase |-> "armed", left |-> d]
                                              ELSE s.clock[i]
  BY <1>1 DEF AfterFunc, StateMachine
<1> HIDE DEF n
<1>3. Idle.fn = "none" /\ "none" \notin Callback
  BY DEF Idle, Callback
<1>4. Calm(r)
  BY <1>2 DEF Calm
<1>5. Armed(r, f, d)
  BY <1>1, <1>2 DEF Armed, None
<1>6. \A i \in TimerIds : r.clock[i].fn = f => i = n
  BY <1>2 DEF None
<1>7. \A g \in Callback \ {f} : Keeps(s, r, g)
  BY <1>1, <1>2, <1>3 DEF Keeps
<1> QED BY <1>4, <1>5, <1>6, <1>7 DEF n

\* restartTimeoutLocked: one timer for the whole timeout, unless latched.
LEMMA RestartTimeoutTimers ==
  ASSUME NEW s, Fine(s), Latch => s.latched
  PROVE  LET r == RestartTimeout(s)
         IN  /\ Core(r) /\ Calm(r) /\ Owned(r) /\ SameButTimers(s, r)
             /\ \A f \in Callback \ {"onTimeoutTimer"} : Keeps(s, r, f)
             /\ IF s.latched \/ Timeout = 0 THEN None(r, "onTimeoutTimer")
                                            ELSE Armed(r, "onTimeoutTimer", Timeout)
<1> DEFINE c == CancelTimeout(s)
           r == RestartTimeout(s)
<1>1. /\ Fine(c) /\ SameButTimers(s, c) /\ None(c, "onTimeoutTimer")
      /\ \A f \in Callback \ {"onTimeoutTimer"} : Keeps(s, c, f)
      /\ c.pendingTimer = s.pendingTimer /\ c.cooldownTimer = s.cooldownTimer
  BY CancelTimeoutTimers
<1>2. Core(r) /\ SameButTimers(s, r) /\ r.pendingTimer = s.pendingTimer
  BY RestartTimeoutCore DEF Fine
<1>3. CASE s.latched \/ Timeout = 0
  <2>1. r = c
    BY <1>3 DEF RestartTimeout
  <2> HIDE DEF r, c
  <2>2. Calm(r) /\ Owned(r)
    BY <1>1, <2>1 DEF Fine
  <2> QED BY <1>1, <1>2, <1>3, <2>1, <2>2 DEF r
<1>4. CASE ~(s.latched \/ Timeout = 0)
  <2>1. r = [c EXCEPT !.clock = AfterFunc(c, Timeout, "onTimeoutTimer"),
                      !.timeoutTimer = NewTimer(c)]
    BY <1>4 DEF RestartTimeout
  <2> HIDE DEF r, c
  <2>2. /\ r.clock = AfterFunc(c, Timeout, "onTimeoutTimer")
        /\ r.timeoutTimer = NewTimer(c) /\ r.cooldownTimer = c.cooldownTimer
        /\ r.pendingTimer = c.pendingTimer
    BY <1>1, <2>1 DEF Fine, Core, StateMachine
  <2>3. "onTimeoutTimer" \in Callback /\ c \in StateMachine /\ Calm(c) /\ FreeIds(c) # {}
    BY <1>1 DEF Callback, Fine, Core
  <2>4. /\ Calm(r) /\ Armed(r, "onTimeoutTimer", Timeout)
        /\ \A i \in TimerIds : r.clock[i].fn = "onTimeoutTimer" => i = NewTimer(c)
        /\ \A g \in Callback \ {"onTimeoutTimer"} : Keeps(c, r, g)
    BY <1>1, <2>2, <2>3, NewTimerArmed
  <2>5. Owned(r)
    BY <1>1, <2>2, <2>4 DEF Owned, Fine, Keeps, Callback
  <2>6. \A g \in Callback \ {"onTimeoutTimer"} : Keeps(s, r, g)
    BY <1>1, <2>4 DEF Keeps
  <2> QED BY <1>2, <1>4, <2>4, <2>5, <2>6 DEF r
<1> QED BY <1>3, <1>4

\* StartCooldown: one timer for the whole window.
LEMMA StartCooldownTimers ==
  ASSUME NEW s, Fine(s), \A i \in TimerIds :
           s.clock[i].fn = "onCooldownTimer" => s.clock[i].left = s.cooldownUntil
  PROVE  LET r == StartCooldown(s)
         IN  /\ Core(r) /\ Calm(r) /\ Owned(r)
             /\ \A f \in Callback \ {"onCooldownTimer"} : Keeps(s, r, f)
             /\ \A i \in TimerIds :
                  r.clock[i].fn = "onCooldownTimer" => r.clock[i].left = r.cooldownUntil
             /\ Cooldown > 0 => r.cooldownUntil = Cooldown
             /\ r.state = s.state /\ r.latched = s.latched /\ r.rawInput = s.rawInput
             /\ r.inhibited = s.inhibited /\ r.retAccumulated = s.retAccumulated
             /\ r.retStartedAt = s.retStartedAt
<1> DEFINE c == [s EXCEPT !.clock = Stopped(s, s.cooldownTimer)]
           r == StartCooldown(s)
<1>1. Core(r)
  BY StartCooldownCore DEF Fine
<1>2. CASE Cooldown = 0
  <2>1. r = s
    BY <1>2 DEF StartCooldown
  <2> HIDE DEF r
  <2> QED BY <1>2, <2>1 DEF Fine, Keeps, r
<1>3. CASE Cooldown # 0
  <2>1. s \in StateMachine
    BY DEF Fine, Core
  <2>2. /\ c \in StateMachine /\ SameButTimers(s, c) /\ c.clock = Stopped(s, s.cooldownTimer)
        /\ c.timeoutTimer = s.timeoutTimer /\ c.pendingTimer = s.pendingTimer
        /\ c.cooldownTimer = s.cooldownTimer
    BY <2>1, StopType DEF StateMachine, SameButTimers
  <2>3. r = [c EXCEPT !.cooldownUntil = Cooldown,
                      !.clock = AfterFunc(c, Cooldown, "onCooldownTimer"),
                      !.cooldownTimer = NewTimer(c)]
    BY <1>3 DEF StartCooldown
  <2> HIDE DEF c, r
  <2>4. \A i \in TimerIds : c.clock[i] = IF i = s.cooldownTimer THEN Idle ELSE s.clock[i]
    BY <2>1, <2>2, CalmStop DEF Fine
  <2>5. Idle.fn = "none" /\ Idle.phase = "idle"
    BY DEF Idle
  <2>6. /\ s.cooldownTimer \in TimerIds => s.clock[s.cooldownTimer].fn \in {"none", "onCooldownTimer"}
        /\ s.timeoutTimer \in TimerIds => s.clock[s.timeoutTimer].fn \in {"none", "onTimeoutTimer"}
        /\ s.pendingTimer \in TimerIds =>
             s.clock[s.pendingTimer].fn \in {"none", "onActivateTimer", "onDeactivateTimer"}
    BY DEF Fine, Core, HandleKinds
  <2>7. \A f \in Callback \ {"onCooldownTimer"} : Keeps(s, c, f)
    BY <2>4, <2>5, <2>6 DEF Keeps, Callback
  <2>8. None(c, "onCooldownTimer")
    BY <2>4, <2>5 DEF None, Fine, Owned
  <2>9. Calm(c)
    BY <2>4, <2>5 DEF Calm, Fine
  <2>10. Owned(c)
    BY <2>2, <2>7, <2>8 DEF Owned, Fine, Keeps, None, Callback
  <2>11. FreeIds(c) # {}
    BY <2>2, <2>4 DEF FreeIds, Handles, Fine
  <2>12. /\ r.cooldownUntil = Cooldown /\ r.cooldownTimer = NewTimer(c)
         /\ r.clock = AfterFunc(c, Cooldown, "onCooldownTimer")
         /\ r.timeoutTimer = c.timeoutTimer /\ r.pendingTimer = c.pendingTimer
         /\ r.state = s.state /\ r.latched = s.latched /\ r.rawInput = s.rawInput
         /\ r.inhibited = s.inhibited /\ r.retAccumulated = s.retAccumulated
         /\ r.retStartedAt = s.retStartedAt
    BY <2>2, <2>3 DEF StateMachine, SameButTimers
  <2>13. "onCooldownTimer" \in Callback
    BY DEF Callback
  <2>14. /\ Calm(r) /\ Armed(r, "onCooldownTimer", Cooldown)
         /\ \A i \in TimerIds : r.clock[i].fn = "onCooldownTimer" => i = NewTimer(c)
         /\ \A g \in Callback \ {"onCooldownTimer"} : Keeps(c, r, g)
    BY <2>2, <2>8, <2>9, <2>11, <2>12, <2>13, NewTimerArmed
  <2>15. Owned(r)
    BY <2>10, <2>12, <2>14 DEF Owned, Keeps, Callback
  <2>16. \A g \in Callback \ {"onCooldownTimer"} : Keeps(s, r, g)
    BY <2>7, <2>14 DEF Keeps
  <2> QED BY <1>1, <2>12, <2>14, <2>15, <2>16 DEF r, Armed
<1> QED BY <1>2, <1>3

\* becomeActiveLocked.
LEMMA BecomeActiveTimers ==
  ASSUME NEW s, Fine(s)
  PROVE  LET r == BecomeActive(s)
         IN  /\ Core(r) /\ Calm(r) /\ Owned(r) /\ r.state = Active /\ r.latched = Latch
             /\ r.rawInput = s.rawInput /\ r.inhibited = s.inhibited
             /\ r.retAccumulated = 0 /\ r.cooldownUntil = s.cooldownUntil
             /\ \A f \in Callback \ {"onTimeoutTimer"} : Keeps(s, r, f)
             /\ IF Latch \/ Timeout = 0 THEN None(r, "onTimeoutTimer")
                                        ELSE Armed(r, "onTimeoutTimer", Timeout)
<1> DEFINE q == [s EXCEPT !.state = Active, !.retAccumulated = 0,
                          !.retStartedAt = NoTime, !.latched = @ \/ Latch]
           r == BecomeActive(s)
<1>1. s \in StateMachine /\ (s.latched => Latch)
  BY DEF Fine, Core
<1>2. /\ q \in StateMachine /\ q.state = Active /\ q.latched = Latch
      /\ q.rawInput = s.rawInput /\ q.inhibited = s.inhibited
      /\ q.clock = s.clock /\ q.timeoutTimer = s.timeoutTimer
      /\ q.pendingTimer = s.pendingTimer /\ q.cooldownTimer = s.cooldownTimer
      /\ q.cooldownUntil = s.cooldownUntil /\ q.retAccumulated = 0
  <2>1. (s.latched \/ Latch) = Latch
    BY <1>1 DEF StateMachine
  <2> QED BY <1>1, <2>1 DEF StateMachine, State
<1>3. r = RestartTimeout(q)
  BY DEF BecomeActive
<1>4. Core(r)
  BY BecomeActiveCore DEF Fine
<1> HIDE DEF q, r
<1>5. Fine(q)
  <2>1. Core(q) /\ FreeIds(q) # {}
    BY <1>2, CoreFields DEF Fine
  <2>2. Calm(q) /\ Owned(q)
    BY <1>2 DEF Fine, Calm, Owned
  <2> QED BY <2>1, <2>2 DEF Fine
<1>6. /\ Calm(r) /\ Owned(r) /\ SameButTimers(q, r)
      /\ \A f \in Callback \ {"onTimeoutTimer"} : Keeps(q, r, f)
      /\ IF q.latched \/ Timeout = 0 THEN None(r, "onTimeoutTimer")
                                     ELSE Armed(r, "onTimeoutTimer", Timeout)
  BY <1>2, <1>3, <1>5, RestartTimeoutTimers
<1>7. \A f \in Callback \ {"onTimeoutTimer"} : Keeps(s, r, f)
  BY <1>2, <1>6 DEF Keeps
<1> QED BY <1>2, <1>4, <1>6, <1>7 DEF SameButTimers, r

\* becomeInactiveLocked: the timeout goes, the cooldown window opens.
LEMMA BecomeInactiveTimers ==
  ASSUME NEW s, Fine(s), \A i \in TimerIds :
           s.clock[i].fn = "onCooldownTimer" => s.clock[i].left = s.cooldownUntil
  PROVE  LET r == BecomeInactive(s)
         IN  /\ Core(r) /\ Calm(r) /\ Owned(r) /\ r.state = Inactive
             /\ None(r, "onTimeoutTimer")
             /\ \A f \in {"onActivateTimer", "onDeactivateTimer"} : Keeps(s, r, f)
             /\ \A i \in TimerIds :
                  r.clock[i].fn = "onCooldownTimer" => r.clock[i].left = r.cooldownUntil
             /\ Cooldown > 0 => r.cooldownUntil = Cooldown
             /\ r.latched = s.latched /\ r.rawInput = s.rawInput
             /\ r.inhibited = s.inhibited /\ r.retAccumulated = s.retAccumulated
<1> DEFINE q == [s EXCEPT !.state = Inactive]
           c == CancelTimeout(q)
           r == BecomeInactive(s)
<1>1. s \in StateMachine
  BY DEF Fine, Core
<1>2. /\ q \in StateMachine /\ q.state = Inactive /\ q.latched = s.latched
      /\ q.rawInput = s.rawInput /\ q.inhibited = s.inhibited
      /\ q.clock = s.clock /\ q.timeoutTimer = s.timeoutTimer
      /\ q.pendingTimer = s.pendingTimer /\ q.cooldownTimer = s.cooldownTimer
      /\ q.cooldownUntil = s.cooldownUntil /\ q.retAccumulated = s.retAccumulated
  BY <1>1 DEF StateMachine, State
<1>3. r = StartCooldown(c)
  BY DEF BecomeInactive
<1>4. Core(r)
  BY BecomeInactiveCore DEF Fine
<1> HIDE DEF q, r
<1>5. Fine(q)
  <2>1. q.latched => Latch
    BY <1>2 DEF Fine, Core
  <2>2. Core(q) /\ FreeIds(q) # {}
    BY <1>2, <2>1, CoreFields DEF Fine
  <2>3. Calm(q) /\ Owned(q)
    BY <1>2 DEF Fine, Calm, Owned
  <2> QED BY <2>2, <2>3 DEF Fine
<1>6. /\ Fine(c) /\ SameButTimers(q, c) /\ None(c, "onTimeoutTimer")
      /\ \A f \in Callback \ {"onTimeoutTimer"} : Keeps(q, c, f)
  BY <1>5, CancelTimeoutTimers
<1> HIDE DEF c
<1>7. \A i \in TimerIds : c.clock[i].fn = "onCooldownTimer" => c.clock[i].left = c.cooldownUntil
  BY <1>2, <1>6 DEF Keeps, Callback, SameButTimers
<1>8. /\ Calm(r) /\ Owned(r)
      /\ \A f \in Callback \ {"onCooldownTimer"} : Keeps(c, r, f)
      /\ \A i \in TimerIds :
           r.clock[i].fn = "onCooldownTimer" => r.clock[i].left = r.cooldownUntil
      /\ Cooldown > 0 => r.cooldownUntil = Cooldown
      /\ r.state = c.state /\ r.latched = c.latched /\ r.rawInput = c.rawInput
      /\ r.inhibited = c.inhibited /\ r.retAccumulated = c.retAccumulated
  BY <1>3, <1>6, <1>7, StartCooldownTimers
<1>9. None(r, "onTimeoutTimer")
  BY <1>6, <1>8 DEF None, Keeps, Callback
<1>10. \A f \in {"onActivateTimer", "onDeactivateTimer"} : Keeps(s, r, f)
  <2>1. {"onActivateTimer", "onDeactivateTimer"}
          \subseteq Callback \ {"onTimeoutTimer", "onCooldownTimer"}
    BY DEF Callback
  <2>2. \A f \in Callback \ {"onTimeoutTimer", "onCooldownTimer"} : Keeps(s, r, f)
    BY <1>2, <1>6, <1>8 DEF Keeps
  <2> QED BY <2>1, <2>2
<1> QED BY <1>2, <1>4, <1>6, <1>8, <1>9, <1>10 DEF SameButTimers, r

\* ArmActivation, when nothing else is pending.
LEMMA ArmActivationTimers ==
  ASSUME NEW s, Fine(s), s.retAccumulated < ActivateAfter,
         None(s, "onActivateTimer"), None(s, "onDeactivateTimer")
  PROVE  LET r == ArmActivation(s)
         IN  /\ Core(r) /\ Calm(r) /\ Owned(r) /\ r.state = PendingActivation
             /\ Armed(r, "onActivateTimer", ActivateAfter - s.retAccumulated)
             /\ \A f \in Callback \ {"onActivateTimer"} : Keeps(s, r, f)
             /\ r.rawInput = s.rawInput /\ r.retStartedAt = 0
             /\ r.retAccumulated = s.retAccumulated /\ r.cooldownUntil = s.cooldownUntil
<1> DEFINE r == ArmActivation(s)
           d == ActivateAfter - s.retAccumulated
<1>1. s \in StateMachine /\ d \in Nat /\ "onActivateTimer" \in Callback
  BY DEF Fine, Core, StateMachine, Callback
<1>2. Core(r) /\ r.state = PendingActivation /\ r.rawInput = s.rawInput
  BY ArmActivationCore DEF Fine
<1>3. /\ r.clock = AfterFunc(s, d, "onActivateTimer") /\ r.pendingTimer = NewTimer(s)
      /\ r.timeoutTimer = s.timeoutTimer /\ r.cooldownTimer = s.cooldownTimer
      /\ r.retStartedAt = 0 /\ r.retAccumulated = s.retAccumulated
      /\ r.cooldownUntil = s.cooldownUntil
  BY <1>1 DEF ArmActivation, StateMachine
<1> HIDE DEF r, d
<1>4. /\ Calm(r) /\ Armed(r, "onActivateTimer", d)
      /\ \A i \in TimerIds : r.clock[i].fn = "onActivateTimer" => i = NewTimer(s)
      /\ \A g \in Callback \ {"onActivateTimer"} : Keeps(s, r, g)
  BY <1>1, <1>3, NewTimerArmed DEF Fine
<1>5. Owned(r)
  BY <1>3, <1>4 DEF Owned, Fine, Keeps, Callback, None
<1> QED BY <1>2, <1>3, <1>4, <1>5 DEF r, d

\* ArmDeactivation, likewise.
LEMMA ArmDeactivationTimers ==
  ASSUME NEW s, Fine(s), ~Latch,
         None(s, "onActivateTimer"), None(s, "onDeactivateTimer")
  PROVE  LET r == ArmDeactivation(s)
         IN  /\ Core(r) /\ Calm(r) /\ Owned(r) /\ r.state = PendingDeactivation
             /\ Armed(r, "onDeactivateTimer", DeactivateAfter)
             /\ \A f \in Callback \ {"onDeactivateTimer"} : Keeps(s, r, f)
             /\ r.rawInput = s.rawInput /\ r.retAccumulated = s.retAccumulated
             /\ r.cooldownUntil = s.cooldownUntil
<1> DEFINE r == ArmDeactivation(s)
<1>1. s \in StateMachine /\ "onDeactivateTimer" \in Callback
  BY DEF Fine, Core, Callback
<1>2. Core(r) /\ r.state = PendingDeactivation /\ r.rawInput = s.rawInput
  BY ArmDeactivationCore DEF Fine
<1>3. /\ r.clock = AfterFunc(s, DeactivateAfter, "onDeactivateTimer")
      /\ r.pendingTimer = NewTimer(s)
      /\ r.timeoutTimer = s.timeoutTimer /\ r.cooldownTimer = s.cooldownTimer
      /\ r.retAccumulated = s.retAccumulated /\ r.cooldownUntil = s.cooldownUntil
  BY <1>1 DEF ArmDeactivation, StateMachine
<1> HIDE DEF r
<1>4. /\ Calm(r) /\ Armed(r, "onDeactivateTimer", DeactivateAfter)
      /\ \A i \in TimerIds : r.clock[i].fn = "onDeactivateTimer" => i = NewTimer(s)
      /\ \A g \in Callback \ {"onDeactivateTimer"} : Keeps(s, r, g)
  BY <1>1, <1>3, NewTimerArmed DEF Fine
<1>5. Owned(r)
  BY <1>3, <1>4 DEF Owned, Fine, Keeps, Callback, None
<1> QED BY <1>2, <1>3, <1>4, <1>5 DEF r

-----------------------------------------------------------------------------
(* The critical sections.                                                  *)

\* A section begins with no callback waiting, and the cooldown timer, if any,
\* ends with the window.
Ready(s) ==
  /\ Fine(s)
  /\ \A i \in TimerIds : s.clock[i].fn = "onCooldownTimer" => s.clock[i].left = s.cooldownUntil

Unpending(s) == None(s, "onActivateTimer") /\ None(s, "onDeactivateTimer")

\* Becoming active with the input asserted.
LEMMA ActivatedTimely ==
  ASSUME NEW s, Ready(s), Unpending(s), s.rawInput, NEW h \in History, h.lit = 0,
         Cooldown <= h.quiet + s.cooldownUntil
  PROVE  Calm(BecomeActive(s)) /\ Timely(BecomeActive(s), h)
<1> DEFINE r == BecomeActive(s)
<1>1. /\ Calm(r) /\ Owned(r) /\ r.state = Active /\ r.latched = Latch /\ r.rawInput = s.rawInput
      /\ r.retAccumulated = 0 /\ r.cooldownUntil = s.cooldownUntil
      /\ \A f \in Callback \ {"onTimeoutTimer"} : Keeps(s, r, f)
      /\ IF Latch \/ Timeout = 0 THEN None(r, "onTimeoutTimer")
                                 ELSE Armed(r, "onTimeoutTimer", Timeout)
  BY BecomeActiveTimers DEF Ready
<1> HIDE DEF r
<1>2. Unpending(r)
  BY <1>1 DEF Unpending, None, Keeps, Callback
<1>3. \A i \in TimerIds : r.clock[i].fn = "onCooldownTimer" => r.clock[i].left = r.cooldownUntil
  BY <1>1 DEF Ready, Keeps, Callback
<1>4. \A i \in TimerIds : r.clock[i].fn = "onTimeoutTimer" => r.clock[i].left = Timeout
  BY <1>1 DEF None, Armed
<1>5. Left(r, h)
  <2>1. Output(r)
    BY <1>1 DEF Output
  <2> QED BY <1>2, <1>3, <1>4, <2>1 DEF Left, Unpending, None
<1>6. Earned(r, h)
  <2>1. Active # PendingActivation /\ h.held \in Nat
    BY DEF Active, PendingActivation, History
  <2>2. ~r.latched /\ Timeout > 0 => Outstanding(r, "onTimeoutTimer") # {}
    BY <1>1 DEF Armed, Outstanding
  <2> QED BY <1>1, <2>1, <2>2 DEF Earned
<1> QED BY <1>1, <1>5, <1>6 DEF Timely, r

\* Becoming inactive, whatever becomes of the input.
LEMMA InactivatedTimely ==
  ASSUME NEW s, Ready(s), Unpending(s), s.retAccumulated = 0, NEW h \in History,
         NEW r, r \in {BecomeInactive(s), [BecomeInactive(s) EXCEPT !.rawInput = FALSE]}
  PROVE  Calm(r) /\ Timely(r, h) /\ r.state = Inactive
<1> DEFINE b == BecomeInactive(s)
<1>1. /\ b \in StateMachine /\ Calm(b) /\ Owned(b) /\ b.state = Inactive /\ None(b, "onTimeoutTimer")
      /\ \A f \in {"onActivateTimer", "onDeactivateTimer"} : Keeps(s, b, f)
      /\ \A i \in TimerIds :
           b.clock[i].fn = "onCooldownTimer" => b.clock[i].left = b.cooldownUntil
      /\ Cooldown > 0 => b.cooldownUntil = Cooldown
      /\ b.retAccumulated = 0
  BY BecomeInactiveTimers DEF Ready, Core
<1> HIDE DEF b
<1>2. Unpending(b)
  BY <1>1 DEF Unpending, None, Keeps
<1>3. /\ r.clock = b.clock /\ r.pendingTimer = b.pendingTimer
      /\ r.timeoutTimer = b.timeoutTimer /\ r.cooldownTimer = b.cooldownTimer
      /\ r.state = Inactive /\ r.cooldownUntil = b.cooldownUntil /\ r.retAccumulated = 0
  BY <1>1 DEF StateMachine, b
<1>4. Calm(r) /\ Owned(r)
  BY <1>1, <1>3 DEF Calm, Owned
<1>5. Left(r, h)
  BY <1>1, <1>2, <1>3 DEF Left, Unpending, None
<1>6. Earned(r, h)
  <2>1. /\ Inactive # PendingActivation /\ Inactive # Active /\ h.held \in Nat
        /\ h.quiet \in Nat /\ b.cooldownUntil \in Nat
    BY <1>1 DEF Active, Inactive, PendingActivation, History, StateMachine
  <2> QED BY <1>1, <1>3, <2>1 DEF Earned
<1> QED BY <1>3, <1>4, <1>5, <1>6 DEF Timely

\* tryActivateLocked, from Inactive with the input asserted.  It activates at
\* once only without activate_after, and never inside the window.
LEMMA TryActivateTimely ==
  ASSUME NEW s, Ready(s), Unpending(s), None(s, "onTimeoutTimer"),
         s.state = Inactive, s.rawInput, s.retAccumulated = 0,
         NEW h \in History, Output(TryActivate(s)) => h.lit = 0,
         Cooldown <= h.quiet + s.cooldownUntil
  PROVE  /\ Calm(TryActivate(s)) /\ Timely(TryActivate(s), h)
         /\ Output(TryActivate(s)) => ActivateAfter = 0 /\ s.cooldownUntil = 0
<1> USE DEF Inactive, Active, PendingActivation, PendingDeactivation
<1>1. s \in StateMachine /\ h.held \in Nat /\ h.quiet \in Nat /\ Fine(s)
  BY DEF Ready, Fine, Core, History
<1>2. CASE CooldownActive(s) \/ s.inhibited
  <2>1. TryActivate(s) = s
    BY <1>2 DEF TryActivate
  <2>2. Left(s, h)
    BY DEF Left, Ready, Unpending, None
  <2>3. Earned(s, h)
    BY <1>1 DEF Earned
  <2> QED BY <1>1, <2>1, <2>2, <2>3 DEF Timely, Fine, Output
<1>3. CASE ~(CooldownActive(s) \/ s.inhibited) /\ ActivateAfter <= s.retAccumulated
  <2>1. TryActivate(s) = BecomeActive(s)
    BY <1>3 DEF TryActivate
  <2>2. s.cooldownUntil = 0 /\ ActivateAfter = 0
    BY <1>1, <1>3 DEF CooldownActive, StateMachine
  <2>3. Output(BecomeActive(s))
    BY <1>1, BecomeActiveTimers DEF Output
  <2> QED BY <2>1, <2>2, <2>3, ActivatedTimely
<1>4. CASE ~(CooldownActive(s) \/ s.inhibited) /\ ~(ActivateAfter <= s.retAccumulated)
  <2> DEFINE r == ArmActivation(s)
  <2>1. TryActivate(s) = r
    BY <1>4 DEF TryActivate
  <2>2. s.cooldownUntil = 0 /\ s.retAccumulated < ActivateAfter
    BY <1>1, <1>4 DEF CooldownActive, StateMachine
  <2>3. /\ Calm(r) /\ Owned(r) /\ r.state = PendingActivation
        /\ Armed(r, "onActivateTimer", ActivateAfter - s.retAccumulated)
        /\ \A f \in Callback \ {"onActivateTimer"} : Keeps(s, r, f)
        /\ r.rawInput = s.rawInput /\ r.retStartedAt = 0
        /\ r.retAccumulated = s.retAccumulated /\ r.cooldownUntil = s.cooldownUntil
    BY <1>1, <2>2, ArmActivationTimers DEF Unpending
  <2> HIDE DEF r
  <2>4. None(r, "onDeactivateTimer") /\ None(r, "onTimeoutTimer")
    BY <2>3 DEF Unpending, None, Keeps, Callback
  <2>5. \A i \in TimerIds : r.clock[i].fn = "onCooldownTimer" => r.clock[i].left = r.cooldownUntil
    BY <2>3 DEF Ready, Keeps, Callback
  <2>6. Left(r, h)
    BY <2>3, <2>4, <2>5 DEF Left, None, Armed
  <2>7. Earned(r, h)
    BY <1>1, <2>2, <2>3 DEF Earned
  <2>8. ~Output(r)
    BY <2>3 DEF Output
  <2> QED BY <2>1, <2>3, <2>6, <2>7, <2>8 DEF Timely
<1> QED BY <1>2, <1>3, <1>4

\* The bookkeeping of a section that leaves the machine in s.
LEMMA ObservedFields ==
  ASSUME hist \in History, NEW s
  PROVE  LET o == Observed(s)
         IN  /\ o \in History
             /\ o.held = IF Output(s) \/ s.inhibited \/ (~s.rawInput /\ ~Retentive)
                           THEN 0 ELSE hist.held
             /\ o.quiet = IF Output(sm) /\ ~Output(s) THEN 0 ELSE hist.quiet
             /\ o.lit = IF (s.rawInput /\ ~sm.rawInput) \/ (Output(s) /\ ~Output(sm))
                          THEN 0 ELSE hist.lit
             /\ o.low = IF sm.rawInput /\ ~s.rawInput THEN 0 ELSE hist.low
BY ObservedType DEF Observed

\* What every section may assume of the machine it finds.
Found == TypeOK /\ Sound(sm) /\ Timely(sm, hist) /\ Calm(sm) /\ FreeIds(sm) # {}

\* The machine with the new input, before onInputChangeLocked.
LEMMA NewInput ==
  ASSUME Found, NEW value \in BOOLEAN
  PROVE  LET q == [sm EXCEPT !.rawInput = value]
         IN  /\ q \in StateMachine /\ Ready(q) /\ q.rawInput = value /\ q.state = sm.state
             /\ q.latched = sm.latched /\ q.inhibited = sm.inhibited /\ q.clock = sm.clock
             /\ q.retAccumulated = sm.retAccumulated /\ q.retStartedAt = sm.retStartedAt
             /\ q.cooldownUntil = sm.cooldownUntil /\ q.pendingTimer = sm.pendingTimer
<1> DEFINE q == [sm EXCEPT !.rawInput = value]
<1>1. sm \in StateMachine /\ Core(sm) /\ Owned(sm) /\ Calm(sm) /\ FreeIds(sm) # {}
  BY DEF Found, Sound, Core, Timely
<1>2. /\ q \in StateMachine /\ q.rawInput = value /\ q.state = sm.state
      /\ q.latched = sm.latched /\ q.inhibited = sm.inhibited /\ q.clock = sm.clock
      /\ q.retAccumulated = sm.retAccumulated /\ q.retStartedAt = sm.retStartedAt
      /\ q.cooldownUntil = sm.cooldownUntil /\ q.pendingTimer = sm.pendingTimer
      /\ q.timeoutTimer = sm.timeoutTimer /\ q.cooldownTimer = sm.cooldownTimer
  BY <1>1 DEF StateMachine
<1> HIDE DEF q
<1>3. q.latched => Latch
  BY <1>1, <1>2 DEF Core
<1>4. Core(q) /\ FreeIds(q) # {}
  BY <1>1, <1>2, <1>3, CoreFields
<1>5. Calm(q) /\ Owned(q)
  BY <1>1, <1>2 DEF Calm, Owned
<1>6. Ready(q)
  BY <1>2, <1>4, <1>5 DEF Ready, Fine, Found, Timely, Left
<1> QED BY <1>2, <1>6 DEF q

\* What the properties ask of a section that leaves the machine in r: no callback
\* launched, the invariant, of a rise of the output that it was earned, and of the end of a
\* hold that it is not early.
Kept(r) ==
  /\ Calm(r) /\ Timely(r, Observed(r))
  /\ Output(r) /\ ~Output(sm) => hist.held >= ActivateAfter /\ hist.quiet >= Cooldown
  /\ sm.state = PendingDeactivation /\ r.state = Inactive => hist.low = DeactivateAfter

\* An input edge that meets an inactive machine.
LEMMA InputInactive ==
  ASSUME Found, NEW value \in BOOLEAN, sm.rawInput # value, sm.state = Inactive
  PROVE  Kept(InputWhileInactive([sm EXCEPT !.rawInput = value], value))
<1> USE DEF Inactive, Active, PendingActivation, PendingDeactivation
<1> DEFINE q == [sm EXCEPT !.rawInput = value]
           r == InputWhileInactive(q, value)
           o == Observed(r)
<1>1. /\ Ready(q) /\ q.rawInput = value /\ q.state = Inactive /\ q.clock = sm.clock
      /\ q.retAccumulated = sm.retAccumulated /\ q.cooldownUntil = sm.cooldownUntil
      /\ q.inhibited = sm.inhibited
  BY NewInput
<1>2. /\ ~Output(sm) /\ ~Output(q) /\ sm.retAccumulated = 0
      /\ Cooldown <= hist.quiet + sm.cooldownUntil
      /\ hist \in History /\ Calm(q) /\ Owned(q) /\ sm \in StateMachine
  BY <1>1 DEF Output, Found, Timely, Earned, TypeOK, Ready, Fine
<1>3. Unpending(q) /\ None(q, "onTimeoutTimer")
  BY <1>1, <1>2 DEF Found, Timely, Left, Unpending, None
<1>4. /\ o \in History /\ o.quiet = hist.quiet /\ (Output(r) => o.lit = 0)
      /\ hist.held \in Nat /\ hist.quiet \in Nat /\ o.held \in Nat
  <2>1. o \in History
    BY <1>2, ObservedFields
  <2>2. o.quiet = hist.quiet /\ (Output(r) => o.lit = 0)
    BY <1>2, ObservedFields
  <2> QED BY <1>2, <2>1, <2>2 DEF History
<1> HIDE DEF q, o
<1>5. ASSUME value PROVE Kept(r)
  <2>1. r = TryActivate(q)
    BY <1>5 DEF InputWhileInactive
  <2>2. Calm(r) /\ Timely(r, o) /\ (Output(r) => ActivateAfter = 0 /\ q.cooldownUntil = 0)
    BY <1>1, <1>2, <1>3, <1>4, <1>5, <2>1, TryActivateTimely
  <2> QED BY <1>1, <1>2, <1>4, <2>2 DEF Kept, o
<1>6. ASSUME ~value PROVE Kept(r)
  <2>1. r = q
    BY <1>6 DEF InputWhileInactive
  <2>2. Left(q, o)
    BY <1>1, <1>3 DEF Left, Ready, Unpending, None
  <2>3. Earned(q, o)
    BY <1>1, <1>2, <1>4 DEF Earned
  <2> QED BY <1>2, <2>1, <2>2, <2>3 DEF Kept, o, Timely
<1> QED BY <1>5, <1>6 DEF q

\* An input edge that meets a pending activation: pause, resume or give up.
LEMMA InputPendingActivation ==
  ASSUME Found, NEW value \in BOOLEAN, sm.rawInput # value, sm.state = PendingActivation
  PROVE  Kept(InputWhilePendingActivation([sm EXCEPT !.rawInput = value], value))
<1> USE DEF Inactive, Active, PendingActivation, PendingDeactivation
<1> DEFINE q == [sm EXCEPT !.rawInput = value]
           r == InputWhilePendingActivation(q, value)
           o == Observed(r)
<1>1. /\ q \in StateMachine /\ Ready(q) /\ q.rawInput = value /\ q.state = PendingActivation
      /\ q.retAccumulated = sm.retAccumulated /\ q.cooldownUntil = sm.cooldownUntil
      /\ q.retStartedAt = sm.retStartedAt /\ q.pendingTimer = sm.pendingTimer
      /\ q.inhibited = sm.inhibited /\ q.clock = sm.clock
  BY NewInput
<1>2. /\ ~Output(sm) /\ sm.cooldownUntil = 0 /\ Cooldown <= hist.quiet + sm.cooldownUntil
      /\ sm.retAccumulated <= hist.held /\ (~Retentive => sm.retAccumulated = 0)
      /\ sm.rawInput => sm.retStartedAt \in Nat /\ sm.retAccumulated + sm.retStartedAt <= hist.held
      /\ ~sm.inhibited /\ hist \in History /\ sm \in StateMachine
      /\ ~sm.rawInput => Retentive /\ sm.pendingTimer = NoTimer
  BY DEF Output, Found, Timely, Earned, TypeOK, Sound
<1>3. None(q, "onDeactivateTimer") /\ None(q, "onTimeoutTimer")
  BY <1>1, <1>2 DEF Found, Timely, Left, None
<1>4. /\ o \in History /\ o.quiet = hist.quiet /\ (Output(r) => o.lit = 0)
      /\ hist.held \in Nat /\ hist.quiet \in Nat /\ o.held \in Nat
      /\ Retentive /\ ~Output(r) /\ ~r.inhibited => o.held = hist.held
  <2>1. o \in History
    BY <1>2, ObservedFields
  <2>2. o.quiet = hist.quiet /\ (Output(r) => o.lit = 0)
    BY <1>2, ObservedFields
  <2>3. Retentive /\ ~Output(r) /\ ~r.inhibited => o.held = hist.held
    BY <1>2, ObservedFields
  <2> QED BY <1>2, <2>1, <2>2, <2>3 DEF History
<1> HIDE DEF q, o
<1>5. ASSUME value PROVE Kept(r)
  <2>1. r = ResumeRetentive(q)
    BY <1>1, <1>2, <1>5 DEF InputWhilePendingActivation
  <2>2. Unpending(q) /\ Fine(q) /\ Retentive
    BY <1>1, <1>2, <1>3, <1>5 DEF Found, Timely, Left, Unpending, None, Ready
  <2>3. CASE ActivateAfter <= q.retAccumulated
    <3>1. r = BecomeActive(q)
      BY <2>1, <2>3 DEF ResumeRetentive
    <3>2. Output(r)
      BY <2>2, <3>1, BecomeActiveTimers DEF Output
    <3>3. Calm(r) /\ Timely(r, o)
      BY <1>1, <1>2, <1>4, <1>5, <2>2, <3>1, <3>2, ActivatedTimely
    <3>4. q.retAccumulated \in Nat
      BY <1>1 DEF StateMachine
    <3> QED BY <1>1, <1>2, <1>4, <2>3, <3>3, <3>4 DEF Kept, o
  <2>4. CASE ~(ActivateAfter <= q.retAccumulated)
    <3>1. r = ArmActivation(q)
      BY <2>1, <2>4 DEF ResumeRetentive
    <3>2. q.retAccumulated < ActivateAfter /\ q.retAccumulated \in Nat
      BY <1>1, <2>4 DEF StateMachine
    <3>3. /\ Calm(r) /\ Owned(r) /\ r.state = PendingActivation
          /\ Armed(r, "onActivateTimer", ActivateAfter - q.retAccumulated)
          /\ \A f \in Callback \ {"onActivateTimer"} : Keeps(q, r, f)
          /\ r.rawInput = q.rawInput /\ r.retStartedAt = 0
          /\ r.retAccumulated = q.retAccumulated /\ r.cooldownUntil = q.cooldownUntil
      BY <2>2, <3>1, <3>2, ArmActivationTimers DEF Unpending
    <3>4. r.inhibited = q.inhibited
      BY <2>2, <3>1, <3>2, ArmActivationCore DEF Fine
    <3> HIDE DEF r
    <3>5. None(r, "onDeactivateTimer") /\ None(r, "onTimeoutTimer")
      BY <1>3, <3>3 DEF None, Keeps, Callback
    <3>6. \A i \in TimerIds : r.clock[i].fn = "onCooldownTimer" => r.clock[i].left = r.cooldownUntil
      BY <1>1, <3>3 DEF Ready, Keeps, Callback
    <3>7. Left(r, o)
      BY <1>1, <1>5, <3>2, <3>3, <3>5, <3>6 DEF Left, None, Armed
    <3>8. ~Output(r)
      BY <3>3 DEF Output
    <3>9. Earned(r, o)
      BY <1>1, <1>2, <1>4, <2>2, <3>2, <3>3, <3>4, <3>8 DEF Earned
    <3> QED BY <3>3, <3>7, <3>8, <3>9 DEF Kept, o, Timely
  <2> QED BY <2>3, <2>4
<1>6. ASSUME ~value PROVE Kept(r)
  <2> DEFINE c == CancelPending(q)
  <2>0. sm.retStartedAt \in Nat /\ sm.retAccumulated + sm.retStartedAt <= hist.held
    <3>1. sm.rawInput \in BOOLEAN
      BY <1>2 DEF StateMachine
    <3>2. sm.rawInput
      BY <1>6, <3>1
    <3> QED BY <1>2, <3>2
  <2>1. /\ c \in StateMachine /\ Fine(c) /\ SameButTimers(q, c)
        /\ Unpending(c) /\ Keeps(q, c, "onTimeoutTimer") /\ Keeps(q, c, "onCooldownTimer")
    BY <1>1, CancelPendingTimers DEF Ready, Fine, Core, Unpending
  <2> HIDE DEF c
  <2>2. None(c, "onTimeoutTimer")
    BY <1>3, <2>1 DEF None, Keeps
  <2>3. \A i \in TimerIds : c.clock[i].fn = "onCooldownTimer" => c.clock[i].left = c.cooldownUntil
    BY <1>1, <2>1 DEF Ready, Keeps, SameButTimers
  <2>4. /\ c.rawInput = q.rawInput /\ c.inhibited = q.inhibited
        /\ c.retAccumulated = q.retAccumulated /\ c.cooldownUntil = q.cooldownUntil
        /\ c.state = q.state
    BY <2>1 DEF SameButTimers
  <2>5. /\ r.clock = c.clock /\ r.pendingTimer = c.pendingTimer
        /\ r.timeoutTimer = c.timeoutTimer /\ r.cooldownTimer = c.cooldownTimer
        /\ r.rawInput = FALSE /\ r.inhibited = FALSE /\ r.cooldownUntil = 0
        /\ Retentive => /\ r.state = PendingActivation
                        /\ r.retAccumulated = sm.retAccumulated + sm.retStartedAt
        /\ ~Retentive => r.state = Inactive /\ r.retAccumulated = 0
    <3>1. CASE Retentive
      <4>1. r = PauseRetentive(q)
        BY <1>6, <3>1 DEF InputWhilePendingActivation
      <4>2. q.retStartedAt # NoTime
        BY <1>1, <2>0 DEF NoTime
      <4>3. r = [c EXCEPT !.retAccumulated = @ + q.retStartedAt, !.retStartedAt = NoTime]
        BY <4>1, <4>2 DEF PauseRetentive, c
      <4> HIDE DEF r
      <4> QED BY <1>1, <1>2, <1>6, <2>1, <2>4, <3>1, <4>3 DEF StateMachine
    <3>2. CASE ~Retentive
      <4>1. r = [c EXCEPT !.state = Inactive]
        BY <1>6, <3>2 DEF InputWhilePendingActivation, c
      <4> HIDE DEF r
      <4> QED BY <1>1, <1>2, <1>6, <2>1, <2>4, <3>2, <4>1 DEF StateMachine
    <3> QED BY <3>1, <3>2
  <2> HIDE DEF r
  <2>6. Calm(r) /\ Owned(r)
    BY <2>1, <2>5 DEF Calm, Owned, Fine
  <2>7. Left(r, o)
    BY <1>1, <1>2, <2>1, <2>2, <2>3, <2>4, <2>5 DEF Left, None, Unpending
  <2>8. ~Output(r)
    BY <2>5 DEF Output
  <2>9. Earned(r, o)
    BY <1>1, <1>2, <1>4, <2>0, <2>5, <2>8 DEF Earned
  <2> QED BY <2>6, <2>7, <2>8, <2>9 DEF Kept, o, Timely
<1> QED BY <1>5, <1>6 DEF q

\* An input edge that meets an active machine: a latched one ignores it, an
\* unlatched one is held for deactivate_after.
LEMMA InputActive ==
  ASSUME Found, NEW value \in BOOLEAN, sm.rawInput # value, sm.state = Active
  PROVE  Kept(InputWhileActive([sm EXCEPT !.rawInput = value], value))
<1> USE DEF Inactive, Active, PendingActivation, PendingDeactivation
<1> DEFINE q == [sm EXCEPT !.rawInput = value]
           r == InputWhileActive(q, value)
           o == Observed(r)
<1>1. /\ q \in StateMachine /\ Ready(q) /\ q.rawInput = value /\ q.state = Active
      /\ q.retAccumulated = sm.retAccumulated /\ q.cooldownUntil = sm.cooldownUntil
      /\ q.latched = sm.latched /\ q.clock = sm.clock
  BY NewInput
<1>2. /\ Output(sm) /\ sm.retAccumulated = 0 /\ Cooldown <= hist.quiet + sm.cooldownUntil
      /\ hist \in History /\ sm \in StateMachine /\ (~sm.latched => sm.rawInput)
      /\ (Latch => sm.latched) /\ (sm.latched => Latch)
  BY DEF Output, Found, Timely, Earned, TypeOK, Sound, Core
<1>3. /\ Unpending(q) /\ Fine(q)
      /\ \A i \in TimerIds : q.clock[i].fn = "onTimeoutTimer" => q.clock[i].left + hist.lit = Timeout
      /\ sm.latched => None(q, "onTimeoutTimer")
  <2>1. Unpending(q) /\ Fine(q)
    BY <1>1 DEF Found, Timely, Left, Unpending, None, Ready
  <2>2. \A i \in TimerIds : q.clock[i].fn = "onTimeoutTimer" => q.clock[i].left + hist.lit = Timeout
    BY <1>1 DEF Found, Timely, Left
  <2>3. sm.latched => None(q, "onTimeoutTimer")
    BY <1>1, <1>2 DEF Found, Sound, Core, None, Outstanding
  <2> QED BY <2>1, <2>2, <2>3
<1>4. /\ o \in History /\ o.held \in Nat /\ o.quiet \in Nat /\ o.lit \in Nat
      /\ Output(r) => o.quiet = hist.quiet
      /\ ~r.rawInput => o.lit = hist.lit
      /\ sm.rawInput /\ ~r.rawInput => o.low = 0
  <2>1. o \in History
    BY <1>2, ObservedFields
  <2>2. Output(r) => o.quiet = hist.quiet
    BY <1>2, ObservedFields
  <2>3. ~r.rawInput => o.lit = hist.lit
    BY <1>2, ObservedFields
  <2>4. sm.rawInput /\ ~r.rawInput => o.low = 0
    BY <1>2, ObservedFields
  <2> QED BY <2>1, <2>2, <2>3, <2>4 DEF History
<1> HIDE DEF q, o
<1>5. ASSUME sm.latched PROVE Kept(r)
  <2>1. /\ Calm(r) /\ Owned(r) /\ r.state = Active /\ r.latched /\ r.retAccumulated = 0
        /\ r.cooldownUntil = sm.cooldownUntil /\ Unpending(r) /\ None(r, "onTimeoutTimer")
        /\ Keeps(q, r, "onCooldownTimer")
    <3>1. CASE value
      <4>1. r = RestartTimeout(q)
        BY <3>1 DEF InputWhileActive
      <4> HIDE DEF r
      <4>2. /\ Calm(r) /\ Owned(r) /\ SameButTimers(q, r) /\ None(r, "onTimeoutTimer")
            /\ \A f \in Callback \ {"onTimeoutTimer"} : Keeps(q, r, f)
        BY <1>1, <1>3, <1>5, <4>1, RestartTimeoutTimers
      <4>3. Unpending(r) /\ Keeps(q, r, "onCooldownTimer")
        BY <1>3, <4>2 DEF Unpending, None, Keeps, Callback
      <4> QED BY <1>1, <1>2, <1>5, <4>2, <4>3 DEF SameButTimers
    <3>2. CASE ~value
      <4>1. r = q
        BY <1>1, <1>5, <3>2 DEF InputWhileActive
      <4> HIDE DEF r
      <4> QED BY <1>1, <1>2, <1>3, <1>5, <4>1 DEF Keeps, Ready, Fine
    <3> QED BY <3>1, <3>2
  <2> HIDE DEF r
  <2>2. Left(r, o)
    BY <1>1, <2>1 DEF Left, Unpending, None, Ready, Keeps
  <2>3. Output(r)
    BY <2>1 DEF Output
  <2>4. Earned(r, o)
    BY <1>2, <1>4, <2>1, <2>3 DEF Earned
  <2> QED BY <1>2, <2>1, <2>2, <2>4 DEF Kept, o, Timely
<1>6. ASSUME ~sm.latched PROVE Kept(r)
  <2>1. ~value
    <3>1. sm.rawInput /\ sm.rawInput \in BOOLEAN
      BY <1>2, <1>6 DEF StateMachine
    <3> QED BY <3>1
  <2>2. ~Latch /\ ~q.latched
    BY <1>1, <1>2, <1>6
  <2>3. CASE DeactivateAfter > 0
    <3>1. r = ArmDeactivation(q)
      BY <2>1, <2>2, <2>3 DEF InputWhileActive
    <3> HIDE DEF r
    <3>2. /\ Calm(r) /\ Owned(r) /\ r.state = PendingDeactivation
          /\ Armed(r, "onDeactivateTimer", DeactivateAfter)
          /\ \A f \in Callback \ {"onDeactivateTimer"} : Keeps(q, r, f)
          /\ r.rawInput = q.rawInput /\ r.retAccumulated = q.retAccumulated
          /\ r.cooldownUntil = q.cooldownUntil
      BY <1>3, <2>2, <3>1, ArmDeactivationTimers DEF Unpending
    <3>3. None(r, "onActivateTimer")
      BY <1>3, <3>2 DEF None, Keeps, Callback, Unpending
    <3>4. /\ \A i \in TimerIds :
               r.clock[i].fn = "onCooldownTimer" => r.clock[i].left = r.cooldownUntil
          /\ \A i \in TimerIds :
               r.clock[i].fn = "onTimeoutTimer" => r.clock[i].left + hist.lit = Timeout
      BY <1>1, <1>3, <3>2 DEF Ready, Keeps, Callback
    <3>5. Output(r)
      BY <3>2 DEF Output
    <3>6. ~r.rawInput /\ sm.rawInput
      BY <1>1, <1>2, <1>6, <2>1, <3>2
    <3>7. Left(r, o)
      BY <1>4, <3>2, <3>3, <3>4, <3>5, <3>6 DEF Left, None, Armed
    <3>8. Earned(r, o)
      BY <1>1, <1>2, <1>4, <3>2, <3>5 DEF Earned
    <3> QED BY <1>2, <3>2, <3>7, <3>8 DEF Kept, o, Timely
  <2>4. CASE ~(DeactivateAfter > 0)
    <3>1. r = BecomeInactive(q)
      BY <2>1, <2>2, <2>4 DEF InputWhileActive
    <3>2. Calm(r) /\ Timely(r, o)
      BY <1>1, <1>2, <1>3, <1>4, <3>1, InactivatedTimely
    <3> QED BY <1>2, <3>2 DEF Kept, o
  <2> QED BY <2>3, <2>4
<1> QED BY <1>5, <1>6 DEF q

\* An input edge that meets a pending deactivation re-asserts the machine and
\* starts its timeout anew.
LEMMA InputPendingDeactivation ==
  ASSUME Found, NEW value \in BOOLEAN, sm.rawInput # value, sm.state = PendingDeactivation
  PROVE  LET r == InputWhilePendingDeactivation([sm EXCEPT !.rawInput = value], value)
         IN  Kept(r)
<1> USE DEF Inactive, Active, PendingActivation, PendingDeactivation
<1> DEFINE q == [sm EXCEPT !.rawInput = value]
           c == CancelPending(q)
           a == [c EXCEPT !.state = Active]
           r == InputWhilePendingDeactivation(q, value)
           o == Observed(r)
<1>1. /\ q \in StateMachine /\ Ready(q) /\ q.rawInput = value
      /\ q.retAccumulated = sm.retAccumulated /\ q.cooldownUntil = sm.cooldownUntil
      /\ q.latched = sm.latched
  BY NewInput
<1>2. /\ Output(sm) /\ sm.retAccumulated = 0 /\ Cooldown <= hist.quiet + sm.cooldownUntil
      /\ hist \in History /\ ~sm.rawInput /\ ~Latch /\ sm.rawInput \in BOOLEAN
  BY DEF Output, Found, Timely, Earned, TypeOK, Sound, StateMachine
<1>3. value = TRUE
  BY <1>2
<1>4. r = RestartTimeout(a)
  BY <1>3 DEF InputWhilePendingDeactivation
<1>5. /\ o \in History /\ o.held \in Nat
      /\ Output(r) => o.quiet = hist.quiet
      /\ r.rawInput => o.lit = 0
  <2>1. o \in History
    BY <1>2, ObservedFields
  <2>2. Output(r) => o.quiet = hist.quiet
    BY <1>2, ObservedFields
  <2>3. r.rawInput => o.lit = 0
    BY <1>2, ObservedFields
  <2> QED BY <2>1, <2>2, <2>3 DEF History
<1> HIDE DEF q, o, r
<1>6. /\ Fine(c) /\ SameButTimers(q, c) /\ Unpending(c) /\ Keeps(q, c, "onCooldownTimer")
      /\ c \in StateMachine
  BY <1>1, CancelPendingTimers DEF Ready, Unpending, Fine, Core
<1> HIDE DEF c
<1>7. /\ a \in StateMachine /\ a.state = Active /\ a.rawInput = value /\ a.clock = c.clock
      /\ a.pendingTimer = c.pendingTimer /\ a.timeoutTimer = c.timeoutTimer
      /\ a.cooldownTimer = c.cooldownTimer /\ a.retAccumulated = 0
      /\ a.cooldownUntil = sm.cooldownUntil /\ a.cooldownUntil = c.cooldownUntil
      /\ a.latched = c.latched
  BY <1>1, <1>2, <1>6 DEF SameButTimers, StateMachine, State
<1> HIDE DEF a
<1>8. Fine(a)
  <2>1. a.latched => Latch
    BY <1>6, <1>7 DEF Fine, Core
  <2>2. Core(a) /\ FreeIds(a) # {}
    BY <1>6, <1>7, <2>1, CoreFields DEF Fine
  <2>3. Calm(a) /\ Owned(a)
    BY <1>6, <1>7 DEF Fine, Calm, Owned
  <2> QED BY <2>2, <2>3 DEF Fine
<1>9. /\ Calm(r) /\ Owned(r) /\ SameButTimers(a, r)
      /\ \A f \in Callback \ {"onTimeoutTimer"} : Keeps(a, r, f)
      /\ IF a.latched \/ Timeout = 0 THEN None(r, "onTimeoutTimer")
                                     ELSE Armed(r, "onTimeoutTimer", Timeout)
  BY <1>2, <1>4, <1>8, RestartTimeoutTimers
<1>10. Unpending(r)
  BY <1>6, <1>7, <1>9 DEF Unpending, None, Keeps, Callback
<1>11. /\ r.state = Active /\ r.rawInput /\ r.retAccumulated = 0
       /\ r.cooldownUntil = sm.cooldownUntil /\ r.latched = a.latched
  BY <1>3, <1>7, <1>9 DEF SameButTimers
<1>12. \A i \in TimerIds : r.clock[i].fn = "onCooldownTimer" => r.clock[i].left = r.cooldownUntil
  <2>1. \A i \in TimerIds : a.clock[i].fn = "onCooldownTimer" => a.clock[i].left = sm.cooldownUntil
    BY <1>1, <1>6, <1>7 DEF Ready, Keeps
  <2> QED BY <1>9, <1>11, <2>1 DEF Keeps, Callback
<1>13. \A i \in TimerIds : r.clock[i].fn = "onTimeoutTimer" => r.clock[i].left = Timeout
  BY <1>9 DEF None, Armed
<1>14. Output(r)
  BY <1>11 DEF Output
<1>15. Left(r, o)
  BY <1>5, <1>10, <1>11, <1>12, <1>13, <1>14 DEF Left, Unpending, None
<1>16. Earned(r, o)
  <2>1. ~r.latched /\ Timeout > 0 => Outstanding(r, "onTimeoutTimer") # {}
    BY <1>9, <1>11 DEF Armed, Outstanding
  <2> QED BY <1>2, <1>5, <1>11, <1>14, <2>1 DEF Earned
<1> QED BY <1>2, <1>9, <1>11, <1>15, <1>16 DEF Kept, o, Timely, q, r

\* onInputChangeLocked.
LEMMA InputTimely ==
  ASSUME Found, NEW value \in BOOLEAN, sm.rawInput # value
  PROVE  Kept(OnInputChange([sm EXCEPT !.rawInput = value], value))
<1> DEFINE q == [sm EXCEPT !.rawInput = value]
<1>1. q.state = sm.state /\ sm.state \in State
  BY NewInput DEF Found, TypeOK, StateMachine
<1>2. /\ sm.state = Inactive => OnInputChange(q, value) = InputWhileInactive(q, value)
      /\ sm.state = PendingActivation => OnInputChange(q, value) = InputWhilePendingActivation(q, value)
      /\ sm.state = Active => OnInputChange(q, value) = InputWhileActive(q, value)
      /\ sm.state = PendingDeactivation
           => OnInputChange(q, value) = InputWhilePendingDeactivation(q, value)
  <2> HIDE DEF q
  <2> QED BY <1>1 DEF OnInputChange, Inactive, PendingActivation, Active, PendingDeactivation
<1>3. \/ sm.state = Inactive \/ sm.state = PendingActivation
      \/ sm.state = Active \/ sm.state = PendingDeactivation
  BY <1>1 DEF State
<1> QED BY <1>2, <1>3, InputInactive, InputPendingActivation, InputActive, InputPendingDeactivation

\* A machine whose state, input and timers a section leaves as they were.
LEMMA UntouchedTimely ==
  ASSUME Found, NEW r, r.clock = sm.clock, r.state = sm.state, r.rawInput = sm.rawInput,
         r.latched = sm.latched, r.cooldownUntil = sm.cooldownUntil,
         r.retAccumulated = sm.retAccumulated, r.pendingTimer = sm.pendingTimer,
         r.timeoutTimer = sm.timeoutTimer, r.cooldownTimer = sm.cooldownTimer,
         sm.state # PendingActivation
  PROVE  Kept(r)
<1> DEFINE o == Observed(r)
<1>1. Output(r) = Output(sm) /\ hist \in History
  BY DEF Output, Found, TypeOK
<1>2. o \in History /\ o.quiet = hist.quiet /\ o.lit = hist.lit /\ o.low = hist.low
  <2>1. o \in History
    BY <1>1, ObservedFields
  <2>2. o.quiet = hist.quiet
    BY <1>1, ObservedFields
  <2>3. o.lit = hist.lit
    BY <1>1, ObservedFields
  <2>4. o.low = hist.low
    BY <1>1, ObservedFields
  <2> QED BY <2>1, <2>2, <2>3, <2>4
<1> HIDE DEF o
<1>3. Calm(r) /\ Owned(r)
  BY DEF Found, Timely, Calm, Owned
<1>4. Left(r, o)
  BY <1>1, <1>2 DEF Found, Timely, Left
<1>5. Earned(r, o)
  <2>1. o.held \in Nat
    BY <1>2 DEF History
  <2> QED BY <1>2, <2>1 DEF Found, Timely, Earned, Outstanding
<1> QED BY <1>1, <1>3, <1>4, <1>5 DEF Kept, o, Timely, Inactive, PendingDeactivation

\* SetInhibited, in both directions: taking inhibit off makes the input wait
\* for the whole of activate_after and of the cooldown again.
LEMMA InhibitTimely ==
  ASSUME Found, NEW v \in BOOLEAN, sm.inhibited # v
  PROVE  LET q == [sm EXCEPT !.inhibited = v]
         IN  Kept(IF v THEN Inhibit(q) ELSE Uninhibit(q))
<1> USE DEF Inactive, Active, PendingActivation, PendingDeactivation
<1> DEFINE q == [sm EXCEPT !.inhibited = v]
           r == IF v THEN Inhibit(q) ELSE Uninhibit(q)
           o == Observed(r)
<1>1. /\ sm \in StateMachine /\ Core(sm) /\ Owned(sm) /\ Calm(sm) /\ FreeIds(sm) # {}
      /\ hist \in History
  BY DEF Found, Sound, Core, Timely, TypeOK
<1>2. /\ q \in StateMachine /\ q.rawInput = sm.rawInput /\ q.state = sm.state
      /\ q.latched = sm.latched /\ q.inhibited = v /\ q.clock = sm.clock
      /\ q.retAccumulated = sm.retAccumulated /\ q.cooldownUntil = sm.cooldownUntil
      /\ q.pendingTimer = sm.pendingTimer /\ q.timeoutTimer = sm.timeoutTimer
      /\ q.cooldownTimer = sm.cooldownTimer
  BY <1>1 DEF StateMachine
<1> HIDE DEF q
<1>3. Ready(q)
  <2>1. q.latched => Latch
    BY <1>1, <1>2 DEF Core
  <2>2. Core(q) /\ FreeIds(q) # {}
    BY <1>1, <1>2, <2>1, CoreFields
  <2>3. Calm(q) /\ Owned(q)
    BY <1>1, <1>2 DEF Calm, Owned
  <2> QED BY <1>2, <2>2, <2>3 DEF Ready, Fine, Found, Timely, Left
<1>4. CASE r = q /\ sm.state # PendingActivation
  <2>1. Kept(q)
    BY <1>2, <1>4, UntouchedTimely
  <2> QED BY <1>4, <2>1 DEF q
<1>5. CASE v /\ sm.state = PendingActivation
  <2> DEFINE c == CancelPending(q)
  <2>1. /\ c \in StateMachine /\ Fine(c) /\ SameButTimers(q, c)
        /\ Unpending(c) /\ Keeps(q, c, "onTimeoutTimer") /\ Keeps(q, c, "onCooldownTimer")
    BY <1>3, CancelPendingTimers DEF Ready, Fine, Core, Unpending
  <2>2. r = [c EXCEPT !.retAccumulated = 0, !.retStartedAt = NoTime, !.state = Inactive]
    BY <1>2, <1>5 DEF Inhibit
  <2> HIDE DEF c, r
  <2>3. /\ r.clock = c.clock /\ r.pendingTimer = c.pendingTimer
        /\ r.timeoutTimer = c.timeoutTimer /\ r.cooldownTimer = c.cooldownTimer
        /\ r.state = Inactive /\ r.retAccumulated = 0 /\ r.cooldownUntil = c.cooldownUntil
    BY <2>1, <2>2 DEF StateMachine
  <2>4. None(c, "onTimeoutTimer")
    <3>1. None(q, "onTimeoutTimer")
      BY <1>2, <1>5 DEF Found, Timely, Left, None, Output
    <3> QED BY <2>1, <3>1 DEF None, Keeps
  <2>5. Left(r, o)
    BY <1>3, <2>1, <2>3, <2>4 DEF Left, Unpending, None, Keeps, Ready, SameButTimers
  <2>6. ~Output(sm) /\ ~Output(r)
    BY <1>5, <2>3 DEF Output
  <2>7. o \in History /\ o.quiet = hist.quiet
    <3>1. o \in History
      BY <1>1, ObservedFields
    <3>2. o.quiet = hist.quiet
      BY <1>1, <2>6, ObservedFields
    <3> QED BY <3>1, <3>2
  <2>8. Earned(r, o)
    <3>1. o.held \in Nat /\ Cooldown <= hist.quiet + sm.cooldownUntil
      BY <2>7 DEF History, Found, Timely, Earned
    <3>2. r.cooldownUntil = sm.cooldownUntil
      BY <1>2, <2>1, <2>3 DEF SameButTimers
    <3> QED BY <2>3, <2>7, <3>1, <3>2 DEF Earned
  <2>9. Calm(r) /\ Owned(r)
    BY <2>1, <2>3 DEF Calm, Owned, Fine
  <2>10. Kept(r)
    BY <1>5, <2>5, <2>6, <2>8, <2>9 DEF Kept, o, Timely
  <2> QED BY <2>10 DEF r, q
<1>6. CASE ~v /\ sm.state = Inactive /\ sm.rawInput
  <2>1. r = TryActivate(q)
    BY <1>2, <1>6 DEF Uninhibit
  <2>2. ~Output(sm) /\ sm.retAccumulated = 0 /\ Cooldown <= hist.quiet + sm.cooldownUntil
    BY <1>6 DEF Output, Found, Timely, Earned
  <2>3. Unpending(q) /\ None(q, "onTimeoutTimer")
    BY <1>2, <1>6, <2>2 DEF Found, Timely, Left, Unpending, None
  <2>4. /\ o \in History /\ o.quiet = hist.quiet /\ (Output(r) => o.lit = 0)
        /\ hist.held \in Nat /\ hist.quiet \in Nat
    <3>1. o \in History
      BY <1>1, ObservedFields
    <3>2. o.quiet = hist.quiet /\ (Output(r) => o.lit = 0)
      BY <1>1, <2>2, ObservedFields
    <3> QED BY <1>1, <3>1, <3>2 DEF History
  <2> HIDE DEF o
  <2>5. Calm(r) /\ Timely(r, o) /\ (Output(r) => ActivateAfter = 0 /\ q.cooldownUntil = 0)
    <3> HIDE DEF r
    <3> QED BY <1>2, <1>3, <1>6, <2>1, <2>2, <2>3, <2>4, TryActivateTimely
  <2>6. Kept(r)
    BY <1>2, <1>6, <2>2, <2>4, <2>5 DEF Kept, o
  <2> QED BY <2>6 DEF q
<1>7. \/ r = q /\ sm.state # PendingActivation
      \/ v /\ sm.state = PendingActivation
      \/ ~v /\ sm.state = Inactive /\ sm.rawInput
  <2>1. v => r = IF sm.state = PendingActivation THEN r ELSE q
    BY <1>2 DEF Inhibit
  <2>2. ~v => r = IF sm.state = Inactive /\ sm.rawInput THEN r ELSE q
    BY <1>2 DEF Uninhibit
  <2>3. ~v => sm.state # PendingActivation
    <3>1. sm.inhibited \in BOOLEAN
      BY <1>1 DEF StateMachine
    <3>2. ~v => sm.inhibited
      BY <3>1
    <3> QED BY <3>2 DEF Found, Sound
  <2> HIDE DEF r
  <2> QED BY <2>1, <2>2, <2>3
<1> QED BY <1>4, <1>5, <1>6, <1>7

\* Clear stops what is pending and the timeout, and leaves the cooldown alone.
LEMMA ClearTimely ==
  ASSUME TypeOK, Sound(sm), Timely(sm, hist), Calm(sm), Clear
  PROVE  Timely(sm', hist')
<1> USE DEF Inactive, Active, PendingActivation, PendingDeactivation
<1> DEFINE p == CancelPending(sm)
           c == CancelTimeout(p)
           r == Cleared(sm)
<1>1. sm \in StateMachine /\ Core(sm) /\ Owned(sm) /\ hist \in History
  BY DEF TypeOK, Sound, Timely
<1>2. /\ Core(p) /\ SameButTimers(sm, p) /\ p.pendingTimer = NoTimer
      /\ p.timeoutTimer = sm.timeoutTimer /\ p.cooldownTimer = sm.cooldownTimer
  BY <1>1, CancelPendingCore
<1>3. p.clock = Stopped(sm, sm.pendingTimer) /\ p \in StateMachine
  BY <1>1, <1>2 DEF CancelPending, StateMachine, Core
<1>4. \A i \in TimerIds : p.clock[i] = IF i = sm.pendingTimer THEN Idle ELSE sm.clock[i]
  BY <1>1, <1>3, CalmStop
<1>5. Idle.fn = "none" /\ Idle.phase = "idle"
  BY DEF Idle
<1>6. Calm(p)
  BY <1>4, <1>5 DEF Calm
<1>7. r = [c EXCEPT !.latched = FALSE, !.retAccumulated = 0, !.retStartedAt = NoTime,
                    !.rawInput = FALSE, !.state = Inactive]
  BY DEF Cleared
<1> HIDE DEF p, r
<1>8. /\ c \in StateMachine /\ SameButTimers(p, c) /\ c.timeoutTimer = NoTimer
      /\ c.pendingTimer = p.pendingTimer /\ c.cooldownTimer = p.cooldownTimer
  BY <1>2, CancelTimeoutCore DEF Core
<1>9. c.clock = Stopped(p, p.timeoutTimer)
  BY <1>3 DEF CancelTimeout, StateMachine
<1>10. \A i \in TimerIds : c.clock[i] = IF i = p.timeoutTimer THEN Idle ELSE p.clock[i]
  BY <1>3, <1>6, <1>9, CalmStop
<1> HIDE DEF c
<1>11. /\ r.clock = c.clock /\ r.state = Inactive /\ r.retAccumulated = 0
       /\ r.cooldownUntil = sm.cooldownUntil /\ r.cooldownTimer = sm.cooldownTimer
  BY <1>2, <1>7, <1>8 DEF StateMachine, SameButTimers
<1>12. \A i \in TimerIds : r.clock[i] = IF i \in {sm.pendingTimer, sm.timeoutTimer}
                                          THEN Idle ELSE sm.clock[i]
  BY <1>2, <1>4, <1>10, <1>11
<1>13. \A i \in TimerIds :
         r.clock[i].fn \notin {"onActivateTimer", "onDeactivateTimer", "onTimeoutTimer"}
  BY <1>1, <1>5, <1>12 DEF Owned
<1>14. sm' = r /\ hist' = [Observed(r) EXCEPT !.held = 0, !.quiet = hist.quiet]
  BY DEF Clear, Unlock, r
<1>15. hist'.held = 0 /\ hist'.quiet = hist.quiet
  <2>1. Observed(r) \in History
    BY <1>1, ObservedFields
  <2> QED BY <1>14, <2>1 DEF History
<1>16. Owned(r)
  BY <1>1, <1>5, <1>11, <1>12, <1>13 DEF Owned
<1>17. Left(r, hist')
  BY <1>5, <1>11, <1>12, <1>13 DEF Left, Timely
<1>18. Earned(r, hist')
  BY <1>11, <1>15 DEF Earned, Timely
<1> QED BY <1>14, <1>16, <1>17, <1>18 DEF Timely

-----------------------------------------------------------------------------
(* The callbacks.                                                          *)

\* A callback gets the lock: its timer is gone, no other callback waits, and
\* it runs when its delay is over.
LEMMA CallbackReady ==
  ASSUME DelayInv, NEW i \in TimerIds, NEW f \in Callback, Enter(i, f)
  PROVE  LET p == Ran(i)
         IN  /\ p \in StateMachine /\ Ready(p) /\ None(p, f)
             /\ \A g \in Callback \ {f} : Keeps(sm, p, g)
             /\ SameButTimers(sm, p) /\ p.pendingTimer = sm.pendingTimer
             /\ p.timeoutTimer = sm.timeoutTimer /\ p.cooldownTimer = sm.cooldownTimer
             /\ sm.clock[i].fn = f /\ sm.clock[i].left = 0
<1> DEFINE p == Ran(i)
<1>1. /\ sm \in StateMachine /\ TypeOK /\ Sound(sm) /\ Owned(sm) /\ Timely(sm, hist)
      /\ sm.clock[i].fn = f /\ sm.clock[i].phase = "launched" /\ FreeIds(p) # {}
  BY DEF DelayInv, IndInv, TypeOK, Timely, Enter
<1>2. sm.clock[i].left = 0
  <2>1. sm.clock[i] \in Timer
    BY <1>1 DEF StateMachine
  <2> QED BY <1>1, <2>1 DEF Timer, Idle
<1>3. Used(sm, i, f, p)
  BY <1>1, RanUsed
<1>4. /\ p \in StateMachine /\ SameButTimers(sm, p) /\ p.pendingTimer = sm.pendingTimer
      /\ p.timeoutTimer = sm.timeoutTimer /\ p.cooldownTimer = sm.cooldownTimer
  BY <1>3 DEF Used
<1>5. \A j \in TimerIds : p.clock[j] = IF j = i THEN Idle ELSE sm.clock[j]
  BY <1>1 DEF Ran, StateMachine
<1> HIDE DEF p
<1>6. Idle.fn = "none" /\ Idle.phase = "idle" /\ "none" \notin Callback
  BY DEF Idle, Callback
<1>7. Calm(p)
  BY <1>1, <1>5, <1>6 DEF Calm, DelayInv, OneEvent
<1>8. Owned(p)
  BY <1>1, <1>4, <1>5, <1>6 DEF Owned
<1>9. \A g \in Callback \ {f} : Keeps(sm, p, g)
  BY <1>1, <1>5, <1>6 DEF Keeps
<1>10. None(p, f)
  <2>1. \A j \in TimerIds : sm.clock[j].fn = f => j = i
    BY <1>1 DEF Owned, Callback
  <2> QED BY <1>5, <1>6, <2>1 DEF None
<1>11. \A j \in TimerIds : p.clock[j].fn = "onCooldownTimer" => p.clock[j].left = p.cooldownUntil
  BY <1>1, <1>4, <1>5, <1>6 DEF Timely, Left, SameButTimers
<1>12. Core(p)
  <2>1. CASE f # "onCooldownTimer"
    BY <1>1, <1>3, <2>1, UsedCore
  <2>2. CASE f = "onCooldownTimer"
    <3>1. p.cooldownUntil = 0
      BY <1>1, <1>2, <1>4, <2>2 DEF Timely, Left, SameButTimers
    <3> QED BY <1>1, <1>3, <2>2, <3>1 DEF Sound, Core, Used, SameButTimers, Callback
  <2> QED BY <2>1, <2>2
<1> QED BY <1>1, <1>2, <1>4, <1>7, <1>8, <1>9, <1>10, <1>11, <1>12 DEF Ready, Fine, p

\* A handle is dropped whose timers are gone.
LEMMA DropHandle ==
  ASSUME NEW p, Ready(p), NEW r \in StateMachine, r.clock = p.clock, r.latched = p.latched,
         r.cooldownUntil = p.cooldownUntil, r.cooldownTimer = p.cooldownTimer,
         \/ r.pendingTimer = p.pendingTimer
         \/ r.pendingTimer = NoTimer /\ Unpending(p),
         \/ r.timeoutTimer = p.timeoutTimer
         \/ r.timeoutTimer = NoTimer /\ None(p, "onTimeoutTimer")
  PROVE  Ready(r)
<1>1. Core(p) /\ Calm(p) /\ Owned(p) /\ FreeIds(p) # {}
  BY DEF Ready, Fine
<1>2. r.latched => Latch
  BY <1>1 DEF Core
<1>3. Core(r) /\ FreeIds(r) # {}
  BY <1>1, <1>2, CoreFields
<1>4. Calm(r)
  BY <1>1 DEF Calm
<1>5. Owned(r)
  BY <1>1 DEF Owned, Unpending, None
<1> QED BY <1>3, <1>4, <1>5 DEF Ready, Fine

\* onActivateTimer finds the activation it was armed for still pending.
LEMMA ActivateTimely ==
  ASSUME DelayInv, NEW i \in TimerIds, Enter(i, "onActivateTimer")
  PROVE  Kept(ActivateFired(Ran(i)))
<1> USE DEF Inactive, Active, PendingActivation, PendingDeactivation
<1> DEFINE p == Ran(i)
           q == [p EXCEPT !.pendingTimer = NoTimer]
           r == ActivateFired(p)
           o == Observed(r)
<1>1. "onActivateTimer" \in Callback
  BY DEF Callback
<1>2. /\ p \in StateMachine /\ Ready(p) /\ None(p, "onActivateTimer")
      /\ \A g \in Callback \ {"onActivateTimer"} : Keeps(sm, p, g)
      /\ SameButTimers(sm, p) /\ sm.clock[i].fn = "onActivateTimer" /\ sm.clock[i].left = 0
  BY <1>1, CallbackReady
<1>3. /\ sm.state = PendingActivation /\ sm.rawInput /\ sm.cooldownUntil = 0
      /\ sm.retAccumulated + sm.retStartedAt = ActivateAfter
      /\ sm.retAccumulated + sm.retStartedAt <= hist.held
      /\ Cooldown <= hist.quiet /\ hist \in History /\ ~Output(sm)
  <2>1. sm.retAccumulated \in Nat /\ hist \in History
    BY DEF DelayInv, IndInv, TypeOK, StateMachine
  <2>2. sm.state = PendingActivation /\ sm.rawInput
    BY <1>2 DEF DelayInv, Timely, Left
  <2>3. /\ sm.cooldownUntil = 0 /\ sm.retStartedAt \in Nat
        /\ sm.retAccumulated + sm.retStartedAt <= hist.held
    BY <2>2 DEF DelayInv, Timely, Earned
  <2>4. sm.retAccumulated + sm.retStartedAt = ActivateAfter
    BY <1>2, <2>1, <2>3 DEF DelayInv, Timely, Left
  <2>5. Cooldown <= hist.quiet
    BY <2>1, <2>3 DEF DelayInv, Timely, Earned, History
  <2> QED BY <2>1, <2>2, <2>3, <2>4, <2>5 DEF Output
<1>4. None(sm, "onDeactivateTimer")
  BY <1>3 DEF DelayInv, Timely, Left, None
<1>5. Unpending(p)
  BY <1>2, <1>4 DEF Unpending, None, Keeps, Callback
<1>6. r = BecomeActive(q)
  BY <1>2, <1>3 DEF ActivateFired, SameButTimers
<1> HIDE DEF p
<1>7. /\ q \in StateMachine /\ q.clock = p.clock /\ q.pendingTimer = NoTimer
      /\ q.timeoutTimer = p.timeoutTimer /\ q.cooldownTimer = p.cooldownTimer
      /\ q.latched = p.latched /\ q.cooldownUntil = p.cooldownUntil /\ q.rawInput = p.rawInput
  BY <1>2 DEF StateMachine
<1> HIDE DEF q
<1>8. Ready(q) /\ Unpending(q)
  BY <1>2, <1>5, <1>7, DropHandle DEF Unpending, None
<1>9. q.rawInput /\ q.cooldownUntil = 0
  BY <1>2, <1>3, <1>7 DEF SameButTimers
<1> HIDE DEF r
<1>10. Output(r) /\ r.state = Active
  BY <1>6, <1>8, BecomeActiveTimers DEF Output, Ready
<1>11. o \in History /\ o.quiet = hist.quiet /\ o.lit = 0 /\ hist.quiet \in Nat
  <2>1. o \in History
    BY <1>3, ObservedFields
  <2>2. o.quiet = hist.quiet
    BY <1>3, ObservedFields
  <2>3. o.lit = 0
    BY <1>3, <1>10, ObservedFields
  <2> QED BY <1>3, <2>1, <2>2, <2>3 DEF History
<1> HIDE DEF o
<1>12. Calm(r) /\ Timely(r, o)
  BY <1>3, <1>6, <1>8, <1>9, <1>11, ActivatedTimely
<1> QED BY <1>3, <1>10, <1>12 DEF Kept, o, r, p

\* onDeactivateTimer ends the hold when it is over.
LEMMA DeactivateTimely ==
  ASSUME DelayInv, NEW i \in TimerIds, Enter(i, "onDeactivateTimer")
  PROVE  Kept(DeactivateFired(Ran(i)))
<1> USE DEF Inactive, Active, PendingActivation, PendingDeactivation
<1> DEFINE p == Ran(i)
           q == [p EXCEPT !.pendingTimer = NoTimer]
           r == DeactivateFired(p)
           o == Observed(r)
<1>1. "onDeactivateTimer" \in Callback
  BY DEF Callback
<1>2. /\ p \in StateMachine /\ Ready(p) /\ None(p, "onDeactivateTimer")
      /\ \A g \in Callback \ {"onDeactivateTimer"} : Keeps(sm, p, g)
      /\ SameButTimers(sm, p) /\ sm.clock[i].fn = "onDeactivateTimer" /\ sm.clock[i].left = 0
  BY <1>1, CallbackReady
<1>3. hist \in History /\ hist.low \in Nat
  BY DEF DelayInv, IndInv, TypeOK, History
<1>4. /\ sm.state = PendingDeactivation /\ hist.low = DeactivateAfter
      /\ sm.retAccumulated = 0 /\ Output(sm)
  BY <1>2, <1>3 DEF DelayInv, Timely, Left, Earned, Output
<1>5. None(sm, "onActivateTimer")
  BY <1>4 DEF DelayInv, Timely, Left, None
<1>6. Unpending(p)
  BY <1>2, <1>5 DEF Unpending, None, Keeps, Callback
<1>7. r = BecomeInactive(q)
  BY <1>2, <1>4 DEF DeactivateFired, SameButTimers
<1> HIDE DEF p
<1>8. /\ q \in StateMachine /\ q.clock = p.clock /\ q.pendingTimer = NoTimer
      /\ q.timeoutTimer = p.timeoutTimer /\ q.cooldownTimer = p.cooldownTimer
      /\ q.latched = p.latched /\ q.cooldownUntil = p.cooldownUntil
      /\ q.retAccumulated = 0
  BY <1>2, <1>4 DEF StateMachine, SameButTimers
<1> HIDE DEF q, r
<1>9. Ready(q) /\ Unpending(q)
  BY <1>2, <1>6, <1>8, DropHandle DEF Unpending, None
<1>10. o \in History
  BY <1>3, ObservedFields
<1>11. Calm(r) /\ Timely(r, o)
  BY <1>7, <1>8, <1>9, <1>10, InactivatedTimely
<1> QED BY <1>4, <1>11 DEF Kept, r, p

\* onTimeoutTimer ends an active period; a hold it leaves alone.
LEMMA TimeoutTimely ==
  ASSUME DelayInv, NEW i \in TimerIds, Enter(i, "onTimeoutTimer")
  PROVE  Kept(TimeoutFired(Ran(i)))
<1> USE DEF Inactive, Active, PendingActivation, PendingDeactivation
<1> DEFINE p == Ran(i)
           q == [p EXCEPT !.timeoutTimer = NoTimer]
           r == TimeoutFired(p)
           o == Observed(r)
<1>1. "onTimeoutTimer" \in Callback
  BY DEF Callback
<1>2. /\ p \in StateMachine /\ Ready(p) /\ None(p, "onTimeoutTimer")
      /\ \A g \in Callback \ {"onTimeoutTimer"} : Keeps(sm, p, g)
      /\ SameButTimers(sm, p) /\ sm.clock[i].fn = "onTimeoutTimer" /\ sm.clock[i].left = 0
  BY <1>1, CallbackReady
<1>3. hist \in History /\ Output(sm) /\ sm.retAccumulated = 0
      /\ Cooldown <= hist.quiet + sm.cooldownUntil /\ sm.state # PendingActivation
  BY <1>2 DEF DelayInv, IndInv, TypeOK, Timely, Left, Earned, Output
<1>4. o \in History
  BY <1>3, ObservedFields
<1>5. CASE sm.state = Active
  <2>1. Unpending(sm)
    BY <1>5 DEF DelayInv, Timely, Left, None, Unpending
  <2>2. Unpending(p)
    BY <1>2, <2>1 DEF Unpending, None, Keeps, Callback
  <2>3. r = [BecomeInactive(q) EXCEPT !.rawInput = FALSE]
    BY <1>2, <1>5 DEF TimeoutFired, SameButTimers
  <2> HIDE DEF p
  <2>4. /\ q \in StateMachine /\ q.clock = p.clock /\ q.pendingTimer = p.pendingTimer
        /\ q.timeoutTimer = NoTimer /\ q.cooldownTimer = p.cooldownTimer
        /\ q.latched = p.latched /\ q.cooldownUntil = p.cooldownUntil
        /\ q.retAccumulated = 0
    BY <1>2, <1>3 DEF StateMachine, SameButTimers
  <2> HIDE DEF q, r, o
  <2>5. Ready(q) /\ Unpending(q)
    BY <1>2, <2>2, <2>4, DropHandle DEF Unpending, None
  <2>6. Calm(r) /\ Timely(r, o)
    BY <1>4, <2>3, <2>4, <2>5, InactivatedTimely
  <2>7. Kept(r)
    BY <1>3, <1>5, <2>6 DEF Kept, o
  <2> QED BY <2>7 DEF r, p
<1>6. CASE sm.state # Active
  <2>1. r = p /\ r.state = PendingDeactivation
    BY <1>2, <1>3, <1>6 DEF TimeoutFired, SameButTimers, Output
  <2> HIDE DEF p, r
  <2>2. /\ r.rawInput = sm.rawInput /\ r.retAccumulated = 0 /\ Output(r)
        /\ r.cooldownUntil = sm.cooldownUntil
    BY <1>2, <1>3, <2>1 DEF SameButTimers, Output
  <2>3. o.quiet = hist.quiet /\ o.low = hist.low /\ o.held \in Nat
    <3>1. o.quiet = hist.quiet
      BY <1>3, <2>2, ObservedFields
    <3>2. o.low = hist.low
      BY <1>3, <2>2, ObservedFields
    <3> QED BY <1>4, <3>1, <3>2 DEF History
  <2> HIDE DEF o
  <2>4. sm.state = PendingDeactivation
    BY <1>2, <2>1 DEF SameButTimers
  <2>5. None(p, "onActivateTimer")
    BY <1>2, <2>4 DEF DelayInv, Timely, Left, None, Keeps, Callback
  <2>6. \A j \in TimerIds : p.clock[j].fn = "onDeactivateTimer" => p.clock[j].left + o.low = DeactivateAfter
    BY <1>2, <2>3 DEF DelayInv, Timely, Left, Keeps, Callback
  <2>7. Left(r, o)
    BY <1>2, <2>1, <2>5, <2>6 DEF Left, None, Ready
  <2>8. Earned(r, o)
    BY <1>3, <2>1, <2>2, <2>3 DEF Earned
  <2>9. Calm(r) /\ Owned(r)
    BY <1>2, <2>1 DEF Ready, Fine
  <2>10. Kept(r)
    BY <1>3, <2>1, <2>7, <2>8, <2>9 DEF Kept, Timely, o
  <2> QED BY <2>10 DEF r, p
<1> QED BY <1>5, <1>6

\* onCooldownTimer runs when the window is over, and takes up an input that
\* waited for it.
LEMMA CooldownTimely ==
  ASSUME DelayInv, NEW i \in TimerIds, Enter(i, "onCooldownTimer")
  PROVE  Kept(CooldownFired(Ran(i)))
<1> USE DEF Inactive, Active, PendingActivation, PendingDeactivation
<1> DEFINE p == Ran(i)
           q == [p EXCEPT !.cooldownTimer = NoTimer, !.cooldownUntil = 0]
           r == CooldownFired(p)
           o == Observed(r)
<1>1. "onCooldownTimer" \in Callback
  BY DEF Callback
<1>2. /\ p \in StateMachine /\ Ready(p) /\ None(p, "onCooldownTimer")
      /\ \A g \in Callback \ {"onCooldownTimer"} : Keeps(sm, p, g)
      /\ SameButTimers(sm, p) /\ p.pendingTimer = sm.pendingTimer
      /\ p.timeoutTimer = sm.timeoutTimer
      /\ sm.clock[i].fn = "onCooldownTimer" /\ sm.clock[i].left = 0
  BY <1>1, CallbackReady
<1>3. /\ hist \in History /\ sm.cooldownUntil = 0 /\ Cooldown <= hist.quiet
      /\ hist.quiet \in Nat /\ hist.held \in Nat
  <2>1. sm.cooldownUntil = 0
    BY <1>2 DEF DelayInv, Timely, Left
  <2>2. hist \in History /\ hist.quiet \in Nat /\ hist.held \in Nat
    BY DEF DelayInv, IndInv, TypeOK, History
  <2> QED BY <2>1, <2>2 DEF DelayInv, Timely, Earned
<1>4. r = Uninhibit(q)
  BY DEF CooldownFired
<1> HIDE DEF p
<1>5. /\ q \in StateMachine /\ q.clock = p.clock /\ q.pendingTimer = p.pendingTimer
      /\ q.timeoutTimer = p.timeoutTimer /\ q.cooldownTimer = NoTimer
      /\ q.latched = sm.latched /\ q.cooldownUntil = 0 /\ q.state = sm.state
      /\ q.rawInput = sm.rawInput /\ q.inhibited = sm.inhibited
      /\ q.retAccumulated = sm.retAccumulated /\ q.retStartedAt = sm.retStartedAt
      /\ p.latched = sm.latched
  BY <1>2 DEF StateMachine, SameButTimers
<1> HIDE DEF q, r
<1>6. Ready(q)
  <2>1. Core(p) /\ Calm(p) /\ Owned(p) /\ FreeIds(p) # {}
    BY <1>2 DEF Ready, Fine
  <2>2. \A f \in Callback : Outstanding(q, f) = Outstanding(p, f)
    BY <1>5 DEF Outstanding
  <2>3. HandleKinds(q)
    BY <1>5, <2>1 DEF HandleKinds, Core
  <2>4. Core(q)
    BY <1>5, <2>1, <2>2, <2>3 DEF Core, Callback
  <2>5. FreeIds(q) # {}
    BY <1>5, <2>1 DEF FreeIds, Handles
  <2>6. Calm(q) /\ Owned(q)
    BY <1>2, <1>5, <2>1 DEF Calm, Owned, None
  <2> QED BY <1>2, <1>5, <2>4, <2>5, <2>6 DEF Ready, Fine, None
<1>7. CASE sm.state = Inactive /\ sm.rawInput
  <2>1. r = TryActivate(q)
    BY <1>4, <1>5, <1>7 DEF Uninhibit
  <2>2. ~Output(sm) /\ sm.retAccumulated = 0
    BY <1>7 DEF Output, DelayInv, Timely, Earned
  <2>3. Unpending(sm) /\ None(sm, "onTimeoutTimer")
    BY <1>7, <2>2 DEF DelayInv, Timely, Left, Unpending, None
  <2>4. Unpending(q) /\ None(q, "onTimeoutTimer")
    BY <1>2, <1>5, <2>3 DEF Unpending, None, Keeps, Callback
  <2>5. o \in History /\ o.quiet = hist.quiet /\ (Output(r) => o.lit = 0)
    <3>1. o \in History
      BY <1>3, ObservedFields
    <3>2. o.quiet = hist.quiet /\ (Output(r) => o.lit = 0)
      BY <1>3, <2>2, ObservedFields
    <3> QED BY <3>1, <3>2
  <2> HIDE DEF o
  <2>6. Calm(r) /\ Timely(r, o) /\ (Output(r) => ActivateAfter = 0)
    <3>1. Cooldown <= o.quiet + q.cooldownUntil
      BY <1>3, <1>5, <2>5
    <3> QED BY <1>5, <1>6, <1>7, <2>1, <2>2, <2>4, <2>5, <3>1, TryActivateTimely
  <2>7. Kept(r)
    BY <1>3, <1>7, <2>6 DEF Kept, o
  <2> QED BY <2>7 DEF r, p
<1>8. CASE ~(sm.state = Inactive /\ sm.rawInput)
  <2>1. r = q
    BY <1>4, <1>5, <1>8 DEF Uninhibit
  <2>2. Output(r) = Output(sm)
    BY <1>5, <2>1 DEF Output
  <2>3. /\ o \in History /\ o.quiet = hist.quiet /\ o.lit = hist.lit /\ o.low = hist.low
        /\ o.held = IF Output(r) \/ r.inhibited \/ (~r.rawInput /\ ~Retentive)
                      THEN 0 ELSE hist.held
    <3>1. o \in History
      BY <1>3, ObservedFields
    <3>2. o.quiet = hist.quiet
      BY <1>3, <2>2, ObservedFields
    <3>3. o.lit = hist.lit
      BY <1>3, <1>5, <2>1, <2>2, ObservedFields
    <3>4. o.low = hist.low
      BY <1>3, <1>5, <2>1, <2>2, ObservedFields
    <3>5. o.held = IF Output(r) \/ r.inhibited \/ (~r.rawInput /\ ~Retentive)
                     THEN 0 ELSE hist.held
      BY <1>3, ObservedFields
    <3> QED BY <3>1, <3>2, <3>3, <3>4, <3>5
  <2> HIDE DEF o
  <2>4. Calm(r) /\ Owned(r)
    BY <1>6, <2>1 DEF Ready, Fine
  <2>5. \A j \in TimerIds : q.clock[j].fn \in Callback \ {"onCooldownTimer"}
          => q.clock[j] = sm.clock[j]
    BY <1>2, <1>5 DEF Keeps
  <2>6. Left(r, o)
    BY <1>2, <1>5, <2>1, <2>2, <2>3, <2>5 DEF Left, DelayInv, Timely, None, Callback
  <2>7. sm.state = PendingActivation => ~sm.inhibited /\ (~sm.rawInput => Retentive)
    BY DEF DelayInv, IndInv, Sound
  <2>8. Outstanding(q, "onTimeoutTimer") = Outstanding(sm, "onTimeoutTimer")
    BY <1>2, <1>5 DEF Outstanding, Keeps, Callback
  <2>9. sm.state = PendingActivation => o.held = hist.held
    BY <1>5, <2>1, <2>2, <2>3, <2>7 DEF Output
  <2>10. Earned(r, o)
    <3>1. Earned(sm, hist) /\ o.held \in Nat
      BY <2>3 DEF DelayInv, Timely, History
    <3> QED BY <1>3, <1>5, <2>1, <2>3, <2>8, <2>9, <3>1 DEF Earned
  <2>11. Kept(r)
    BY <1>5, <2>1, <2>2, <2>4, <2>6, <2>10 DEF Kept, Timely, o
  <2> QED BY <2>11 DEF r, p
<1> QED BY <1>7, <1>8

-----------------------------------------------------------------------------
(* Time and the scheduling of callbacks.                                   *)

\* A tick takes one from what every timer has left and adds one to what has
\* been observed; no timer is due, so neither passes the delay.
LEMMA TickTimely ==
  ASSUME DelayInv, Tick, Calm(sm)
  PROVE  Timely(sm', hist') /\ Calm(sm')
<1> USE DEF Inactive, Active, PendingActivation, PendingDeactivation
<1> DEFINE k == [i \in TimerIds |->
                   IF sm.clock[i].phase = "armed"
                     THEN [sm.clock[i] EXCEPT !.left = @ - 1] ELSE sm.clock[i]]
           cd == IF sm.cooldownUntil = 0 THEN 0 ELSE sm.cooldownUntil - 1
           ret == IF sm.retStartedAt \in {NoTime, ActivateAfter}
                    THEN sm.retStartedAt ELSE sm.retStartedAt + 1
<1>1. sm \in StateMachine /\ Sound(sm) /\ Timely(sm, hist) /\ hist \in History
  BY DEF DelayInv, IndInv, TypeOK
<1>2. \A i \in TimerIds :
        /\ k[i].fn = sm.clock[i].fn /\ k[i].phase = sm.clock[i].phase
        /\ k[i].fn \in Callback =>
             sm.clock[i].left \in Nat \ {0} /\ k[i].left = sm.clock[i].left - 1
  <2> SUFFICES ASSUME NEW i \in TimerIds
               PROVE  /\ k[i].fn = sm.clock[i].fn /\ k[i].phase = sm.clock[i].phase
                      /\ k[i].fn \in Callback =>
                           sm.clock[i].left \in Nat \ {0} /\ k[i].left = sm.clock[i].left - 1
    OBVIOUS
  <2>1. sm.clock[i] \in Timer /\ sm.clock[i].phase # "launched"
    BY <1>1 DEF StateMachine, Calm
  <2>2. CASE sm.clock[i].phase = "armed"
    <3>1. sm.clock[i] \in [fn : Callback, phase : {"armed"}, left : Nat]
      BY <2>1, <2>2 DEF Timer, Idle
    <3>2. sm.clock[i].left \in Nat \ {0}
      BY <2>2, <3>1 DEF Tick, Due
    <3> QED BY <2>2, <3>1, <3>2
  <2>3. CASE sm.clock[i].phase # "armed"
    <3>1. sm.clock[i] = Idle
      BY <2>1, <2>3 DEF Timer
    <3> QED BY <2>3, <3>1 DEF Idle, Callback
  <2> QED BY <2>2, <2>3
<1>3. sm' = [sm EXCEPT !.clock = k, !.cooldownUntil = cd, !.retStartedAt = ret]
  BY DEF Tick
<1> HIDE DEF k, cd, ret
<1>4. /\ sm'.clock = k /\ sm'.cooldownUntil = cd /\ sm'.retStartedAt = ret
      /\ sm'.state = sm.state /\ sm'.rawInput = sm.rawInput /\ sm'.latched = sm.latched
      /\ sm'.retAccumulated = sm.retAccumulated
      /\ sm'.pendingTimer = sm.pendingTimer /\ sm'.timeoutTimer = sm.timeoutTimer
      /\ sm'.cooldownTimer = sm.cooldownTimer
  BY <1>1, <1>3 DEF StateMachine
<1>5. /\ hist'.held = IF sm.rawInput /\ ~sm.inhibited /\ ~Output(sm)
                        THEN Aged(hist.held, ActivateAfter) ELSE hist.held
      /\ hist'.quiet = Aged(hist.quiet, Cooldown)
      /\ hist'.lit = Aged(hist.lit, Timeout) /\ hist'.low = Aged(hist.low, DeactivateAfter)
  BY DEF Tick
<1>6. /\ hist.held \in Nat /\ hist.quiet \in Nat /\ hist.lit \in Nat /\ hist.low \in Nat
      /\ hist.quiet <= Cooldown + 1
      /\ sm.retAccumulated \in Nat /\ sm.cooldownUntil \in Nat
      /\ sm.retStartedAt \in Nat \cup {NoTime}
  BY <1>1 DEF History, StateMachine
<1>7. Calm(sm')
  BY <1>2, <1>4 DEF Calm
<1>8. Owned(sm')
  BY <1>1, <1>2, <1>4 DEF Timely, Owned
<1>9. ASSUME sm.state = PendingActivation, sm.rawInput
      PROVE  /\ sm.retStartedAt \in Nat /\ ret = sm.retStartedAt + 1
             /\ sm.retAccumulated + ret <= hist'.held
  <2>1. PICK i \in TimerIds : sm.clock[i].fn = "onActivateTimer"
    BY <1>1, <1>9 DEF Sound, Outstanding
  <2>2. /\ sm.clock[i].left \in Nat \ {0} /\ sm.retStartedAt \in Nat
        /\ sm.clock[i].left + sm.retAccumulated + sm.retStartedAt = ActivateAfter
        /\ sm.retAccumulated + sm.retStartedAt <= hist.held
    BY <1>1, <1>2, <1>9, <2>1 DEF Timely, Left, Earned, Callback
  <2>3. ret = sm.retStartedAt + 1
    <3>1. sm.retStartedAt # ActivateAfter /\ sm.retStartedAt # NoTime
      BY <1>6, <2>2 DEF NoTime
    <3> QED BY <3>1 DEF ret
  <2>4. hist'.held = Aged(hist.held, ActivateAfter)
    BY <1>1, <1>5, <1>9 DEF Sound, Output
  <2> QED BY <1>6, <2>2, <2>3, <2>4 DEF Aged
<1>10. Left(sm', hist')
  <2> SUFFICES ASSUME NEW i \in TimerIds, k[i].fn \in Callback
               PROVE  /\ k[i].fn = "onActivateTimer" =>
                           /\ sm.state = PendingActivation /\ sm.rawInput
                           /\ k[i].left + sm.retAccumulated + ret = ActivateAfter
                      /\ k[i].fn = "onDeactivateTimer" =>
                           /\ sm.state = PendingDeactivation
                           /\ k[i].left + hist'.low = DeactivateAfter
                      /\ k[i].fn = "onTimeoutTimer" =>
                           Output(sm) /\ k[i].left + hist'.lit = Timeout
                      /\ k[i].fn = "onCooldownTimer" => k[i].left = cd
    BY <1>4 DEF Left, Callback, Output
  <2>1. /\ k[i].fn = sm.clock[i].fn /\ sm.clock[i].left \in Nat \ {0}
        /\ k[i].left = sm.clock[i].left - 1
    BY <1>2
  <2>2. CASE k[i].fn = "onActivateTimer"
    <3>1. /\ sm.state = PendingActivation /\ sm.rawInput
          /\ sm.clock[i].left + sm.retAccumulated + sm.retStartedAt = ActivateAfter
      BY <1>1, <2>1, <2>2 DEF Timely, Left
    <3>2. sm.retStartedAt \in Nat /\ ret = sm.retStartedAt + 1
      BY <1>9, <3>1
    <3> QED BY <1>6, <2>1, <2>2, <3>1, <3>2
  <2>3. CASE k[i].fn = "onDeactivateTimer"
    <3>1. sm.state = PendingDeactivation /\ sm.clock[i].left + hist.low = DeactivateAfter
      BY <1>1, <2>1, <2>3 DEF Timely, Left
    <3> QED BY <1>5, <1>6, <2>1, <2>3, <3>1 DEF Aged
  <2>4. CASE k[i].fn = "onTimeoutTimer"
    <3>1. Output(sm) /\ sm.clock[i].left + hist.lit = Timeout
      BY <1>1, <2>1, <2>4 DEF Timely, Left
    <3> QED BY <1>5, <1>6, <2>1, <2>4, <3>1 DEF Aged
  <2>5. CASE k[i].fn = "onCooldownTimer"
    <3>1. sm.clock[i].left = sm.cooldownUntil
      BY <1>1, <2>1, <2>5 DEF Timely, Left
    <3> QED BY <1>6, <2>1, <2>5, <3>1 DEF cd
  <2> QED BY <2>2, <2>3, <2>4, <2>5 DEF Callback
<1>11. Earned(sm', hist')
  <2>1. Earned(sm, hist)
    BY <1>1 DEF Timely
  <2>2. hist'.held >= hist.held /\ hist'.held \in Nat
    BY <1>5, <1>6 DEF Aged
  <2>3. Cooldown <= hist'.quiet + cd
    BY <1>5, <1>6, <2>1 DEF Earned, Aged, cd
  <2>4. sm.cooldownUntil = 0 => cd = 0
    BY DEF cd
  <2>5. Outstanding(sm', "onTimeoutTimer") = Outstanding(sm, "onTimeoutTimer")
    BY <1>2, <1>4 DEF Outstanding
  <2>6. sm.retAccumulated <= hist'.held
    BY <1>6, <2>1, <2>2 DEF Earned
  <2>7. sm.state = PendingActivation /\ sm.rawInput => ret \in Nat
    BY <1>9
  <2> QED BY <1>4, <1>9, <2>1, <2>3, <2>4, <2>5, <2>6, <2>7 DEF Earned
<1> QED BY <1>7, <1>8, <1>10, <1>11 DEF Timely

\* Launching a callback changes what no timer is for and what none has left.
LEMMA LaunchTimely ==
  ASSUME DelayInv, NEW i \in TimerIds, Launch(i)
  PROVE  /\ Timely(sm', hist') /\ Output(sm') = Output(sm)
         /\ \A j \in TimerIds : sm'.clock[j].phase = IF j = i THEN "launched" ELSE sm.clock[j].phase
<1>1. sm \in StateMachine /\ Timely(sm, hist)
  BY DEF DelayInv, IndInv, TypeOK
<1>2. /\ sm'.state = sm.state /\ sm'.rawInput = sm.rawInput /\ sm'.latched = sm.latched
      /\ sm'.retAccumulated = sm.retAccumulated /\ sm'.retStartedAt = sm.retStartedAt
      /\ sm'.cooldownUntil = sm.cooldownUntil
      /\ sm'.pendingTimer = sm.pendingTimer /\ sm'.timeoutTimer = sm.timeoutTimer
      /\ sm'.cooldownTimer = sm.cooldownTimer /\ hist' = hist
      /\ sm'.clock = [sm.clock EXCEPT ![i].phase = "launched"]
  BY <1>1 DEF Launch, StateMachine
<1>3. sm.clock[i] \in [fn : Callback, phase : {"armed"}, left : {0}]
  <2>1. sm.clock[i] \in Timer
    BY <1>1 DEF StateMachine
  <2> QED BY <2>1 DEF Launch, Due, Timer, Idle
<1>4. \A j \in TimerIds :
        /\ sm'.clock[j].fn = sm.clock[j].fn /\ sm'.clock[j].left = sm.clock[j].left
        /\ sm'.clock[j].phase = IF j = i THEN "launched" ELSE sm.clock[j].phase
  BY <1>1, <1>2, <1>3 DEF StateMachine
<1>5. Owned(sm')
  BY <1>1, <1>2, <1>4 DEF Timely, Owned
<1>6. Left(sm', hist') /\ Output(sm') = Output(sm)
  BY <1>1, <1>2, <1>4 DEF Timely, Left, Output
<1>7. Outstanding(sm', "onTimeoutTimer") = Outstanding(sm, "onTimeoutTimer")
  BY <1>4 DEF Outstanding
<1>8. Earned(sm', hist')
  BY <1>1, <1>2, <1>7 DEF Timely, Earned
<1> QED BY <1>4, <1>5, <1>6, <1>8 DEF Timely

\* A section entered when nothing is under way leaves at most the one
\* notification that its change of output makes.
LEMMA SectionOneEvent ==
  ASSUME TypeOK, \A h \in Hook : notices[h] = 0, heard = (Output(sm) # Invert),
         NEW r, Unlock(r), Calm(r)
  PROVE  OneEvent'
<1>1. sm' = r /\ heard' = heard /\ notices \in [Hook -> Nat]
  BY DEF Unlock, TypeOK
<1>2. \A i \in TimerIds : sm'.clock[i].phase # "launched"
  BY <1>1 DEF Calm
<1>3. Output(r) \in BOOLEAN /\ Output(sm) \in BOOLEAN
  BY DEF Output
<1>4. CASE Output(r) = Output(sm)
  <2>1. notices' = notices
    BY <1>4 DEF Unlock
  <2>2. \A h \in Hook : notices'[h] = 0
    BY <2>1
  <2>3. heard' = (Output(sm') # Invert)
    BY <1>1, <1>4
  <2> QED BY <1>2, <2>2, <2>3 DEF OneEvent
<1>5. CASE Output(r) # Output(sm)
  <2> DEFINE g == HookFor(Output(r) # Invert)
  <2>1. notices' = [notices EXCEPT ![g] = @ + 1] /\ g \in Hook
    BY <1>5 DEF Unlock, HookFor, Hook
  <2> HIDE DEF g
  <2>2. notices'[g] = 1 /\ \A h \in Hook : h # g => notices'[h] = 0
    BY <1>1, <2>1
  <2>3. \A h \in Hook : notices'[h] > 0 => notices'[h] = 1 /\ h = g
    BY <2>2
  <2>4. ~(\A h \in Hook : notices'[h] = 0)
    BY <2>1, <2>2
  <2>5. g = HookFor(Output(sm') # Invert)
    BY <1>1 DEF g
  <2> QED BY <1>2, <2>3, <2>4, <2>5 DEF OneEvent
<1> QED BY <1>4, <1>5

\* A step is a section that keeps what Kept says, a Clear, or leaves the output
\* and the state alone.
Step == \/ Kept(sm') /\ Unlock(sm') /\ hist' = Observed(sm')
        \/ Clear
        \/ Output(sm') = Output(sm) /\ sm'.state = sm.state

\* What a section that Kept describes makes of the invariant.
LEMMA KeptStep ==
  ASSUME DelayInv, \A h \in Hook : notices[h] = 0, NEW r, Kept(r), Unlock(r),
         hist' = Observed(r)
  PROVE  OneEvent' /\ Timely(sm', hist') /\ Step
<1>1. sm' = r /\ Calm(r)
  BY DEF Unlock, Kept
<1>2. TypeOK /\ heard = (Output(sm) # Invert)
  BY DEF DelayInv, IndInv, OneEvent
<1>3. OneEvent'
  BY <1>1, <1>2, SectionOneEvent
<1> QED BY <1>1, <1>3 DEF Kept, Step

\* DelayInv is inductive, and every step is a Step.
LEMMA DelayNext ==
  ASSUME ~Concurrent, DelayInv, [Next]_vars
  PROVE  DelayInv' /\ Step
<1>1. IndInv'
  BY IndInvNext DEF DelayInv
<1>2. /\ TypeOK /\ Sound(sm) /\ Timely(sm, hist) /\ sm \in StateMachine
      /\ notices \in [Hook -> Nat]
  BY DEF DelayInv, IndInv, TypeOK
<1>3. MayEnter => Calm(sm) /\ \A h \in Hook : notices[h] = 0
  BY DEF MayEnter, Quiescent, Calm
<1>4. ASSUME NEW v \in BOOLEAN, SetRawInput(v) PROVE OneEvent' /\ Timely(sm', hist') /\ Step
  <2> DEFINE r == OnInputChange([sm EXCEPT !.rawInput = v], v)
  <2>1. Found /\ sm.rawInput # v /\ \A h \in Hook : notices[h] = 0
    BY <1>2, <1>3, <1>4 DEF SetRawInput, Found, Armable
  <2>2. Kept(r)
    BY <2>1, InputTimely
  <2>3. Unlock(r) /\ hist' = Observed(r)
    BY <1>4 DEF SetRawInput
  <2> HIDE DEF r
  <2> QED BY <2>1, <2>2, <2>3, KeptStep
<1>5. ASSUME NEW v \in BOOLEAN, SetInhibited(v) PROVE OneEvent' /\ Timely(sm', hist') /\ Step
  <2> DEFINE q == [sm EXCEPT !.inhibited = v]
             r == IF v THEN Inhibit(q) ELSE Uninhibit(q)
  <2>1. Found /\ sm.inhibited # v /\ \A h \in Hook : notices[h] = 0
    BY <1>2, <1>3, <1>5 DEF SetInhibited, Found, Armable
  <2>2. Kept(r)
    BY <2>1, InhibitTimely
  <2>3. Unlock(r) /\ hist' = Observed(r)
    BY <1>5 DEF SetInhibited
  <2> HIDE DEF r
  <2> QED BY <2>1, <2>2, <2>3, KeptStep
<1>6. ASSUME Clear PROVE OneEvent' /\ Timely(sm', hist') /\ Step
  <2>1. Calm(sm) /\ \A h \in Hook : notices[h] = 0
    BY <1>3, <1>6 DEF Clear
  <2>2. Timely(sm', hist')
    BY <1>2, <1>6, <2>1, ClearTimely
  <2>3. Unlock(Cleared(sm)) /\ heard = (Output(sm) # Invert)
    BY <1>6, <2>1 DEF Clear, DelayInv, OneEvent
  <2>4. Calm(Cleared(sm))
    <3> DEFINE p == CancelPending(sm)
               c == CancelTimeout(p)
    <3>1. Core(sm)
      BY <1>2 DEF Sound
    <3>2. Core(p) /\ p.clock = Stopped(sm, sm.pendingTimer)
      BY <1>2, <3>1, CancelPendingCore DEF CancelPending, StateMachine
    <3>3. Calm(p)
      BY <1>2, <2>1, <3>2, CalmStop DEF Calm, Idle
    <3>4. Cleared(sm) = [c EXCEPT !.latched = FALSE, !.retAccumulated = 0, !.retStartedAt = NoTime,
                                  !.rawInput = FALSE, !.state = Inactive]
      BY DEF Cleared
    <3> HIDE DEF p
    <3>5. p \in StateMachine /\ c \in StateMachine
      BY <3>2, CancelTimeoutCore DEF Core
    <3>6. c.clock = Stopped(p, p.timeoutTimer)
      BY <3>5 DEF CancelTimeout, StateMachine
    <3>7. Calm(c)
      BY <3>3, <3>5, <3>6, CalmStop DEF Calm, Idle
    <3> HIDE DEF c
    <3>8. Cleared(sm).clock = c.clock
      BY <3>4, <3>5 DEF StateMachine
    <3> QED BY <3>7, <3>8 DEF Calm
  <2>5. OneEvent'
    BY <1>2, <2>1, <2>3, <2>4, SectionOneEvent
  <2> QED BY <1>6, <2>2, <2>5 DEF Step
<1>7. ASSUME NEW i \in TimerIds, RunCallback(i) PROVE OneEvent' /\ Timely(sm', hist') /\ Step
  <2>1. \A h \in Hook : notices[h] = 0
    BY <1>7 DEF RunCallback, OnActivateTimer, OnDeactivateTimer, OnTimeoutTimer,
                OnCooldownTimer, Enter, DelayInv, OneEvent
  <2>2. \E r : Kept(r) /\ Unlock(r) /\ hist' = Observed(r)
    BY <1>7, ActivateTimely, DeactivateTimely, TimeoutTimely, CooldownTimely
       DEF RunCallback, OnActivateTimer, OnDeactivateTimer, OnTimeoutTimer, OnCooldownTimer
  <2> QED BY <2>1, <2>2, KeptStep
<1>8. ASSUME NEW i \in TimerIds, Launch(i) PROVE OneEvent' /\ Timely(sm', hist') /\ Step
  <2>1. /\ Timely(sm', hist') /\ Output(sm') = Output(sm)
        /\ \A j \in TimerIds : sm'.clock[j].phase = IF j = i THEN "launched" ELSE sm.clock[j].phase
    BY <1>8, LaunchTimely
  <2>2. Quiescent /\ notices' = notices /\ heard' = heard /\ sm'.state = sm.state
    BY <1>2, <1>8 DEF Launch, StateMachine
  <2>3. OneEvent'
    BY <2>1, <2>2 DEF OneEvent, DelayInv, Quiescent
  <2> QED BY <2>1, <2>2, <2>3 DEF Step
<1>9. ASSUME NEW h \in Hook, Notify(h) PROVE OneEvent' /\ Timely(sm', hist') /\ Step
  <2>1. /\ notices[h] = 1 /\ h = HookFor(Output(sm) # Invert)
        /\ \A g \in Hook : g # h => notices[g] = 0
        /\ \A i \in TimerIds : sm.clock[i].phase # "launched"
    BY <1>2, <1>9 DEF Notify, DelayInv, OneEvent
  <2>2. sm' = sm /\ hist' = hist /\ heard' = (h = "on_activate")
        /\ notices' = [notices EXCEPT ![h] = @ - 1]
    BY <1>9 DEF Notify
  <2>3. \A g \in Hook : notices'[g] = 0
    BY <1>2, <2>1, <2>2
  <2>4. heard' = (Output(sm) # Invert)
    BY <2>1, <2>2 DEF HookFor
  <2>5. OneEvent'
    BY <2>1, <2>2, <2>3, <2>4 DEF OneEvent, Output
  <2> QED BY <1>2, <2>2, <2>5 DEF Step
<1>10. ASSUME Tick PROVE OneEvent' /\ Timely(sm', hist') /\ Step
  <2>1. Calm(sm) /\ \A h \in Hook : notices[h] = 0
    BY <1>3, <1>10 DEF Tick
  <2>2. Timely(sm', hist') /\ Calm(sm')
    BY <1>10, <2>1, TickTimely
  <2>3. notices' = notices /\ heard' = heard /\ sm'.state = sm.state
    BY <1>2, <1>10 DEF Tick, StateMachine
  <2>4. Output(sm') = Output(sm)
    BY <2>3 DEF Output
  <2>5. OneEvent'
    BY <2>1, <2>2, <2>3, <2>4 DEF OneEvent, DelayInv, Calm
  <2> QED BY <2>2, <2>3, <2>4, <2>5 DEF Step
<1>11. ASSUME UNCHANGED vars PROVE OneEvent' /\ Timely(sm', hist') /\ Step
  BY <1>2, <1>11 DEF vars, OneEvent, DelayInv, Step, Quiescent, Output
<1>12. OneEvent' /\ Timely(sm', hist') /\ Step
  BY <1>4, <1>5, <1>6, <1>7, <1>8, <1>9, <1>10, <1>11 DEF Next
<1> QED BY <1>1, <1>12 DEF DelayInv

\* A cleared machine's output is low.
LEMMA ClearLowers == ASSUME Sound(sm), Clear PROVE ~Output(sm')
<1>1. sm' = Cleared(sm)
  BY DEF Clear, Unlock
<1> QED BY <1>1, ClearSound DEF Output, Inactive, Active, PendingDeactivation

\* Bootstrap: an active start has its timeout armed and its input asserted.
LEMMA DelayInit == Init => DelayInv
<1> SUFFICES ASSUME Init PROVE DelayInv
  OBVIOUS
<1> USE DEF Inactive, Active, PendingActivation, PendingDeactivation
<1> DEFINE n == NewStateMachine
<1>1. IndInv
  BY IndInvInit
<1>2. /\ n \in StateMachine /\ n.state = Inactive /\ ~n.latched /\ n.cooldownUntil = 0
      /\ n.clock = [i \in TimerIds |-> Idle] /\ n.retAccumulated = 0
      /\ n.pendingTimer = NoTimer /\ n.timeoutTimer = NoTimer /\ n.cooldownTimer = NoTimer
  BY DEF NewStateMachine, StateMachine, State, Timer, NoTime
<1>3. \A f \in Callback : Outstanding(n, f) = {}
  BY <1>2 DEF Outstanding, Callback, Idle
<1>4. \A f \in Callback : None(n, f)
  BY <1>3 DEF None, Outstanding
<1>5. Fine(n)
  <2>1. Core(n) /\ FreeIds(n) # {}
    BY <1>2, <1>3 DEF Core, HandleKinds, FreeIds, Handles, Callback
  <2>2. Calm(n) /\ Owned(n)
    BY <1>2 DEF Calm, Owned, Idle
  <2> QED BY <2>1, <2>2 DEF Fine
<1>6. hist.held = 0 /\ hist.quiet = Cooldown + 1 /\ hist.lit = 0
  BY DEF Init
<1>7. Calm(sm) /\ Timely(sm, hist)
  <2>1. CASE ~StartActive
    <3>1. sm = n
      BY <2>1 DEF Init, Bootstrap
    <3> HIDE DEF n
    <3>2. Left(sm, hist)
      BY <1>4, <3>1 DEF Left, None, Callback
    <3>3. Earned(sm, hist)
      BY <1>2, <1>6, <3>1 DEF Earned
    <3> QED BY <1>5, <3>1, <3>2, <3>3 DEF Timely, Fine
  <2>2. CASE StartActive
    <3> DEFINE q == [n EXCEPT !.state = Active, !.rawInput = TRUE, !.latched = Latch]
    <3>1. sm = RestartTimeout(q)
      BY <2>2 DEF Init, Bootstrap
    <3> HIDE DEF n
    <3>2. /\ q \in StateMachine /\ q.state = Active /\ q.rawInput = TRUE
          /\ q.latched = Latch /\ q.clock = n.clock
          /\ q.timeoutTimer = n.timeoutTimer /\ q.pendingTimer = n.pendingTimer
          /\ q.cooldownTimer = n.cooldownTimer /\ q.cooldownUntil = n.cooldownUntil
          /\ q.retAccumulated = 0
      BY <1>2 DEF StateMachine, State
    <3> HIDE DEF q
    <3>3. Fine(q)
      <4>1. Core(q) /\ FreeIds(q) # {}
        BY <1>5, <3>2, CoreFields DEF Fine
      <4>2. Calm(q) /\ Owned(q)
        BY <1>5, <3>2 DEF Fine, Calm, Owned
      <4> QED BY <4>1, <4>2 DEF Fine
    <3>4. /\ Calm(sm) /\ Owned(sm) /\ SameButTimers(q, sm)
          /\ \A f \in Callback \ {"onTimeoutTimer"} : Keeps(q, sm, f)
          /\ IF q.latched \/ Timeout = 0 THEN None(sm, "onTimeoutTimer")
                                         ELSE Armed(sm, "onTimeoutTimer", Timeout)
      BY <3>1, <3>2, <3>3, RestartTimeoutTimers
    <3>5. \A f \in Callback \ {"onTimeoutTimer"} : None(sm, f)
      BY <1>4, <3>2, <3>4 DEF None, Keeps
    <3>6. /\ sm.state = Active /\ sm.rawInput /\ sm.latched = Latch /\ sm.retAccumulated = 0
          /\ sm.cooldownUntil = 0
      BY <1>2, <3>2, <3>4 DEF SameButTimers
    <3>7. \A i \in TimerIds : sm.clock[i].fn = "onTimeoutTimer" => sm.clock[i].left = Timeout
      BY <3>4 DEF None, Armed
    <3>8. Output(sm)
      BY <3>6 DEF Output
    <3>9. Left(sm, hist)
      BY <1>6, <3>5, <3>7, <3>8 DEF Left, None, Callback
    <3>10. ~sm.latched /\ Timeout > 0 => Outstanding(sm, "onTimeoutTimer") # {}
      BY <3>2, <3>4, <3>6 DEF Armed, Outstanding
    <3>11. Earned(sm, hist)
      BY <1>6, <3>6, <3>10 DEF Earned
    <3> QED BY <3>4, <3>9, <3>11 DEF Timely
  <2> QED BY <2>1, <2>2
<1>8. /\ notices = [h \in Hook |-> 0] /\ heard = (Output(sm) # Invert)
  BY DEF Init
<1>9. OneEvent
  <2>1. \A h \in Hook : notices[h] = 0
    BY <1>8
  <2> QED BY <1>7, <1>8, <2>1 DEF OneEvent, Calm
<1> QED BY <1>1, <1>7, <1>9 DEF DelayInv

-----------------------------------------------------------------------------
(* The theorems.                                                           *)

\* The inductive invariant of a sequential run, for every delay.
THEOREM DelayInvariance == ~Concurrent => (Spec => []DelayInv)
<1> SUFFICES ASSUME ~Concurrent PROVE Spec => []DelayInv
  OBVIOUS
<1>1. Init => DelayInv
  BY DelayInit
<1>2. DelayInv /\ [Next]_vars => DelayInv'
  BY DelayNext
<1> QED BY <1>1, <1>2, PTL DEF Spec

\* When nothing is under way, every watcher last heard what get() returns
\* (notifyAll).
THEOREM WatchersAlwaysAgree == ~Concurrent => (Spec => []WatchersAgree)
<1> SUFFICES ASSUME ~Concurrent PROVE Spec => []WatchersAgree
  OBVIOUS
<1>1. DelayInv => WatchersAgree
  BY DEF DelayInv, OneEvent, WatchersAgree, Quiescent
<1>2. Spec => []DelayInv
  BY DelayInvariance
<1> QED BY <1>1, <1>2, PTL

\* The output rises only after the input was held for activate_after in all,
\* across the pauses of a retentive machine, cooldown and inhibit.
THEOREM ActivationAlwaysDelayed == ~Concurrent => (Spec => ActivationDelayed)
<1> SUFFICES ASSUME ~Concurrent PROVE Spec => ActivationDelayed
  OBVIOUS
<1>1. DelayInv /\ [Next]_vars => [Rises => hist.held >= ActivateAfter]_vars
  <2> SUFFICES ASSUME DelayInv, [Next]_vars, Rises PROVE hist.held >= ActivateAfter
    OBVIOUS
  <2>1. Step
    BY DelayNext
  <2>2. ~Clear
    BY ClearLowers DEF Rises, DelayInv, IndInv
  <2> QED BY <2>1, <2>2 DEF Step, Kept, Rises
<1>2. Spec => []DelayInv
  BY DelayInvariance
<1> QED BY <1>1, <1>2, PTL DEF Spec, ActivationDelayed

\* The output does not rise within cooldown of the last time it fell by itself.
THEOREM CooldownAlwaysObserved == ~Concurrent => (Spec => CooldownObserved)
<1> SUFFICES ASSUME ~Concurrent PROVE Spec => CooldownObserved
  OBVIOUS
<1>1. DelayInv /\ [Next]_vars => [Rises => hist.quiet >= Cooldown]_vars
  <2> SUFFICES ASSUME DelayInv, [Next]_vars, Rises PROVE hist.quiet >= Cooldown
    OBVIOUS
  <2>1. Step
    BY DelayNext
  <2>2. ~Clear
    BY ClearLowers DEF Rises, DelayInv, IndInv
  <2> QED BY <2>1, <2>2 DEF Step, Kept, Rises
<1>2. Spec => []DelayInv
  BY DelayInvariance
<1> QED BY <1>1, <1>2, PTL DEF Spec, CooldownObserved

\* An active period with a timeout ends by it exactly then, counted from the
\* activation or the last re-assertion (restartTimeoutLocked).
THEOREM TimeoutAlwaysExact == ~Concurrent => (Spec => TimeoutExact)
<1> SUFFICES ASSUME ~Concurrent PROVE Spec => TimeoutExact
  OBVIOUS
<1> DEFINE Exact ==
      /\ sm.state = Active /\ ~sm.latched /\ Timeout > 0 => hist.lit <= Timeout
      /\ (\E i \in TimerIds : OnTimeoutTimer(i)) /\ sm' # sm /\ ~Output(sm') /\ Output(sm)
           => hist.lit = Timeout
<1>1. DelayInv /\ [Next]_vars => [Exact]_vars
  <2> SUFFICES ASSUME DelayInv PROVE Exact
    OBVIOUS
  <2>1. sm \in StateMachine /\ Left(sm, hist) /\ hist.lit \in Nat
    BY DEF DelayInv, IndInv, TypeOK, Timely, History
  <2>2. \A i \in TimerIds : sm.clock[i].fn = "onTimeoutTimer" =>
          sm.clock[i].left \in Nat /\ (sm.clock[i].phase = "launched" => sm.clock[i].left = 0)
    <3> SUFFICES ASSUME NEW i \in TimerIds, sm.clock[i].fn = "onTimeoutTimer"
                 PROVE  sm.clock[i].left \in Nat
                        /\ (sm.clock[i].phase = "launched" => sm.clock[i].left = 0)
      OBVIOUS
    <3>1. sm.clock[i] \in Timer
      BY <2>1 DEF StateMachine
    <3> QED BY <3>1 DEF Timer, Idle
  <2>3. sm.state = Active /\ ~sm.latched /\ Timeout > 0 => hist.lit <= Timeout
    <3>1. sm.state = Active /\ ~sm.latched /\ Timeout > 0 => Outstanding(sm, "onTimeoutTimer") # {}
      BY DEF DelayInv, Timely, Earned
    <3> QED BY <2>1, <2>2, <3>1 DEF Left, Outstanding
  <2>4. (\E i \in TimerIds : OnTimeoutTimer(i)) => hist.lit = Timeout
    BY <2>1, <2>2 DEF OnTimeoutTimer, Enter, Left
  <2> QED BY <2>3, <2>4
<1>2. Spec => []DelayInv
  BY DelayInvariance
<1> QED BY <1>1, <1>2, PTL DEF Spec, TimeoutExact

\* A hold lasts deactivate_after, neither shorter nor longer, unless it is
\* cleared or the input comes back.
THEOREM HoldAlwaysExact == ~Concurrent => (Spec => HoldExact)
<1> SUFFICES ASSUME ~Concurrent PROVE Spec => HoldExact
  OBVIOUS
<1> DEFINE Exact ==
      sm.state = PendingDeactivation
        => /\ hist.low <= DeactivateAfter
           /\ sm'.state = Inactive /\ ~Clear => hist.low = DeactivateAfter
<1>1. DelayInv /\ [Next]_vars => [Exact]_vars
  <2> SUFFICES ASSUME DelayInv, [Next]_vars, sm.state = PendingDeactivation
               PROVE  /\ hist.low <= DeactivateAfter
                      /\ sm'.state = Inactive /\ ~Clear => hist.low = DeactivateAfter
    OBVIOUS
  <2>1. sm \in StateMachine /\ Left(sm, hist) /\ hist.low \in Nat
    BY DEF DelayInv, IndInv, TypeOK, Timely, History
  <2>2. PICK i \in TimerIds : sm.clock[i].fn = "onDeactivateTimer"
    BY DEF DelayInv, IndInv, Sound, Outstanding
  <2>3. sm.clock[i].left \in Nat
    <3>1. sm.clock[i] \in Timer
      BY <2>1 DEF StateMachine
    <3> QED BY <2>2, <3>1 DEF Timer, Idle
  <2>4. hist.low <= DeactivateAfter
    BY <2>1, <2>2, <2>3 DEF Left
  <2>5. Step
    BY DelayNext
  <2>6. sm'.state = Inactive /\ ~Clear => hist.low = DeactivateAfter
    BY <2>5 DEF Step, Kept, Inactive, PendingDeactivation
  <2> QED BY <2>4, <2>6
<1>2. Spec => []DelayInv
  BY DelayInvariance
<1> QED BY <1>1, <1>2, PTL DEF Spec, HoldExact

-----------------------------------------------------------------------------
(* The timer condition.                                                    *)

\* The identities the model draws from are different, the window is a time.
TimerOK ==
  /\ Debounce \in Nat /\ HasInput \in BOOLEAN
  /\ Callers \cap DebIds = {} /\ Nobody \notin Callers

-----------------------------------------------------------------------------
(* The machine's critical sections, seen by what they do to the input and  *)
(* to the timers that could take it down.                                  *)

NoTimeouts(s) == \A i \in TimerIds : s.clock[i].fn # "onTimeoutTimer"

\* r has the input s has, and without a timeout configured no timeout timer
\* that s had not.
SameInput(s, r) ==
  /\ r.rawInput = s.rawInput
  /\ Timeout = 0 /\ NoTimeouts(s) => NoTimeouts(r)

LEMMA StopsSame ==
  ASSUME NEW s \in StateMachine, NEW h, NEW r, r.clock = Stopped(s, h), NoTimeouts(s)
  PROVE  NoTimeouts(r)
BY StopType DEF NoTimeouts, Idle

LEMMA ArmsSame ==
  ASSUME NEW s \in StateMachine, FreeIds(s) # {}, NEW d \in Nat, NoTimeouts(s),
         NEW f \in Callback \ {"onTimeoutTimer"}, NEW r, r.clock = AfterFunc(s, d, f)
  PROVE  NoTimeouts(r)
BY AfterFuncType DEF NoTimeouts

LEMMA CancelSame ==
  ASSUME NEW s, Core(s)
  PROVE  SameInput(s, CancelPending(s)) /\ SameInput(s, CancelTimeout(s))
<1>1. s \in StateMachine
  BY DEF Core
<1>2. CancelPending(s).clock = Stopped(s, s.pendingTimer)
      /\ CancelTimeout(s).clock = Stopped(s, s.timeoutTimer)
  BY <1>1 DEF CancelPending, CancelTimeout, StateMachine
<1>3. NoTimeouts(s) => NoTimeouts(CancelPending(s)) /\ NoTimeouts(CancelTimeout(s))
  BY <1>1, <1>2, StopsSame
<1>4. CancelPending(s).rawInput = s.rawInput /\ CancelTimeout(s).rawInput = s.rawInput
  BY CancelPendingCore, CancelTimeoutCore DEF SameButTimers
<1> QED  BY <1>3, <1>4 DEF SameInput

LEMMA RestartSame ==
  ASSUME NEW s, Core(s), FreeIds(s) # {}, Latch => s.latched
  PROVE  SameInput(s, RestartTimeout(s))
<1>1. Timeout = 0 => RestartTimeout(s) = CancelTimeout(s)
  BY DEF RestartTimeout
<1>2. RestartTimeout(s).rawInput = s.rawInput
  BY RestartTimeoutCore DEF SameButTimers
<1> QED  BY <1>1, <1>2, CancelSame DEF SameInput

LEMMA BecomeActiveSame ==
  ASSUME NEW s, Core(s), FreeIds(s) # {}
  PROVE  SameInput(s, BecomeActive(s))
<1> DEFINE q == [s EXCEPT !.state = Active, !.retAccumulated = 0,
                          !.retStartedAt = NoTime, !.latched = @ \/ Latch]
<1>1. /\ q \in StateMachine /\ q.clock = s.clock /\ q.timeoutTimer = s.timeoutTimer
      /\ BecomeActive(s) = RestartTimeout(q)
  BY DEF Core, StateMachine, State, BecomeActive, NoTime
<1> HIDE DEF q
<1>2. Timeout = 0 => BecomeActive(s).clock = Stopped(q, q.timeoutTimer)
  BY <1>1 DEF RestartTimeout, CancelTimeout, StateMachine
<1>3. Timeout = 0 /\ NoTimeouts(s) => NoTimeouts(BecomeActive(s))
  BY <1>1, <1>2, StopsSame DEF NoTimeouts
<1> QED  BY <1>3, BecomeActiveCore DEF SameInput

LEMMA BecomeInactiveSame ==
  ASSUME NEW s, Core(s), FreeIds(s) # {}
  PROVE  SameInput(s, BecomeInactive(s))
<1>1. PICK q : q = [s EXCEPT !.state = Inactive]
  OBVIOUS
<1>2. PICK c : c = CancelTimeout(q)
  OBVIOUS
<1>3. PICK d : d = [c EXCEPT !.clock = Stopped(c, c.cooldownTimer)]
  OBVIOUS
<1>4. PICK r : r = BecomeInactive(s)
  OBVIOUS
<1>5. /\ q \in StateMachine /\ q.clock = s.clock
      /\ q.latched = s.latched /\ q.timeoutTimer = s.timeoutTimer /\ q.pendingTimer = s.pendingTimer
      /\ q.cooldownTimer = s.cooldownTimer /\ q.cooldownUntil = s.cooldownUntil
  BY <1>1 DEF Core, StateMachine, State
<1>6. Core(q) /\ FreeIds(q) # {}
  <2>1. q.latched => Latch
    BY <1>5 DEF Core
  <2> QED  BY <1>5, <2>1, CoreFields
<1>7. Core(c) /\ FreeIds(c) # {} /\ c \in StateMachine
  <2>1. Core(c) /\ FreeIds(q) \subseteq FreeIds(c)
    BY <1>2, <1>6, CancelTimeoutCore
  <2> QED  BY <1>6, <2>1 DEF Core
<1>8. NoTimeouts(s) => NoTimeouts(c)
  <2>1. c.clock = Stopped(q, q.timeoutTimer)
    BY <1>2, <1>5 DEF CancelTimeout, StateMachine
  <2>2. NoTimeouts(s) => NoTimeouts(q)
    BY <1>5 DEF NoTimeouts
  <2> QED  BY <1>5, <2>1, <2>2, StopsSame
<1>9. /\ d \in StateMachine /\ d.clock = Stopped(c, c.cooldownTimer)
      /\ d.pendingTimer = c.pendingTimer /\ d.timeoutTimer = c.timeoutTimer /\ d.cooldownTimer = c.cooldownTimer
  BY <1>3, <1>7, StopType DEF StateMachine
<1>10. NoTimeouts(s) => NoTimeouts(d)
  BY <1>7, <1>8, <1>9, StopsSame
<1>11. FreeIds(d) # {}
  <2>1. FreeIds(c) \subseteq FreeIds(d)
    BY <1>7, <1>9, StopType DEF FreeIds, Handles
  <2> QED  BY <1>7, <2>1
<1>12. r.clock \in {c.clock, AfterFunc(d, Cooldown, "onCooldownTimer")}
  <2>1. r = StartCooldown(c)
    BY <1>1, <1>2, <1>4 DEF BecomeInactive
  <2> QED  BY <1>3, <1>7, <1>9, <2>1 DEF StartCooldown, StateMachine
<1>13. NoTimeouts(s) => NoTimeouts(r)
  <2>1. CASE r.clock = c.clock
    BY <1>8, <2>1 DEF NoTimeouts
  <2>2. CASE r.clock = AfterFunc(d, Cooldown, "onCooldownTimer")
    BY <1>9, <1>10, <1>11, <2>2, ArmsSame DEF Callback
  <2> QED  BY <1>12, <2>1, <2>2
<1> QED  BY <1>4, <1>13, BecomeInactiveCore DEF SameInput

LEMMA ArmActivationSame ==
  ASSUME NEW s, Core(s), FreeIds(s) # {}, s.retAccumulated < ActivateAfter
  PROVE  SameInput(s, ArmActivation(s))
<1>1. s \in StateMachine /\ ActivateAfter - s.retAccumulated \in Nat
  BY DEF Core, StateMachine
<1>2. PICK r : r = ArmActivation(s)
  OBVIOUS
<1>3. r.clock = AfterFunc(s, ActivateAfter - s.retAccumulated, "onActivateTimer") /\ r.rawInput = s.rawInput
  BY <1>1, <1>2 DEF ArmActivation, StateMachine
<1> QED  BY <1>1, <1>2, <1>3, ArmsSame DEF SameInput, Callback

LEMMA ArmDeactivationSame ==
  ASSUME NEW s, Core(s), FreeIds(s) # {}
  PROVE  SameInput(s, ArmDeactivation(s))
<1>1. s \in StateMachine
  BY DEF Core
<1>2. PICK r : r = ArmDeactivation(s)
  OBVIOUS
<1>3. r.clock = AfterFunc(s, DeactivateAfter, "onDeactivateTimer") /\ r.rawInput = s.rawInput
  BY <1>1, <1>2 DEF ArmDeactivation, StateMachine
<1> QED  BY <1>1, <1>2, <1>3, ArmsSame DEF SameInput, Callback

LEMMA TryActivateSame ==
  ASSUME NEW s, Core(s), FreeIds(s) # {}
  PROVE  SameInput(s, TryActivate(s)) /\ SameInput(s, ResumeRetentive(s))
<1>1. s.retAccumulated \in Nat
  BY DEF Core, StateMachine
<1>2. CASE ActivateAfter <= s.retAccumulated
  BY <1>2, BecomeActiveSame DEF TryActivate, ResumeRetentive, SameInput
<1>3. CASE ~(ActivateAfter <= s.retAccumulated)
  <2>1. SameInput(s, ArmActivation(s))
    BY <1>1, <1>3, ArmActivationSame
  <2> QED  BY <1>3, <2>1 DEF TryActivate, ResumeRetentive, SameInput
<1> QED  BY <1>2, <1>3

LEMMA UninhibitSame ==
  ASSUME NEW s, Core(s), FreeIds(s) # {}
  PROVE  SameInput(s, Uninhibit(s)) /\ SameInput(s, Inhibit(s))
<1>1. SameInput(s, Uninhibit(s))
  BY TryActivateSame DEF Uninhibit, SameInput
<1>2. PICK c : c = CancelPending(s)
  OBVIOUS
<1>3. SameInput(s, c) /\ Core(c)
  BY <1>2, CancelSame, CancelPendingCore
<1>4. Inhibit(s).clock \in {c.clock, s.clock} /\ Inhibit(s).rawInput \in {c.rawInput, s.rawInput}
  BY <1>2, <1>3 DEF Inhibit, Core, StateMachine
<1> QED  BY <1>1, <1>3, <1>4 DEF SameInput, NoTimeouts

\* onInputChangeLocked, in whatever state the edge meets the machine.
LEMMA InputSame ==
  ASSUME NEW s, Sound(s), FreeIds(s) # {}, NEW value \in BOOLEAN
  PROVE  LET r == OnInputChange([s EXCEPT !.rawInput = value], value)
         IN  r.rawInput = value /\ (Timeout = 0 /\ NoTimeouts(s) => NoTimeouts(r))
<1> USE DEF Inactive, Active, PendingActivation, PendingDeactivation
<1>1. PICK q : q = [s EXCEPT !.rawInput = value]
  OBVIOUS
<1>2. s \in StateMachine /\ Core(s)
  BY DEF Sound, Core
<1>3. /\ q \in StateMachine /\ q.rawInput = value /\ q.clock = s.clock /\ q.state = s.state
      /\ q.latched = s.latched /\ q.timeoutTimer = s.timeoutTimer /\ q.pendingTimer = s.pendingTimer
      /\ q.cooldownTimer = s.cooldownTimer /\ q.cooldownUntil = s.cooldownUntil
  BY <1>1, <1>2 DEF StateMachine
<1>4. Core(q) /\ FreeIds(q) # {}
  <2>1. q.latched => Latch
    BY <1>2, <1>3 DEF Core
  <2> QED  BY <1>2, <1>3, <2>1, CoreFields
<1>5. SameInput(q, q)
  BY DEF SameInput
<1>6. SameInput(q, OnInputChange(q, value))
  <2>1. CASE q.state = Inactive
    BY <1>4, <1>5, <2>1, TryActivateSame DEF OnInputChange, InputWhileInactive
  <2>2. CASE q.state = PendingActivation
    <3>1. PICK c : c = CancelPending(q)
      OBVIOUS
    <3>2. SameInput(q, c) /\ Core(c)
      BY <1>4, <3>1, CancelSame, CancelPendingCore
    <3>3. SameInput(q, [c EXCEPT !.state = Inactive]) /\ SameInput(q, PauseRetentive(q))
      <4>1. PICK x : x = [c EXCEPT !.state = Inactive]
        OBVIOUS
      <4>2. PICK y : y = PauseRetentive(q)
        OBVIOUS
      <4>3. x.rawInput = c.rawInput /\ x.clock = c.clock /\ y.rawInput = c.rawInput /\ y.clock = c.clock
        BY <3>1, <3>2, <4>1, <4>2 DEF PauseRetentive, Core, StateMachine
      <4> QED  BY <3>2, <4>1, <4>2, <4>3 DEF SameInput, NoTimeouts
    <3>4. OnInputChange(q, value) = InputWhilePendingActivation(q, value)
      BY <2>2 DEF OnInputChange
    <3>5. OnInputChange(q, value) \in {ResumeRetentive(q), q, PauseRetentive(q), [c EXCEPT !.state = Inactive]}
      BY <3>1, <3>4 DEF InputWhilePendingActivation
    <3> QED  BY <1>4, <1>5, <3>3, <3>5, TryActivateSame
  <2>3. CASE q.state = Active
    <3>1. Latch => q.latched
      BY <1>3, <2>3 DEF Sound
    <3>2. OnInputChange(q, value) \in {RestartTimeout(q), q, ArmDeactivation(q), BecomeInactive(q)}
      BY <2>3 DEF OnInputChange, InputWhileActive
    <3> QED  BY <1>4, <1>5, <3>1, <3>2, RestartSame, ArmDeactivationSame, BecomeInactiveSame
  <2>4. CASE q.state = PendingDeactivation
    <3>1. PICK c : c = CancelPending(q)
      OBVIOUS
    <3>2. SameInput(q, c) /\ Core(c) /\ FreeIds(q) \subseteq FreeIds(c) /\ ~Latch
      BY <1>3, <1>4, <2>4, <3>1, CancelSame, CancelPendingCore DEF Sound
    <3>3. PICK a : a = [c EXCEPT !.state = Active]
      OBVIOUS
    <3>4. /\ a \in StateMachine /\ a.rawInput = c.rawInput /\ a.clock = c.clock /\ a.latched = c.latched
          /\ a.timeoutTimer = c.timeoutTimer /\ a.pendingTimer = c.pendingTimer
          /\ a.cooldownTimer = c.cooldownTimer /\ a.cooldownUntil = c.cooldownUntil
      BY <3>2, <3>3 DEF Core, StateMachine, State
    <3>5. Core(a) /\ FreeIds(a) # {}
      <4>1. a.latched => Latch
        BY <3>2, <3>4 DEF Core
      <4>2. Core(a) /\ FreeIds(c) \subseteq FreeIds(a)
        BY <3>2, <3>4, <4>1, CoreFields
      <4> QED  BY <1>4, <3>2, <4>2
    <3>6. SameInput(a, RestartTimeout(a))
      BY <3>2, <3>5, RestartSame
    <3>7. SameInput(q, RestartTimeout(a))
      BY <3>2, <3>4, <3>6 DEF SameInput, NoTimeouts
    <3>8. OnInputChange(q, value) \in {RestartTimeout(a), q}
      BY <2>4, <3>1, <3>3 DEF OnInputChange, InputWhilePendingDeactivation
    <3> QED  BY <1>5, <3>7, <3>8
  <2> QED  BY <1>3, <2>1, <2>2, <2>3, <2>4 DEF StateMachine, State
<1> QED  BY <1>1, <1>3, <1>6 DEF SameInput, NoTimeouts

\* SetRawInput hands the machine its input, SetInhibited and time leave it
\* alone, Clear takes it down.
Untimed == Timeout = 0 /\ NoTimeouts(sm) => NoTimeouts(sm')

LEMMA SetRawInputInput ==
  ASSUME IndInv, NEW value \in BOOLEAN, SetRawInput(value)
  PROVE  sm'.rawInput = value /\ Untimed
<1>1. Sound(sm) /\ FreeIds(sm) # {}
  BY DEF IndInv, SetRawInput, Armable
<1>2. sm' = OnInputChange([sm EXCEPT !.rawInput = value], value)
  BY DEF SetRawInput, Unlock
<1> QED  BY <1>1, <1>2, InputSame DEF Untimed

LEMMA SetInhibitedInput ==
  ASSUME IndInv, NEW value \in BOOLEAN, SetInhibited(value)
  PROVE  sm'.rawInput = sm.rawInput /\ Untimed
<1>1. Core(sm) /\ FreeIds(sm) # {} /\ sm \in StateMachine
  BY DEF IndInv, Sound, Core, SetInhibited, Armable
<1>2. PICK q : q = [sm EXCEPT !.inhibited = value]
  OBVIOUS
<1>3. /\ q \in StateMachine /\ q.rawInput = sm.rawInput /\ q.clock = sm.clock /\ q.latched = sm.latched
      /\ q.timeoutTimer = sm.timeoutTimer /\ q.pendingTimer = sm.pendingTimer
      /\ q.cooldownTimer = sm.cooldownTimer /\ q.cooldownUntil = sm.cooldownUntil
  BY <1>1, <1>2 DEF StateMachine
<1>4. Core(q) /\ FreeIds(q) # {}
  <2>1. q.latched => Latch
    BY <1>1, <1>3 DEF Core
  <2> QED  BY <1>1, <1>3, <2>1, CoreFields
<1>5. sm' \in {Inhibit(q), Uninhibit(q)}
  BY <1>2 DEF SetInhibited, Unlock
<1>6. SameInput(q, sm')
  BY <1>4, <1>5, UninhibitSame
<1> QED  BY <1>3, <1>6 DEF SameInput, Untimed, NoTimeouts

LEMMA ClearInputs == ASSUME IndInv, Clear PROVE sm'.rawInput = FALSE /\ Untimed
<1>1. Core(sm)
  BY DEF IndInv, Sound
<1>2. PICK c : c = CancelPending(sm)
  OBVIOUS
<1>3. PICK d : d = CancelTimeout(c)
  OBVIOUS
<1>4. Core(c) /\ SameInput(sm, c)
  BY <1>1, <1>2, CancelSame, CancelPendingCore
<1>5. Core(d) /\ SameInput(c, d)
  BY <1>3, <1>4, CancelSame, CancelTimeoutCore
<1>6. sm' = [d EXCEPT !.latched = FALSE, !.retAccumulated = 0, !.retStartedAt = NoTime,
                      !.rawInput = FALSE, !.state = Inactive]
  BY <1>2, <1>3 DEF Clear, Unlock, Cleared
<1>7. sm'.clock = d.clock /\ sm'.rawInput = FALSE
  BY <1>5, <1>6 DEF Core, StateMachine
<1> QED  BY <1>4, <1>5, <1>7 DEF SameInput, Untimed, NoTimeouts

LEMMA TickInput == ASSUME IndInv, Tick PROVE sm'.rawInput = sm.rawInput /\ Untimed
<1>1. sm \in StateMachine
  BY DEF IndInv, TypeOK
<1>2. /\ sm'.rawInput = sm.rawInput
      /\ sm'.clock = [i \in TimerIds |-> IF sm.clock[i].phase = "armed"
                                           THEN [sm.clock[i] EXCEPT !.left = @ - 1] ELSE sm.clock[i]]
  BY <1>1 DEF Tick, StateMachine
<1>3. \A i \in TimerIds : sm.clock[i] \in Timer
  BY <1>1 DEF StateMachine
<1>4. \A i \in TimerIds : sm'.clock[i].fn = sm.clock[i].fn
  BY <1>2, <1>3 DEF Timer, Idle
<1> QED  BY <1>2, <1>4 DEF Untimed, NoTimeouts

LEMMA LaunchInput ==
  ASSUME IndInv, NEW i \in TimerIds, Launch(i) PROVE sm'.rawInput = sm.rawInput /\ Untimed
<1>1. sm \in StateMachine /\ sm.clock[i] \in Timer
  BY DEF IndInv, TypeOK, StateMachine
<1>2. /\ sm'.rawInput = sm.rawInput /\ sm'.clock[i].fn = sm.clock[i].fn
      /\ \A j \in TimerIds \ {i} : sm'.clock[j] = sm.clock[j]
  BY <1>1 DEF Launch, StateMachine, Timer, Idle
<1> QED  BY <1>2 DEF Untimed, NoTimeouts

\* No callback but a timeout's takes the input down.
LEMMA CallbackInput ==
  ASSUME IndInv, Timeout = 0, NoTimeouts(sm), NEW i \in TimerIds, RunCallback(i)
  PROVE  sm'.rawInput = sm.rawInput /\ NoTimeouts(sm')
<1>1. TypeOK /\ Sound(sm)
  BY DEF IndInv
<1>2. PICK r : r = Ran(i)
  OBVIOUS
<1>3. r.rawInput = sm.rawInput /\ NoTimeouts(r)
  <2>1. sm \in StateMachine
    BY <1>1 DEF TypeOK
  <2>2. /\ r.rawInput = sm.rawInput /\ r.clock[i] = Idle
        /\ \A j \in TimerIds \ {i} : r.clock[j] = sm.clock[j]
    BY <1>2, <2>1 DEF Ran, StateMachine
  <2> QED  BY <2>2 DEF NoTimeouts, Idle
<1>4. ASSUME NEW f \in Callback, Enter(i, f)
      PROVE  Used(sm, i, f, r) /\ FreeIds(r) # {} /\ r \in StateMachine
             /\ (f # "onCooldownTimer" => Core(r))
  <2>1. Used(sm, i, f, r) /\ FreeIds(r) # {}
    BY <1>1, <1>2, <1>4, RanUsed DEF Enter
  <2> QED  BY <1>1, <2>1, UsedCore DEF Used
<1>5. ASSUME NEW q, SameInput(q, sm'), q.rawInput = r.rawInput, q.clock = r.clock
      PROVE  sm'.rawInput = sm.rawInput /\ NoTimeouts(sm')
  BY <1>3, <1>5 DEF SameInput, NoTimeouts
<1>6. CASE OnActivateTimer(i)
  <2>1. Core(r) /\ FreeIds(r) # {} /\ r \in StateMachine /\ sm' = ActivateFired(r)
    BY <1>2, <1>4, <1>6 DEF OnActivateTimer, Callback, Unlock
  <2>2. PICK q : q = [r EXCEPT !.pendingTimer = NoTimer]
    OBVIOUS
  <2>3. /\ q \in StateMachine /\ q.rawInput = r.rawInput /\ q.clock = r.clock /\ q.latched = r.latched
        /\ q.timeoutTimer = r.timeoutTimer /\ q.pendingTimer = NoTimer
        /\ q.cooldownTimer = r.cooldownTimer /\ q.cooldownUntil = r.cooldownUntil
    BY <2>1, <2>2 DEF StateMachine
  <2>4. Core(q) /\ FreeIds(q) # {}
    <3>1. q.latched => Latch
      BY <2>1, <2>3 DEF Core
    <3> QED  BY <2>1, <2>3, <3>1, CoreFields
  <2>5. SameInput(q, BecomeActive(q)) /\ SameInput(r, r)
    BY <2>4, BecomeActiveSame DEF SameInput
  <2>6. sm' \in {BecomeActive(q), r}
    BY <2>1, <2>2 DEF ActivateFired
  <2> QED  BY <1>5, <2>3, <2>5, <2>6
<1>7. CASE OnDeactivateTimer(i)
  <2>1. Core(r) /\ FreeIds(r) # {} /\ r \in StateMachine /\ sm' = DeactivateFired(r)
    BY <1>2, <1>4, <1>7 DEF OnDeactivateTimer, Callback, Unlock
  <2>2. PICK q : q = [r EXCEPT !.pendingTimer = NoTimer]
    OBVIOUS
  <2>3. /\ q \in StateMachine /\ q.rawInput = r.rawInput /\ q.clock = r.clock /\ q.latched = r.latched
        /\ q.timeoutTimer = r.timeoutTimer /\ q.pendingTimer = NoTimer
        /\ q.cooldownTimer = r.cooldownTimer /\ q.cooldownUntil = r.cooldownUntil
    BY <2>1, <2>2 DEF StateMachine
  <2>4. Core(q) /\ FreeIds(q) # {}
    <3>1. q.latched => Latch
      BY <2>1, <2>3 DEF Core
    <3> QED  BY <2>1, <2>3, <3>1, CoreFields
  <2>5. SameInput(q, BecomeInactive(q)) /\ SameInput(r, r)
    BY <2>4, BecomeInactiveSame DEF SameInput
  <2>6. sm' \in {BecomeInactive(q), r}
    BY <2>1, <2>2 DEF DeactivateFired
  <2> QED  BY <1>5, <2>3, <2>5, <2>6
<1>8. CASE OnTimeoutTimer(i)
  BY <1>8 DEF OnTimeoutTimer, Enter, NoTimeouts
<1>9. CASE OnCooldownTimer(i)
  <2>1. /\ Used(sm, i, "onCooldownTimer", r) /\ FreeIds(r) # {} /\ r \in StateMachine
        /\ sm' = CooldownFired(r)
    BY <1>2, <1>4, <1>9 DEF OnCooldownTimer, Callback, Unlock
  <2>2. PICK q : q = [r EXCEPT !.cooldownTimer = NoTimer, !.cooldownUntil = 0]
    OBVIOUS
  <2>3. /\ q \in StateMachine /\ q.rawInput = r.rawInput /\ q.clock = r.clock /\ q.latched = r.latched
        /\ q.timeoutTimer = r.timeoutTimer /\ q.pendingTimer = r.pendingTimer
        /\ q.cooldownTimer = NoTimer /\ q.cooldownUntil = 0
    BY <2>1, <2>2 DEF StateMachine
  <2>4. FreeIds(q) # {} /\ \A f \in Callback : Outstanding(q, f) = Outstanding(r, f)
    BY <2>1, <2>3 DEF FreeIds, Handles, Outstanding
  <2>5. Core(q)
    BY <1>1, <2>1, <2>3, <2>4 DEF Sound, Core, Used, HandleKinds, SameButTimers, Callback
  <2>6. SameInput(q, Uninhibit(q)) /\ sm' = Uninhibit(q)
    BY <2>1, <2>2, <2>4, <2>5, UninhibitSame DEF CooldownFired
  <2> QED  BY <1>5, <2>3, <2>6
<1> QED  BY <1>6, <1>7, <1>8, <1>9 DEF RunCallback

-----------------------------------------------------------------------------
(* Types, and the refinement.                                              *)

CondType ==
  [rawInput : BOOLEAN, stableInput : BOOLEAN, debTimer : DebIds \cup {NoTimer}]
Place ==
  [at : {"idle", "eval", "submit", "forward", "clear", "resample", "reassert"}, value : BOOLEAN]
DebType == [phase : {"idle", "armed", "launched"}, left : 0..Debounce]

TypesT ==
  /\ t \in CondType /\ deb \in [DebIds -> DebType] /\ tasks \in [Tasks -> Place]
  /\ source \in BOOLEAN /\ wanted \in BOOLEAN /\ solo \in Callers \cup {Nobody}

TimerInv == IndInv /\ TypesT /\ EdgeNotStranded

\* The stale view is a view, reconciled or not, and says what the machine has.
LEMMA ReconcileFacts ==
  ASSUME IndInv, TypesT
  PROVE  /\ Reconcile(t) \in CondType /\ Reconcile(t).stableInput = sm.rawInput
         /\ Reconcile(t).rawInput \in {t.rawInput, sm.rawInput}
         /\ Reconcile(t) # t => Reconcile(t).rawInput = Reconcile(t).stableInput
BY DEF Reconcile, IndInv, TypeOK, StateMachine, TypesT, CondType

LEMMA TimerInit == TimerOK /\ InitT => TimerInv
<1> SUFFICES ASSUME TimerOK, InitT PROVE TimerInv
  OBVIOUS
<1>1. IndInv
  BY IndInvInit DEF InitT
<1>2. /\ t = [rawInput |-> StartActive, stableInput |-> StartActive, debTimer |-> NoTimer]
      /\ deb = [i \in DebIds |-> NoDeb] /\ source \in BOOLEAN /\ wanted = StartActive /\ solo = Nobody
  BY DEF InitT
<1>3. NoDeb \in DebType
  BY DEF NoDeb, DebType, TimerOK
<1>4. tasks \in [Tasks -> Place]
  <2>1. Returned \in Place /\ [at |-> "eval", value |-> FALSE] \in Place
    BY DEF Returned, Place
  <2>2. CASE HasInput
    <3>1. PICK c \in Callers :
            tasks = [i \in Tasks |-> IF i = c THEN [at |-> "eval", value |-> FALSE] ELSE Returned]
      BY <2>2 DEF InitT
    <3> QED  BY <2>1, <3>1
  <2>3. CASE ~HasInput
    BY <2>1, <2>3 DEF InitT
  <2> QED  BY <2>2, <2>3
<1>5. TypesT
  BY <1>2, <1>3, <1>4 DEF TypesT, CondType
<1> QED  BY <1>1, <1>2, <1>5 DEF TimerInv, EdgeNotStranded

\* Whatever the condition does, its machine takes a step of its own or none.
LEMMA MachineOnly == ASSUME TypesT, [NextT]_allVars PROVE [Next]_vars
<1>1. ASSUME NEW c \in Tasks, Forward(c) PROVE [Next]_vars
  <2>1. tasks[c].value \in BOOLEAN
    BY DEF TypesT, Place
  <2>2. CASE sm.rawInput = tasks[c].value
    BY <1>1, <2>2 DEF Forward
  <2>3. CASE sm.rawInput # tasks[c].value
    BY <1>1, <2>1, <2>3 DEF Forward, Next
  <2> QED  BY <2>2, <2>3
<1>2. ASSUME NEW c \in Tasks, ClearMachine(c) PROVE [Next]_vars
  BY <1>2 DEF ClearMachine, Next
<1>3. ASSUME NEW c \in Tasks, Eval(c) \/ SubmitInput(c) \/ Resample(c) \/ Reassert(c) PROVE [Next]_vars
  BY <1>3 DEF Eval, SubmitInput, Resample, Reassert
<1>4. ASSUME NEW c \in Callers, \/ \E value \in BOOLEAN : Set(c, value)
                                \/ Toggle(c) \/ Change(c) \/ ClearInput(c)
      PROVE  [Next]_vars
  BY <1>4 DEF Set, Toggle, Change, ClearInput
<1>5. ASSUME NEW i \in DebIds, DebLaunch(i) \/ OnDebounceFire(i) PROVE [Next]_vars
  BY <1>5 DEF DebLaunch, OnDebounceFire
<1>6. CASE MachineStep
  BY <1>6 DEF MachineStep, Next
<1>7. CASE InhibitChange
  BY <1>7 DEF InhibitChange, Next
<1>8. CASE TickT
  BY <1>8 DEF TickT, Next
<1>9. CASE UNCHANGED allVars
  BY <1>9 DEF allVars
<1> QED  BY <1>1, <1>2, <1>3, <1>4, <1>5, <1>6, <1>7, <1>8, <1>9 DEF NextT, CallStep

\* A task moves to its next critical section.
LEMMA GotoFacts ==
  ASSUME TypesT, NEW c \in Tasks, NEW x \in Place, tasks' = [tasks EXCEPT ![c] = x]
  PROVE  /\ tasks' \in [Tasks -> Place] /\ tasks'[c] = x
         /\ \A k \in Tasks \ {c} : tasks'[k] = tasks[k]
BY DEF TypesT

LEMMA DebStoppedFacts ==
  ASSUME TimerOK, TypesT
  PROVE  /\ NoDeb \in DebType /\ NewDeb \in DebType /\ NewDeb # NoDeb
         /\ DebStopped \in [DebIds -> DebType]
         /\ \A i \in DebIds : deb[i] = NoDeb => DebStopped[i] = NoDeb
<1>1. NoDeb \in DebType /\ NewDeb \in DebType /\ NewDeb # NoDeb
  BY DEF NoDeb, NewDeb, DebType, TimerOK
<1> QED  BY <1>1 DEF DebStopped, TypesT

\* submitInput, by what it does to the condition and the task.
LEMMA SubmitFacts ==
  ASSUME TimerOK, IndInv, TypesT, NEW c \in Tasks, SubmitInput(c)
  PROVE  LET v == tasks[c].value
         IN  /\ v \in BOOLEAN /\ wanted' = v /\ tasks[c].at = "submit"
             /\ UNCHANGED <<vars, source, solo>>
             /\ t' \in CondType /\ t'.rawInput = v /\ deb' \in [DebIds -> DebType]
             /\ \/ /\ v = sm.rawInput /\ t'.stableInput = v /\ tasks' = [tasks EXCEPT ![c] = Returned]
                   /\ \A i \in DebIds : deb[i] = NoDeb => deb'[i] = NoDeb
                \/ /\ Debounce = 0 /\ t'.stableInput = v
                   /\ tasks' = [tasks EXCEPT ![c] = [at |-> "forward", value |-> v]]
                   /\ UNCHANGED deb
                \/ /\ Debounce # 0 /\ t'.stableInput = sm.rawInput
                   /\ tasks' = [tasks EXCEPT ![c] = Returned]
                   /\ \E i \in DebIds : /\ deb'[i] # NoDeb
                                        /\ \A j \in DebIds \ {i} : deb[j] = NoDeb => deb'[j] = NoDeb
<1>1. PICK v \in BOOLEAN : v = tasks[c].value
  BY DEF TypesT, Place
<1>2. PICK s : s = [Reconcile(t) EXCEPT !.rawInput = v]
  OBVIOUS
<1>3. s \in CondType /\ s.rawInput = v /\ s.stableInput = sm.rawInput
  BY <1>2, ReconcileFacts DEF CondType
<1>4. tasks[c].at = "submit" /\ wanted' = v /\ UNCHANGED <<vars, source, solo>>
  BY <1>1 DEF SubmitInput, Standing
<1>5. CASE Debounce = 0
  <2>1. /\ t' = [s EXCEPT !.stableInput = v] /\ UNCHANGED deb
        /\ tasks' = [tasks EXCEPT ![c] = IF v = s.stableInput THEN Returned
                                         ELSE [at |-> "forward", value |-> v]]
    BY <1>1, <1>2, <1>5 DEF SubmitInput, SubmitDirect, Return, Goto
  <2>2. t' \in CondType /\ t'.rawInput = v /\ t'.stableInput = v
    BY <1>3, <2>1 DEF CondType
  <2> QED  BY <1>1, <1>3, <1>4, <1>5, <2>1, <2>2 DEF TypesT
<1>6. CASE Debounce # 0
  <2>1. /\ tasks' = [tasks EXCEPT ![c] = Returned]
        /\ IF v = s.stableInput
             THEN t' = [s EXCEPT !.debTimer = NoTimer] /\ deb' = DebStopped
             ELSE \E i \in FreeDeb : /\ t' = [s EXCEPT !.debTimer = i]
                                     /\ deb' = [DebStopped EXCEPT ![i] = NewDeb]
    BY <1>1, <1>2, <1>6 DEF SubmitInput, SubmitDebounced, Return
  <2>2. CASE v = s.stableInput
    <3>1. t' \in CondType /\ t'.rawInput = v /\ t'.stableInput = v
      BY <1>3, <2>1, <2>2 DEF CondType
    <3> QED  BY <1>1, <1>3, <1>4, <2>1, <2>2, <3>1, DebStoppedFacts
  <2>3. CASE v # s.stableInput
    <3>1. PICK i \in DebIds : /\ t' = [s EXCEPT !.debTimer = i]
                              /\ deb' = [DebStopped EXCEPT ![i] = NewDeb]
      BY <2>1, <2>3 DEF FreeDeb
    <3>2. t' \in CondType /\ t'.rawInput = v /\ t'.stableInput = sm.rawInput
      BY <1>3, <3>1 DEF CondType
    <3>3. /\ deb' \in [DebIds -> DebType] /\ deb'[i] # NoDeb
          /\ \A j \in DebIds \ {i} : deb[j] = NoDeb => deb'[j] = NoDeb
      BY <3>1, DebStoppedFacts
    <3> QED  BY <1>1, <1>4, <1>6, <2>1, <3>2, <3>3
  <2> QED  BY <2>2, <2>3
<1> QED  BY <1>5, <1>6

LEMMA TimerKept == TimerOK /\ TimerInv /\ [NextT]_allVars => TimerInv'
<1> SUFFICES ASSUME TimerOK, IndInv, TypesT, EdgeNotStranded, [NextT]_allVars PROVE TimerInv'
  BY DEF TimerInv
<1>1. IndInv'
  BY MachineOnly, IndInvNext
<1> USE DEF Tasks
\* Where the condition and its debounce timers do not change, only the task
\* and the auxiliary variables can go wrong.
<1>2. ASSUME tasks' \in [Tasks -> Place], source' \in BOOLEAN, wanted' \in BOOLEAN,
             solo' \in Callers \cup {Nobody}, UNCHANGED <<t, deb>>
      PROVE  TypesT' /\ EdgeNotStranded'
  BY <1>2 DEF TypesT, EdgeNotStranded
<1>3. ASSUME NEW c \in Callers, Begin(c) PROVE solo' \in Callers \cup {Nobody}
  BY <1>3 DEF Begin
<1>4. Returned \in Place
  BY DEF Returned, Place
<1>5. ASSUME NEW c \in Tasks, NEW v \in BOOLEAN,
             NEW at \in {"eval", "submit", "forward", "clear", "resample", "reassert"}
      PROVE  [at |-> at, value |-> v] \in Place
  BY DEF Place
<1>6. ASSUME NEW c \in Callers, NEW v \in BOOLEAN, Set(c, v) PROVE TypesT' /\ EdgeNotStranded'
  <2>1. tasks' \in [Tasks -> Place]
    BY <1>5, <1>6, GotoFacts DEF Set, Goto
  <2> QED  BY <1>2, <1>3, <1>6, <2>1 DEF Set, TypesT
<1>7. ASSUME NEW c \in Callers, Toggle(c) PROVE TypesT' /\ EdgeNotStranded'
  <2>1. t' = Reconcile(t) /\ Begin(c) /\ UNCHANGED <<deb, source, wanted>>
    BY <1>7 DEF Toggle
  <2>2. t' \in CondType /\ (t' = t \/ t'.rawInput = t'.stableInput)
    BY <2>1, ReconcileFacts
  <2>3. tasks' \in [Tasks -> Place]
    <3>1. (~t'.stableInput) \in BOOLEAN
      BY <2>2 DEF CondType
    <3>2. tasks' = [tasks EXCEPT ![c] = [at |-> "submit", value |-> ~t'.stableInput]]
      BY <1>7 DEF Toggle, Goto
    <3> QED  BY <1>5, <3>1, <3>2, GotoFacts
  <2> QED  BY <1>3, <2>1, <2>2, <2>3 DEF TypesT, EdgeNotStranded
<1>8. ASSUME NEW c \in Callers, Change(c) PROVE TypesT' /\ EdgeNotStranded'
  <2>1. tasks' \in [Tasks -> Place]
    BY <1>5, <1>8, GotoFacts DEF Change, Goto
  <2>2. source' \in BOOLEAN
    BY <1>8 DEF Change, TypesT
  <2> QED  BY <1>2, <1>3, <1>8, <2>1, <2>2 DEF Change, TypesT
<1>9. ASSUME NEW c \in Callers, ClearInput(c) PROVE TypesT' /\ EdgeNotStranded'
  <2>1. tasks' \in [Tasks -> Place]
    BY <1>5, <1>9, GotoFacts DEF ClearInput, Goto
  <2>2. /\ t' \in CondType /\ t'.rawInput = t'.stableInput /\ deb' \in [DebIds -> DebType]
        /\ wanted' = FALSE /\ source' = source /\ Begin(c)
    BY <1>9, DebStoppedFacts DEF ClearInput, CondType
  <2> QED  BY <1>3, <2>1, <2>2 DEF TypesT, EdgeNotStranded
<1>10. ASSUME NEW c \in Tasks, Eval(c) PROVE TypesT' /\ EdgeNotStranded'
  <2>1. tasks' \in [Tasks -> Place]
    BY <1>5, <1>10, GotoFacts DEF Eval, Goto, TypesT
  <2> QED  BY <1>2, <1>10, <2>1 DEF Eval, TypesT
<1>11. ASSUME NEW c \in Tasks, SubmitInput(c) PROVE TypesT' /\ EdgeNotStranded'
  <2>1. PICK v : v = tasks[c].value
    OBVIOUS
  <2>2. /\ v \in BOOLEAN /\ wanted' = v /\ UNCHANGED <<source, solo>>
        /\ t' \in CondType /\ t'.rawInput = v /\ deb' \in [DebIds -> DebType]
        /\ \/ t'.stableInput = v
           \/ \E i \in DebIds : deb'[i] # NoDeb
        /\ \/ tasks' = [tasks EXCEPT ![c] = Returned]
           \/ tasks' = [tasks EXCEPT ![c] = [at |-> "forward", value |-> v]]
    BY <1>11, <2>1, SubmitFacts
  <2>3. tasks' \in [Tasks -> Place]
    BY <1>4, <1>5, <2>2, GotoFacts
  <2> QED  BY <2>2, <2>3 DEF TypesT, EdgeNotStranded
<1>12. ASSUME NEW c \in Tasks, Forward(c) PROVE TypesT' /\ EdgeNotStranded'
  <2>1. tasks' \in [Tasks -> Place]
    BY <1>4, <1>12, GotoFacts DEF Forward, Return
  <2> QED  BY <1>2, <1>12, <2>1 DEF Forward, TypesT
<1>13. ASSUME NEW c \in Tasks, ClearMachine(c) PROVE TypesT' /\ EdgeNotStranded'
  <2>1. tasks' \in [Tasks -> Place]
    BY <1>4, <1>5, <1>13, GotoFacts DEF ClearMachine, Return, Goto
  <2> QED  BY <1>2, <1>13, <2>1 DEF ClearMachine, TypesT
<1>14. ASSUME NEW c \in Tasks, Resample(c) PROVE TypesT' /\ EdgeNotStranded'
  <2>1. tasks' \in [Tasks -> Place]
    BY <1>4, <1>5, <1>14, GotoFacts DEF Resample, Return, Goto
  <2> QED  BY <1>2, <1>14, <2>1 DEF Resample, TypesT
<1>15. ASSUME NEW c \in Tasks, Reassert(c) PROVE TypesT' /\ EdgeNotStranded'
  <2>1. tasks' \in [Tasks -> Place]
    BY <1>5, <1>15, GotoFacts DEF Reassert, Goto
  <2>2. /\ t' \in CondType /\ t'.rawInput = t'.stableInput /\ wanted' = TRUE
        /\ UNCHANGED <<deb, source, solo>>
    BY <1>15 DEF Reassert, CondType, TypesT
  <2> QED  BY <2>1, <2>2 DEF TypesT, EdgeNotStranded
<1>16. ASSUME NEW i \in DebIds, DebLaunch(i) PROVE TypesT' /\ EdgeNotStranded'
  <2>1. deb' = [deb EXCEPT ![i].phase = "launched"] /\ UNCHANGED <<t, tasks, source, wanted, solo>>
    BY <1>16 DEF DebLaunch
  <2>2. deb' \in [DebIds -> DebType] /\ deb'[i].phase = "launched" /\ \A j \in DebIds \ {i} : deb'[j] = deb[j]
    BY <2>1 DEF TypesT, DebType
  <2>3. deb'[i] # NoDeb
    BY <2>2 DEF NoDeb
  <2> QED  BY <2>1, <2>2, <2>3 DEF TypesT, EdgeNotStranded
<1>17. ASSUME NEW i \in DebIds, OnDebounceFire(i) PROVE TypesT' /\ EdgeNotStranded'
  <2>1. deb' \in [DebIds -> DebType]
    BY <1>17, DebStoppedFacts DEF OnDebounceFire, TypesT
  <2>2. t' \in CondType /\ t'.rawInput = t'.stableInput /\ t.rawInput \in BOOLEAN
    BY <1>17 DEF OnDebounceFire, TypesT, CondType
  <2>3. tasks' \in [Tasks -> Place]
    <3>1. CASE UNCHANGED tasks
      BY <3>1 DEF TypesT
    <3>2. CASE tasks' = [tasks EXCEPT ![i] = [at |-> "forward", value |-> t.rawInput]]
      BY <1>5, <2>2, <3>2, GotoFacts
    <3> QED  BY <1>17, <3>1, <3>2 DEF OnDebounceFire, Goto
  <2> QED  BY <1>17, <2>1, <2>2, <2>3 DEF OnDebounceFire, TypesT, EdgeNotStranded
<1>18. ASSUME TickT PROVE TypesT' /\ EdgeNotStranded'
  <2>1. /\ \A i \in DebIds : ~DebDue(i)
        /\ deb' = [i \in DebIds |-> IF deb[i].phase = "armed" THEN [deb[i] EXCEPT !.left = @ - 1]
                                                              ELSE deb[i]]
        /\ UNCHANGED <<t, tasks, source, wanted, solo>>
    BY <1>18 DEF TickT
  <2>2. \A i \in DebIds : deb[i].phase = "armed" => [deb[i] EXCEPT !.left = @ - 1] \in DebType
    <3> SUFFICES ASSUME NEW i \in DebIds, deb[i].phase = "armed"
                 PROVE  [deb[i] EXCEPT !.left = @ - 1] \in DebType
      OBVIOUS
    <3>1. deb[i] \in DebType /\ deb[i] # [phase |-> "armed", left |-> 0]
      BY <2>1 DEF TypesT, DebDue
    <3>2. deb[i] = [phase |-> "armed", left |-> deb[i].left]
      BY <3>1 DEF DebType
    <3>3. deb[i].left \in 0..Debounce /\ deb[i].left # 0
      BY <3>1, <3>2 DEF DebType
    <3> QED  BY <3>1, <3>3 DEF DebType, TimerOK
  <2>3. deb' \in [DebIds -> DebType]
    BY <2>1, <2>2 DEF TypesT
  <2>4. \A i \in DebIds : deb[i] # NoDeb => deb'[i] # NoDeb
    <3> SUFFICES ASSUME NEW i \in DebIds, deb[i] # NoDeb PROVE deb'[i] # NoDeb
      OBVIOUS
    <3>1. CASE deb[i].phase = "armed"
      <4>1. deb'[i].phase = "armed"
        BY <2>1, <3>1 DEF TypesT, DebType
      <4> QED  BY <4>1 DEF NoDeb
    <3>2. CASE deb[i].phase # "armed"
      BY <2>1, <3>2
    <3> QED  BY <3>1, <3>2
  <2> QED  BY <2>1, <2>3, <2>4 DEF TypesT, EdgeNotStranded
<1>19. ASSUME MachineStep PROVE TypesT' /\ EdgeNotStranded'
  BY <1>2, <1>19 DEF MachineStep, TypesT
<1>20. ASSUME InhibitChange PROVE TypesT' /\ EdgeNotStranded'
  BY <1>2, <1>20 DEF InhibitChange, TypesT, tvars
<1>21. ASSUME UNCHANGED allVars PROVE TypesT' /\ EdgeNotStranded'
  BY <1>2, <1>21 DEF allVars, TypesT, tvars
<1>22. TypesT' /\ EdgeNotStranded'
  BY <1>6, <1>7, <1>8, <1>9, <1>10, <1>11, <1>12, <1>13, <1>14, <1>15, <1>16, <1>17,
     <1>18, <1>19, <1>20, <1>21 DEF NextT, CallStep
<1> QED  BY <1>1, <1>22 DEF TimerInv

LEMMA TimerInvariance == TimerOK => (SpecT => []TimerInv)
<1> SUFFICES ASSUME TimerOK PROVE SpecT => []TimerInv
  OBVIOUS
<1>1. InitT => TimerInv
  BY TimerInit
<1>2. TimerInv /\ [NextT]_allVars => TimerInv'
  BY TimerKept
<1> QED  BY <1>1, <1>2, PTL DEF SpecT

\* The timer condition implements its state machine: whatever callers,
\* debounce callbacks and a reactive input do between t.mu and sm.mu, the
\* machine takes only steps of its own, so every theorem about it holds here.
THEOREM TimerImplementsMachine == TimerOK => (SpecT => Spec)
<1> SUFFICES ASSUME TimerOK PROVE SpecT => Spec
  OBVIOUS
<1>1. SpecT => []TimerInv
  BY TimerInvariance
<1>2. InitT => Init
  BY DEF InitT
<1>3. TimerInv /\ [NextT]_allVars => [Next]_vars
  BY MachineOnly DEF TimerInv
<1> QED  BY <1>1, <1>2, <1>3, PTL DEF SpecT, Spec

\* Types: a debounce timer counts down from the configured window and never
\* past its end, and debTimer names a timer or nothing.
THEOREM TimerTypeCorrect == TimerOK => (SpecT => []TypeOKT)
<1> SUFFICES ASSUME TimerOK PROVE SpecT => []TypeOKT
  OBVIOUS
<1>1. SpecT => []TimerInv
  BY TimerInvariance
<1>2. TimerInv => TypeOKT
  BY DEF TimerInv, IndInv, TypesT, TypeOKT, CondType, Place, DebType
<1> QED  BY <1>1, <1>2, PTL

\* An edge that waits for debounce has a timer that takes it up again,
\* whatever timers late callbacks and restarts have orphaned (submitInput).
THEOREM EdgeNeverStranded == TimerOK => (SpecT => []EdgeNotStranded)
<1> SUFFICES ASSUME TimerOK PROVE SpecT => []EdgeNotStranded
  OBVIOUS
<1>1. SpecT => []TimerInv
  BY TimerInvariance
<1>2. TimerInv => EdgeNotStranded
  BY DEF TimerInv
<1> QED  BY <1>1, <1>2, PTL

-----------------------------------------------------------------------------
(* A call that nothing overlaps.                                           *)

NoneWaits == \A i \in DebIds : deb[i] = NoDeb

\* The one goroutine under way, a caller's or a debounce callback's, and what
\* it carries; when it has returned the machine has it.
Carrying(c) ==
  /\ \A k \in Tasks \ {c} : Standing(k, "idle")
  /\ NoneWaits
  /\ Standing(c, "idle") => sm.rawInput = wanted
  /\ Standing(c, "forward") => tasks[c].value = wanted
  /\ Standing(c, "clear") => wanted = FALSE
  /\ Standing(c, "resample") => wanted = FALSE /\ sm.rawInput = FALSE

\* Nobody is under way, and one debounce timer holds what was submitted.
Waiting ==
  /\ Debounce # 0 /\ t.rawInput = wanted /\ t.stableInput = sm.rawInput
  /\ \A k \in Tasks : Standing(k, "idle")
  /\ \E i \in DebIds : \A j \in DebIds \ {i} : deb[j] = NoDeb

Alone == solo # Nobody => Waiting \/ \E c \in Tasks : Carrying(c)

LEMMA AloneKept == TimerOK /\ TimerInv /\ Alone /\ [NextT]_allVars => Alone'
<1> SUFFICES ASSUME TimerOK, IndInv, TypesT, Alone, [NextT]_allVars, solo' # Nobody
             PROVE  Waiting' \/ \E c \in Tasks : Carrying(c)'
  BY DEF TimerInv, Alone
<1> USE DEF Tasks
<1>0. Returned.at = "idle" /\ Returned \in Place
  BY DEF Returned, Place
\* A call begins: it is alone only if nothing was under way.
<1>1. ASSUME NEW c \in Callers, Begin(c), NEW at \in {"eval", "submit", "clear"}, NEW v \in BOOLEAN,
             tasks' = [tasks EXCEPT ![c] = [at |-> at, value |-> v]],
             deb' = deb \/ deb' = DebStopped, at = "clear" => wanted' = FALSE
      PROVE  Carrying(c)'
  <2>1. Quiet
    BY <1>1 DEF Begin
  <2>2. [at |-> at, value |-> v] \in Place
    BY <1>1 DEF Place
  <2>3. tasks'[c].at = at /\ \A k \in Tasks \ {c} : tasks'[k].at = "idle"
    BY <1>1, <2>1, <2>2, GotoFacts DEF Quiet, Standing
  <2>4. NoneWaits'
    BY <1>1, <2>1, DebStoppedFacts DEF Quiet, NoneWaits
  <2> QED  BY <1>1, <2>3, <2>4 DEF Carrying, Standing
<1>2. ASSUME NEW c \in Callers, NEW v \in BOOLEAN, Set(c, v) PROVE Carrying(c)'
  BY <1>1, <1>2 DEF Set, Goto
<1>3. ASSUME NEW c \in Callers, Toggle(c) PROVE Carrying(c)'
  <2>1. PICK v \in BOOLEAN : v = ~t'.stableInput
    OBVIOUS
  <2>2. Begin(c) /\ deb' = deb /\ tasks' = [tasks EXCEPT ![c] = [at |-> "submit", value |-> v]]
    BY <1>3, <2>1 DEF Toggle, Goto
  <2> QED  BY <1>1, <2>2
<1>4. ASSUME NEW c \in Callers, Change(c) PROVE Carrying(c)'
  BY <1>1, <1>4 DEF Change, Goto
<1>5. ASSUME NEW c \in Callers, ClearInput(c) PROVE Carrying(c)'
  BY <1>1, <1>5 DEF ClearInput, Goto
\* A step of a task: it is the one that was under way.
<1>6. ASSUME NEW c \in Tasks, ~Standing(c, "idle"), UNCHANGED solo PROVE Carrying(c)
  <2>1. ~Waiting /\ \A k \in Tasks : Carrying(k) => k = c
    BY <1>6 DEF Waiting, Carrying
  <2> QED  BY <1>6, <2>1 DEF Alone
<1>7. ASSUME NEW c \in Tasks, Carrying(c), NEW x \in Place, tasks' = [tasks EXCEPT ![c] = x],
             UNCHANGED deb,
             x.at = "idle" => (sm.rawInput = wanted)',
             x.at = "forward" => x.value = wanted',
             x.at = "clear" => wanted' = FALSE,
             x.at = "resample" => wanted' = FALSE /\ sm'.rawInput = FALSE
      PROVE  Carrying(c)'
  <2>1. tasks'[c] = x /\ \A k \in Tasks \ {c} : tasks'[k] = tasks[k]
    BY <1>7, GotoFacts
  <2> QED  BY <1>7, <2>1 DEF Carrying, Standing, NoneWaits
<1>8. ASSUME NEW c \in Tasks, Eval(c) PROVE Carrying(c)'
  <2>1. PICK v \in BOOLEAN : v = source
    BY DEF TypesT
  <2>2. PICK x : x = [at |-> "submit", value |-> v]
    OBVIOUS
  <2>3. x \in Place /\ x.at = "submit"
    BY <2>2 DEF Place
  <2>4. Carrying(c)
    BY <1>6, <1>8 DEF Eval, Standing
  <2> QED  BY <1>7, <1>8, <2>1, <2>2, <2>3, <2>4 DEF Eval, Goto
<1>9. ASSUME NEW c \in Tasks, SubmitInput(c) PROVE Waiting' \/ Carrying(c)'
  <2>1. PICK v : v = tasks[c].value
    OBVIOUS
  <2>2. /\ v \in BOOLEAN /\ wanted' = v /\ tasks[c].at = "submit" /\ UNCHANGED <<sm, solo>>
        /\ t'.rawInput = v
        /\ \/ /\ v = sm.rawInput /\ tasks' = [tasks EXCEPT ![c] = Returned]
              /\ \A i \in DebIds : deb[i] = NoDeb => deb'[i] = NoDeb
           \/ /\ tasks' = [tasks EXCEPT ![c] = [at |-> "forward", value |-> v]]
              /\ UNCHANGED deb
           \/ /\ Debounce # 0 /\ t'.stableInput = sm.rawInput
              /\ tasks' = [tasks EXCEPT ![c] = Returned]
              /\ \E i \in DebIds : /\ deb'[i] # NoDeb
                                   /\ \A j \in DebIds \ {i} : deb[j] = NoDeb => deb'[j] = NoDeb
    BY <1>9, <2>1, SubmitFacts DEF vars
  <2>3. Carrying(c)
    BY <1>6, <2>2 DEF Standing
  <2>4. ASSUME tasks' = [tasks EXCEPT ![c] = Returned] PROVE \A k \in Tasks : tasks'[k].at = "idle"
    BY <1>0, <2>3, <2>4, GotoFacts DEF Carrying, Standing
  <2>5. CASE /\ v = sm.rawInput /\ tasks' = [tasks EXCEPT ![c] = Returned]
             /\ \A i \in DebIds : deb[i] = NoDeb => deb'[i] = NoDeb
    BY <2>2, <2>3, <2>4, <2>5 DEF Carrying, Standing, NoneWaits
  <2>6. CASE tasks' = [tasks EXCEPT ![c] = [at |-> "forward", value |-> v]] /\ UNCHANGED deb
    <3>1. PICK x : x = [at |-> "forward", value |-> v]
      OBVIOUS
    <3>2. x \in Place /\ x.at = "forward" /\ x.value = v
      BY <2>2, <3>1 DEF Place
    <3> QED  BY <1>7, <2>2, <2>3, <2>6, <3>1, <3>2
  <2>7. CASE /\ Debounce # 0 /\ t'.stableInput = sm.rawInput
             /\ tasks' = [tasks EXCEPT ![c] = Returned]
             /\ \E i \in DebIds : /\ deb'[i] # NoDeb
                                  /\ \A j \in DebIds \ {i} : deb[j] = NoDeb => deb'[j] = NoDeb
    BY <2>2, <2>3, <2>4, <2>7 DEF Carrying, Waiting, Standing, NoneWaits
  <2> QED  BY <2>2, <2>5, <2>6, <2>7
<1>10. ASSUME NEW c \in Tasks, Forward(c) PROVE Carrying(c)'
  <2>1. Carrying(c) /\ tasks[c].value = wanted /\ tasks[c].value \in BOOLEAN
    BY <1>6, <1>10 DEF Forward, Standing, Carrying, TypesT, Place
  <2>2. sm'.rawInput = wanted'
    <3>1. CASE sm.rawInput = tasks[c].value
      BY <1>10, <2>1, <3>1 DEF Forward, vars
    <3>2. CASE sm.rawInput # tasks[c].value
      BY <1>10, <2>1, <3>2, SetRawInputInput DEF Forward
    <3> QED  BY <3>1, <3>2
  <2> QED  BY <1>0, <1>7, <1>10, <2>1, <2>2 DEF Forward, Return
<1>11. ASSUME NEW c \in Tasks, ClearMachine(c) PROVE Carrying(c)'
  <2>1. Carrying(c) /\ wanted = FALSE /\ sm'.rawInput = FALSE
    BY <1>6, <1>11, ClearInputs DEF ClearMachine, Standing, Carrying
  <2>2. PICK x : x = [at |-> "resample", value |-> FALSE]
    OBVIOUS
  <2>3. x \in Place /\ x.at = "resample"
    BY <2>2 DEF Place
  <2>4. tasks' = [tasks EXCEPT ![c] = x] \/ tasks' = [tasks EXCEPT ![c] = Returned]
    BY <1>11, <2>2 DEF ClearMachine, Goto, Return
  <2>5. UNCHANGED <<deb, wanted>>
    BY <1>11 DEF ClearMachine
  <2> QED  BY <1>0, <1>7, <2>1, <2>3, <2>4, <2>5
<1>12. ASSUME NEW c \in Tasks, Resample(c) PROVE Carrying(c)'
  <2>1. Carrying(c) /\ wanted = FALSE /\ sm.rawInput = FALSE /\ UNCHANGED <<sm, deb, wanted>>
    BY <1>6, <1>12 DEF Resample, Standing, Carrying, vars
  <2>2. PICK x : x = [at |-> "reassert", value |-> TRUE]
    OBVIOUS
  <2>3. x \in Place /\ x.at = "reassert"
    BY <2>2 DEF Place
  <2>4. tasks' = [tasks EXCEPT ![c] = x] \/ tasks' = [tasks EXCEPT ![c] = Returned]
    BY <1>12, <2>2 DEF Resample, Goto, Return
  <2> QED  BY <1>0, <1>7, <2>1, <2>3, <2>4
<1>13. ASSUME NEW c \in Tasks, Reassert(c) PROVE Carrying(c)'
  <2>1. Carrying(c) /\ wanted' = TRUE /\ UNCHANGED deb
    BY <1>6, <1>13 DEF Reassert, Standing
  <2>2. PICK x : x = [at |-> "forward", value |-> TRUE]
    OBVIOUS
  <2>3. x \in Place /\ x.at = "forward" /\ x.value = TRUE
    BY <2>2 DEF Place
  <2>4. tasks' = [tasks EXCEPT ![c] = x]
    BY <1>13, <2>2 DEF Reassert, Goto
  <2> QED  BY <1>7, <2>1, <2>3, <2>4
\* A debounce timer: it is the one that holds the value.
<1>14. ASSUME NEW i \in DebIds, deb[i] # NoDeb, UNCHANGED solo
       PROVE  Waiting /\ \A j \in DebIds \ {i} : deb[j] = NoDeb
  BY <1>14 DEF Alone, Waiting, Carrying, NoneWaits
<1>15. ASSUME NEW i \in DebIds, DebLaunch(i) PROVE Waiting'
  <2>1. deb[i] # NoDeb /\ UNCHANGED solo /\ UNCHANGED <<sm, t, tasks, wanted>>
    BY <1>15 DEF DebLaunch, DebDue, NoDeb, vars
  <2>2. \A j \in DebIds \ {i} : deb'[j] = deb[j]
    BY <1>15 DEF DebLaunch, TypesT
  <2>3. Waiting /\ \A j \in DebIds \ {i} : deb[j] = NoDeb
    BY <1>14, <2>1
  <2> QED  BY <2>1, <2>2, <2>3 DEF Waiting, Standing
<1>16. ASSUME NEW i \in DebIds, OnDebounceFire(i) PROVE Carrying(i)'
  <2>1. deb[i] # NoDeb /\ UNCHANGED <<sm, solo, wanted>>
    BY <1>16 DEF OnDebounceFire, NoDeb, vars
  <2>2. Waiting /\ \A j \in DebIds \ {i} : deb[j] = NoDeb
    BY <1>14, <2>1
  <2>3. NoneWaits'
    BY <1>16, <2>2 DEF OnDebounceFire, TypesT, NoneWaits
  <2>4. CASE t.rawInput = t.stableInput
    <3>1. UNCHANGED tasks
      BY <1>16, <2>4 DEF OnDebounceFire
    <3> QED  BY <2>1, <2>2, <2>3, <2>4, <3>1 DEF Waiting, Carrying, Standing
  <2>5. CASE t.rawInput # t.stableInput
    <3>1. PICK x : x = [at |-> "forward", value |-> t.rawInput]
      OBVIOUS
    <3>2. x \in Place /\ x.at = "forward" /\ x.value = t.rawInput
      BY <3>1 DEF Place, TypesT, CondType
    <3>3. tasks' = [tasks EXCEPT ![i] = x]
      BY <1>16, <2>5, <3>1 DEF OnDebounceFire, Goto
    <3>4. tasks'[i] = x /\ \A k \in Tasks \ {i} : tasks'[k] = tasks[k]
      BY <3>2, <3>3, GotoFacts
    <3> QED  BY <2>1, <2>2, <2>3, <3>2, <3>4 DEF Waiting, Carrying, Standing
  <2> QED  BY <2>4, <2>5
\* Steps in which nobody moves.
<1>17. ASSUME UNCHANGED <<t, tasks, wanted, solo>>, sm'.rawInput = sm.rawInput,
              \A i \in DebIds : deb[i] = NoDeb => deb'[i] = NoDeb
       PROVE  Waiting' \/ \E c \in Tasks : Carrying(c)'
  BY <1>17 DEF Alone, Waiting, Carrying, Standing, NoneWaits
<1>18. CASE TickT
  <2>1. \A i \in DebIds : deb[i] = NoDeb => deb'[i] = NoDeb
    BY <1>18 DEF TickT, NoDeb
  <2> QED  BY <1>17, <1>18, <2>1, TickInput DEF TickT
<1>19. CASE MachineStep
  BY <1>17, <1>19 DEF MachineStep, Notify
<1>20. CASE InhibitChange
  BY <1>17, <1>20, SetInhibitedInput DEF InhibitChange, tvars
<1>21. CASE UNCHANGED allVars
  BY <1>17, <1>21 DEF allVars, vars, tvars
<1> QED
  BY <1>2, <1>3, <1>4, <1>5, <1>8, <1>9, <1>10, <1>11, <1>12, <1>13, <1>15, <1>16,
     <1>18, <1>19, <1>20, <1>21 DEF NextT, CallStep

\* A call that had the condition to itself is what the machine ends up with,
\* its debounce window included, whatever went before (submitInput, Clear).
THEOREM LoneCallAlwaysCommits == TimerOK => (SpecT => []LoneCallCommits)
<1> SUFFICES ASSUME TimerOK PROVE SpecT => []LoneCallCommits
  OBVIOUS
<1>1. SpecT => []TimerInv
  BY TimerInvariance
<1>2. InitT => Alone
  BY DEF InitT, Alone
<1>3. TimerInv /\ Alone /\ [NextT]_allVars => Alone'
  BY AloneKept
<1>4. TimerInv /\ Alone => LoneCallCommits
  <2> SUFFICES ASSUME TimerInv, Alone, Quiet, solo # Nobody PROVE sm.rawInput = wanted
    BY DEF LoneCallCommits
  <2>1. CASE Waiting
    <3>1. Debounce > 0
      BY <2>1 DEF Waiting, TimerOK
    <3> QED  BY <2>1, <3>1 DEF TimerInv, EdgeNotStranded, Quiet, Waiting
  <2>2. ASSUME NEW c \in Tasks, Carrying(c) PROVE sm.rawInput = wanted
    BY <2>2 DEF Carrying, Quiet
  <2> QED  BY <2>1, <2>2 DEF Alone
<1> QED  BY <1>1, <1>2, <1>3, <1>4, PTL DEF SpecT

-----------------------------------------------------------------------------
(* A condition with an input expression and neither debounce nor timeout.  *)

\* One goroutine changes what the expression reads; two may leave the machine
\* with the older value.
OneCaller ==
  /\ HasInput /\ Debounce = 0 /\ Timeout = 0
  /\ \E c : Callers = {c}

\* Where the caller stands and what it then knows of the input.
Tracking ==
  /\ NoTimeouts(sm) /\ NoneWaits
  /\ \A i \in DebIds : Standing(i, "idle")
  /\ \A c \in Callers :
       /\ Standing(c, "idle") => sm.rawInput = source
       /\ Standing(c, "submit") \/ Standing(c, "forward") => tasks[c].value = source
       /\ Standing(c, "resample") => sm.rawInput = FALSE
       /\ Standing(c, "reassert") => source = TRUE

\* Without a timeout configured no step arms a timeout timer.
LEMMA NeverTimed ==
  ASSUME IndInv, Timeout = 0, NoTimeouts(sm), [Next]_vars PROVE NoTimeouts(sm')
<1>1. ASSUME NEW i \in TimerIds, Launch(i) \/ RunCallback(i) PROVE NoTimeouts(sm')
  BY <1>1, LaunchInput, CallbackInput DEF Untimed
<1>2. ASSUME NEW value \in BOOLEAN, SetRawInput(value) \/ SetInhibited(value) PROVE NoTimeouts(sm')
  BY <1>2, SetRawInputInput, SetInhibitedInput DEF Untimed
<1>3. CASE Clear \/ Tick
  BY <1>3, ClearInputs, TickInput DEF Untimed
<1>4. ASSUME UNCHANGED sm PROVE NoTimeouts(sm')
  BY <1>4
<1> QED  BY <1>1, <1>2, <1>3, <1>4 DEF Next, Notify, vars

LEMMA TrackingInit == TimerOK /\ OneCaller /\ InitT => Tracking
<1> SUFFICES ASSUME TimerOK, OneCaller, InitT PROVE Tracking
  OBVIOUS
<1>1. PICK c \in Callers :
        tasks = [i \in Tasks |-> IF i = c THEN [at |-> "eval", value |-> FALSE] ELSE Returned]
  BY DEF InitT, OneCaller
<1>2. Callers = {c}
  BY <1>1 DEF OneCaller
<1>3. NoTimeouts(sm)
  <2>1. /\ NewStateMachine \in StateMachine
        /\ \A i \in TimerIds : NewStateMachine.clock[i] = Idle
    BY DEF NewStateMachine, StateMachine, State, Timer, Idle, NoTime
  <2>2. NoTimeouts(NewStateMachine)
    BY <2>1 DEF NoTimeouts, Idle
  <2>3. PICK q : q = [NewStateMachine EXCEPT !.state = Active, !.rawInput = TRUE, !.latched = Latch]
    OBVIOUS
  <2>4. q \in StateMachine /\ q.clock = NewStateMachine.clock
    BY <2>1, <2>3 DEF StateMachine, State
  <2>5. NoTimeouts(q)
    BY <2>2, <2>4 DEF NoTimeouts
  <2>6. sm = NewStateMachine \/ sm = CancelTimeout(q)
    BY <2>3 DEF InitT, Init, Bootstrap, RestartTimeout, OneCaller
  <2>7. CancelTimeout(q).clock = Stopped(q, q.timeoutTimer)
    BY <2>4 DEF CancelTimeout, StateMachine
  <2> QED  BY <2>2, <2>4, <2>5, <2>6, <2>7, StopsSame
<1>4. NoneWaits
  BY DEF InitT, NoneWaits
<1>5. \A i \in DebIds : tasks[i].at = "idle"
  BY <1>1 DEF Tasks, Returned, TimerOK
<1>6. tasks[c].at = "eval"
  BY <1>1 DEF Tasks
<1> QED  BY <1>2, <1>3, <1>4, <1>5, <1>6 DEF Tracking, Standing

LEMMA TrackingKept ==
  TimerOK /\ OneCaller /\ TimerInv /\ Tracking /\ [NextT]_allVars => Tracking'
<1> SUFFICES ASSUME TimerOK, OneCaller, IndInv, TypesT, Tracking, [NextT]_allVars PROVE Tracking'
  BY DEF TimerInv
<1> USE DEF Tasks
<1>1. NoTimeouts(sm')
  BY MachineOnly, NeverTimed DEF Tracking, OneCaller
<1>2. PICK c : Callers = {c} /\ c \in Callers /\ c \notin DebIds
  BY DEF OneCaller, TimerOK
<1>3. Returned \in Place /\ Returned.at = "idle"
  BY DEF Returned, Place
\* The caller moves.
<1>4. ASSUME NEW x \in Place, tasks' = [tasks EXCEPT ![c] = x], NoneWaits',
             x.at = "idle" => (sm.rawInput = source)',
             x.at \in {"submit", "forward"} => x.value = source',
             x.at = "resample" => sm'.rawInput = FALSE, x.at = "reassert" => source' = TRUE
      PROVE  Tracking'
  <2>1. tasks'[c] = x /\ \A k \in Tasks \ {c} : tasks'[k] = tasks[k]
    BY <1>2, <1>4, GotoFacts
  <2> QED  BY <1>1, <1>2, <1>4, <2>1 DEF Tracking, Standing
<1>5. ASSUME NEW at \in {"eval", "submit", "forward", "clear", "resample", "reassert"}, NEW v \in BOOLEAN
      PROVE  \E x \in Place : x = [at |-> at, value |-> v] /\ x.at = at /\ x.value = v
  <2>1. PICK x : x = [at |-> at, value |-> v]
    OBVIOUS
  <2>2. x \in Place /\ x.at = at /\ x.value = v
    BY <2>1 DEF Place
  <2> QED  BY <2>1, <2>2
<1>6. ASSUME NEW k \in Tasks, CallStep(k) PROVE k = c
  BY <1>2, <1>6 DEF CallStep, Eval, SubmitInput, Forward, ClearMachine, Resample, Reassert, Standing, Tracking
<1>7. CASE Change(c)
  <2>1. PICK x \in Place : x = [at |-> "eval", value |-> FALSE] /\ x.at = "eval"
    BY <1>5
  <2> QED  BY <1>4, <1>7, <2>1 DEF Change, Goto, Tracking, NoneWaits
<1>8. CASE ClearInput(c)
  <2>1. PICK x \in Place : x = [at |-> "clear", value |-> FALSE] /\ x.at = "clear"
    BY <1>5
  <2>2. NoneWaits'
    BY <1>8, DebStoppedFacts DEF ClearInput, Tracking, NoneWaits
  <2> QED  BY <1>4, <1>8, <2>1, <2>2 DEF ClearInput, Goto
<1>9. CASE Eval(c)
  <2>1. PICK x \in Place : x = [at |-> "submit", value |-> source] /\ x.at = "submit" /\ x.value = source
    BY <1>5 DEF TypesT
  <2> QED  BY <1>4, <1>9, <2>1 DEF Eval, Goto, Tracking, NoneWaits
<1>10. CASE SubmitInput(c)
  <2>1. PICK v : v = tasks[c].value
    OBVIOUS
  <2>2. /\ v \in BOOLEAN /\ tasks[c].at = "submit" /\ UNCHANGED <<sm, source>>
        /\ \/ /\ v = sm.rawInput /\ tasks' = [tasks EXCEPT ![c] = Returned]
              /\ \A i \in DebIds : deb[i] = NoDeb => deb'[i] = NoDeb
           \/ /\ tasks' = [tasks EXCEPT ![c] = [at |-> "forward", value |-> v]]
              /\ UNCHANGED deb
    BY <1>2, <1>10, <2>1, SubmitFacts DEF vars, OneCaller
  <2>3. v = source /\ NoneWaits'
    BY <1>2, <2>1, <2>2 DEF Tracking, Standing, NoneWaits
  <2>4. PICK x \in Place : x = [at |-> "forward", value |-> v] /\ x.at = "forward" /\ x.value = v
    BY <1>5, <2>2
  <2> QED  BY <1>3, <1>4, <2>2, <2>3, <2>4
<1>11. CASE Forward(c)
  <2>1. tasks[c].value = source /\ tasks[c].value \in BOOLEAN
    BY <1>2, <1>11 DEF Forward, Tracking, TypesT, Place
  <2>2. sm'.rawInput = source /\ UNCHANGED source
    <3>1. CASE sm.rawInput = tasks[c].value
      BY <1>11, <2>1, <3>1 DEF Forward, vars
    <3>2. CASE sm.rawInput # tasks[c].value
      BY <1>11, <2>1, <3>2, SetRawInputInput DEF Forward
    <3> QED  BY <3>1, <3>2
  <2> QED  BY <1>3, <1>4, <1>11, <2>2 DEF Forward, Return, Tracking, NoneWaits
<1>12. CASE ClearMachine(c)
  <2>1. sm'.rawInput = FALSE
    BY <1>12, ClearInputs DEF ClearMachine
  <2>2. PICK x \in Place : x = [at |-> "resample", value |-> FALSE] /\ x.at = "resample"
    BY <1>5
  <2> QED  BY <1>4, <1>12, <2>1, <2>2 DEF ClearMachine, Goto, OneCaller, Tracking, NoneWaits
<1>13. CASE Resample(c)
  <2>1. sm.rawInput = FALSE /\ UNCHANGED <<sm, source, deb>> /\ source \in BOOLEAN
    BY <1>2, <1>13 DEF Resample, Tracking, vars, TypesT
  <2>2. NoneWaits'
    BY <2>1 DEF Tracking, NoneWaits
  <2>3. CASE source
    <3>1. PICK x \in Place : x = [at |-> "reassert", value |-> TRUE] /\ x.at = "reassert"
      BY <1>5
    <3>2. tasks' = [tasks EXCEPT ![c] = x]
      BY <1>13, <2>3, <3>1 DEF Resample, Goto
    <3>3. source' = TRUE
      BY <2>1, <2>3
    <3> QED  BY <1>4, <2>2, <3>1, <3>2, <3>3
  <2>4. CASE ~source
    <3>1. tasks' = [tasks EXCEPT ![c] = Returned]
      BY <1>13, <2>4 DEF Resample, Return
    <3>2. (sm.rawInput = source)'
      BY <2>1, <2>4
    <3> QED  BY <1>3, <1>4, <2>2, <3>1, <3>2
  <2> QED  BY <2>3, <2>4
<1>14. CASE Reassert(c)
  <2>1. source = TRUE /\ UNCHANGED <<source, deb>>
    BY <1>2, <1>14 DEF Reassert, Tracking
  <2>2. PICK x \in Place : x = [at |-> "forward", value |-> TRUE] /\ x.at = "forward" /\ x.value = TRUE
    BY <1>5
  <2> QED  BY <1>4, <1>14, <2>1, <2>2 DEF Reassert, Goto, Tracking, NoneWaits
\* Steps in which nobody moves.
<1>15. ASSUME UNCHANGED <<tasks, source>>, sm'.rawInput = sm.rawInput, NoneWaits' PROVE Tracking'
  BY <1>1, <1>15 DEF Tracking, Standing
<1>16. ASSUME NEW i \in DebIds PROVE ~DebLaunch(i) /\ ~OnDebounceFire(i)
  BY DEF DebLaunch, DebDue, OnDebounceFire, Tracking, NoneWaits, NoDeb
<1>17. CASE TickT
  <2>1. NoneWaits'
    BY <1>17 DEF TickT, NoDeb, Tracking, NoneWaits
  <2> QED  BY <1>15, <1>17, <2>1, TickInput DEF TickT
<1>18. CASE MachineStep
  <2>1. UNCHANGED <<tasks, source>> /\ NoneWaits'
    BY <1>18 DEF MachineStep, Tracking, NoneWaits
  <2>2. sm'.rawInput = sm.rawInput
    <3>1. ASSUME NEW i \in TimerIds, Launch(i) \/ RunCallback(i) PROVE sm'.rawInput = sm.rawInput
      BY <3>1, LaunchInput, CallbackInput DEF Tracking, OneCaller
    <3> QED  BY <1>18, <3>1 DEF MachineStep, Notify
  <2> QED  BY <1>15, <2>1, <2>2
<1>19. CASE InhibitChange
  BY <1>15, <1>19, SetInhibitedInput DEF InhibitChange, tvars, Tracking, NoneWaits
<1>20. CASE UNCHANGED allVars
  BY <1>15, <1>20 DEF allVars, vars, tvars, Tracking, NoneWaits
<1>21. ASSUME NEW k \in Callers PROVE k = c /\ ~Toggle(k) /\ \A v \in BOOLEAN : ~Set(k, v)
  BY <1>2 DEF Toggle, Set, OneCaller
<1>22. ASSUME NEW k \in Tasks, CallStep(k) PROVE Tracking'
  <2>1. CallStep(c)
    BY <1>6, <1>22
  <2> QED  BY <1>9, <1>10, <1>11, <1>12, <1>13, <1>14, <2>1 DEF CallStep
<1> QED  BY <1>7, <1>8, <1>16, <1>17, <1>18, <1>19, <1>20, <1>21, <1>22 DEF NextT

\* "With no attributes at all it tracks its input one-to-one": at rest the
\* machine has the value of the input expression, clear() included, for any
\* delays of the machine but a timeout.
THEOREM InputAlwaysTracked == TimerOK /\ OneCaller => (SpecT => []TracksInput)
<1> SUFFICES ASSUME TimerOK, OneCaller PROVE SpecT => []TracksInput
  OBVIOUS
<1>1. SpecT => []TimerInv
  BY TimerInvariance
<1>2. InitT => Tracking
  BY TrackingInit
<1>3. TimerInv /\ Tracking /\ [NextT]_allVars => Tracking'
  BY TrackingKept
<1>4. Tracking => TracksInput
  <2>1. PICK c : c \in Callers
    BY DEF OneCaller
  <2> QED  BY <2>1 DEF Tracking, TracksInput, Quiet, Tasks
<1> QED  BY <1>1, <1>2, <1>3, <1>4, PTL DEF SpecT
=============================================================================
