-------------------------- MODULE IntervalTrigger --------------------------
(***************************************************************************)
(* `trigger "interval"` (triggers/interval/interval.go): a goroutine that  *)
(* waits for a computed delay and runs an action, and set() and reset(),   *)
(* which any goroutine may call.  A call changes the trigger's fields      *)
(* under its lock and then, outside it, puts a token on a channel of       *)
(* capacity one, or drops it when one is there already; the goroutine      *)
(* takes a token where it waits and reads the fields again.                *)
(*                                                                         *)
(* A delay is a symbol: which of the three expressions, or the override,   *)
(* it was computed from.  Jitter and the passing of the delay are left to  *)
(* the timer, which fires when it likes.                                   *)
(***************************************************************************)
EXTENDS Integers

CONSTANTS Callers, Overrides, MaxRuns, MaxCalls

VARIABLES body,      \* the decoded block
          pc,        \* the goroutine: where it waits
          delay,     \* the delay the timer was armed with
          override, runs, lastErr, result,
          setCh, resetCh,          \* a token is on the channel
          stop,      \* "no", "waiting" in Stop, "returned"
          call,      \* per caller: the token it is about to send
          calls,     \* calls made
          last,      \* the last call that changed the fields
          overlap    \* some call began before the one before it was taken up

vars == <<body, pc, delay, override, runs, lastErr, result, setCh, resetCh, stop, call, calls, last, overlap>>
fields == <<override, runs, lastErr, result>>
asked  == <<call, calls, last, overlap>>
None == "none"

-----------------------------------------------------------------------------
\* processIntervalTrigger: initial_delay and error_delay need a delay.
Bodies == [delay : BOOLEAN, initial : BOOLEAN, error : BOOLEAN, repeat : BOOLEAN, stopWhen : BOOLEAN]
ProcessIntervalTrigger(b) == b.delay \/ ~(b.initial \/ b.error)

\* computeDelay: the override first, then the expression the history selects.
ComputeDelay ==
  CASE override # None -> override
    [] runs = 0 /\ body.initial -> "initial_delay"
    [] lastErr /\ body.error -> "error_delay"
    [] body.delay -> "delay"
    [] OTHER -> None

\* stop_when is an expression over the run count and the last result: it may
\* say anything, except that in this instance it is false before any run.
StopWhen(n) == IF body.stopWhen /\ n > 0 THEN BOOLEAN ELSE {FALSE}

ShouldStop == IF ~body.repeat THEN {TRUE} ELSE StopWhen(runs')
ShouldRemainStopped == IF ~body.repeat THEN {FALSE} ELSE StopWhen(runs)

-----------------------------------------------------------------------------
(* Calls from outside.                                                     *)

Unsettled == setCh \/ resetCh \/ (\E c \in Callers : call[c] # None) \/ pc \notin {"timer", "dormant"}
Called(c, token) ==
  /\ call[c] = None /\ calls < MaxCalls
  /\ call' = [call EXCEPT ![c] = token]
  /\ calls' = calls + 1 /\ last' = token
  /\ overlap' = (overlap \/ Unsettled)

\* set(), with a duration or, where a delay is configured, without.
Set(c) ==
  /\ \E d \in Overrides \cup (IF body.delay THEN {None} ELSE {}) : override' = d
  /\ runs' = 0 /\ lastErr' = FALSE /\ UNCHANGED result
  /\ Called(c, "set") /\ UNCHANGED <<body, pc, delay, setCh, resetCh, stop>>

Reset(c) ==
  /\ override' = None /\ runs' = 0 /\ lastErr' = FALSE /\ result' = None
  /\ Called(c, "reset") /\ UNCHANGED <<body, pc, delay, setCh, resetCh, stop>>

Send(c) ==
  /\ call[c] # None /\ call' = [call EXCEPT ![c] = None]
  /\ setCh' = (setCh \/ call[c] = "set") /\ resetCh' = (resetCh \/ call[c] = "reset")
  /\ UNCHANGED <<body, pc, delay, stop, calls, last, overlap>> /\ UNCHANGED fields

Stop == /\ stop = "no" /\ stop' = "waiting"
        /\ UNCHANGED <<body, pc, delay, setCh, resetCh>> /\ UNCHANGED asked /\ UNCHANGED fields

Stopped == /\ stop = "waiting" /\ pc = "exited" /\ stop' = "returned"
               /\ UNCHANGED <<body, pc, delay, setCh, resetCh>> /\ UNCHANGED asked /\ UNCHANGED fields

-----------------------------------------------------------------------------
(* The goroutine.                                                          *)

Rest == UNCHANGED <<body, stop, call, calls, last, overlap>>

\* The top of the loop.  A delay that cannot be computed ends the goroutine.
Arm ==
  /\ pc = "top"
  /\ \E ok \in BOOLEAN :
       IF ComputeDelay = None \/ (~ok /\ override = None)
         THEN pc' = "exited" /\ UNCHANGED delay
         ELSE pc' = "timer" /\ delay' = ComputeDelay
  /\ UNCHANGED <<setCh, resetCh>> /\ UNCHANGED fields /\ Rest

Fires == /\ pc = "timer" /\ pc' = "action"
         /\ UNCHANGED <<delay, setCh, resetCh>> /\ UNCHANGED fields /\ Rest

(* Broken form: the token is taken and the running timer kept. *)
SetKeepsTimer == /\ pc = "timer" /\ setCh /\ setCh' = FALSE
                 /\ UNCHANGED <<pc, delay, resetCh>> /\ UNCHANGED fields /\ Rest

SetWhileArmed == /\ pc = "timer" /\ setCh /\ setCh' = FALSE /\ pc' = "top"
                 /\ UNCHANGED <<delay, resetCh>> /\ UNCHANGED fields /\ Rest

(* Broken form: the timer is restarted instead of left off. *)
ResetRestarts == /\ pc = "timer" /\ resetCh /\ resetCh' = FALSE /\ pc' = "top"
                 /\ UNCHANGED <<delay, setCh>> /\ UNCHANGED fields /\ Rest

ResetWhileArmed == /\ pc = "timer" /\ resetCh /\ resetCh' = FALSE /\ pc' = "dormant"
                   /\ UNCHANGED <<delay, setCh>> /\ UNCHANGED fields /\ Rest

\* The action's end is recorded in one critical section, and then weighed.
ActionEnds ==
  /\ pc = "action" /\ runs < MaxRuns
  /\ runs' = runs + 1
  /\ \E ok \in BOOLEAN : lastErr' = ~ok /\ result' = IF ok THEN "value" ELSE None
  /\ UNCHANGED override
  /\ \E s \in ShouldStop : pc' = IF s THEN "dormant" ELSE "top"
  /\ UNCHANGED <<delay, setCh, resetCh>> /\ Rest

\* waitForRevival.
Revived ==
  /\ pc = "dormant" /\ setCh /\ setCh' = FALSE
  /\ \E s \in ShouldRemainStopped : pc' = IF s THEN "dormant" ELSE "top"
  /\ UNCHANGED <<delay, resetCh>> /\ UNCHANGED fields /\ Rest

ResetWhileDormant == /\ pc = "dormant" /\ resetCh /\ resetCh' = FALSE
                     /\ UNCHANGED <<pc, delay, setCh>> /\ UNCHANGED fields /\ Rest

Exits == /\ pc \in {"timer", "dormant"} /\ stop # "no" /\ pc' = "exited"
         /\ UNCHANGED <<delay, setCh, resetCh>> /\ UNCHANGED fields /\ Rest

\* run: without a delay the trigger begins dormant.
Init ==
  /\ body \in {b \in Bodies : ProcessIntervalTrigger(b)}
  /\ pc = IF body.delay THEN "top" ELSE "dormant"
  /\ delay = None /\ override = None /\ runs = 0 /\ lastErr = FALSE /\ result = None
  /\ setCh = FALSE /\ resetCh = FALSE /\ stop = "no"
  /\ call = [c \in Callers |-> None] /\ calls = 0 /\ last = None /\ overlap = FALSE

Run == Arm \/ Fires \/ SetWhileArmed \/ ResetWhileArmed \/ ActionEnds \/ Revived \/ ResetWhileDormant \/ Exits
Next == Run \/ Stop \/ Stopped \/ \E c \in Callers : Set(c) \/ Reset(c) \/ Send(c)

Spec == Init /\ [][Next]_vars

-----------------------------------------------------------------------------
(* Properties.                                                             *)

\* The delay the timer runs with is the one the last set() or reset() asks
\* for, or a token is on its way that makes the goroutine compute it again:
\* dropping a token on a full channel loses no call.
DelayCurrent ==
  pc = "timer" => \/ delay = ComputeDelay \/ setCh \/ resetCh
                  \/ \E c \in Callers : call[c] # None

\* A call that meets a goroutine at rest decides: reset() leaves the trigger
\* dormant, set() revives it unless stop_when holds it back.
LoneCallDecides ==
  ~overlap /\ ~Unsettled =>
    /\ last = "reset" => pc = "dormant"
    /\ last = "set" /\ pc = "dormant" => runs > 0 /\ (body.stopWhen \/ ~body.repeat)
=============================================================================
