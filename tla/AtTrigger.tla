----------------------------- MODULE AtTrigger -----------------------------
(***************************************************************************)
(* `trigger "at"` (triggers/at/at.go): a goroutine that waits for an       *)
(* absolute time and runs an action.  set() overrides the next fire;       *)
(* reset() makes the trigger dormant.  As in IntervalTrigger a call        *)
(* changes the fields under the lock and sends its token afterwards.       *)
(*                                                                         *)
(* An override is a pointer: no two calls of set() give the same one, so   *)
(* it is modelled by the number of the call.                               *)
(***************************************************************************)
EXTENDS Integers

CONSTANTS Callers, MaxRuns, MaxCalls

VARIABLES body, pc,
          read,      \* the override the target was computed from
          scheduled, \* scheduledTime: what get() answers
          override, runs,
          setCh, resetCh, stop, call, calls,
          last, overlap,
          owed       \* the override still to be fired at

vars == <<body, pc, read, scheduled, override, runs, setCh, resetCh, stop, call, calls, last, overlap, owed>>
fields == <<scheduled, override, runs, owed>>
asked  == <<call, calls, last, overlap>>
None == 0
Idle == "idle"

-----------------------------------------------------------------------------
Bodies == [time : BOOLEAN, repeat : BOOLEAN, stopWhen : BOOLEAN]
StopWhen(n) == IF body.stopWhen /\ n > 0 THEN BOOLEAN ELSE {FALSE}
ShouldStop == IF ~body.repeat THEN {TRUE} ELSE StopWhen(runs)
ShouldRemainStopped == StopWhen(runs)

Unsettled == setCh \/ resetCh \/ (\E c \in Callers : call[c] # Idle) \/ pc \notin {"timer", "dormant", "retry"}
Called(c, token) ==
  /\ call[c] = Idle /\ calls < MaxCalls
  /\ call' = [call EXCEPT ![c] = token]
  /\ calls' = calls + 1 /\ last' = token /\ overlap' = (overlap \/ Unsettled)

Set(c) ==
  /\ \E o \in {calls + 1} \cup (IF body.time THEN {None} ELSE {}) : override' = o /\ owed' = o
  /\ runs' = 0 /\ UNCHANGED scheduled
  /\ Called(c, "set") /\ UNCHANGED <<body, pc, read, setCh, resetCh, stop>>

Reset(c) ==
  /\ override' = None /\ owed' = None /\ runs' = 0 /\ scheduled' = FALSE
  /\ Called(c, "reset") /\ UNCHANGED <<body, pc, read, setCh, resetCh, stop>>

Send(c) ==
  /\ call[c] # Idle /\ call' = [call EXCEPT ![c] = Idle]
  /\ setCh' = (setCh \/ call[c] = "set") /\ resetCh' = (resetCh \/ call[c] = "reset")
  /\ UNCHANGED <<body, pc, read, stop, calls, last, overlap>> /\ UNCHANGED fields

Stop == /\ stop = "no" /\ stop' = "waiting"
        /\ UNCHANGED <<body, pc, read, setCh, resetCh>> /\ UNCHANGED asked /\ UNCHANGED fields

Stopped == /\ stop = "waiting" /\ pc = "exited" /\ stop' = "returned"
           /\ UNCHANGED <<body, pc, read, setCh, resetCh>> /\ UNCHANGED asked /\ UNCHANGED fields

-----------------------------------------------------------------------------
(* The goroutine.                                                          *)

Rest == UNCHANGED <<body, stop, call, calls, last, overlap>>

\* The top of the loop reads the override or evaluates the expression; an
\* expression that fails is tried again after a minute.
Evaluate ==
  /\ pc = "top" /\ read' = override
  /\ \/ pc' = "schedule"
     \/ override = None /\ pc' = "retry"
  /\ UNCHANGED <<setCh, resetCh>> /\ UNCHANGED fields /\ Rest

Schedule == /\ pc = "schedule" /\ pc' = "timer" /\ scheduled' = TRUE
            /\ UNCHANGED <<read, override, runs, owed, setCh, resetCh>> /\ Rest

\* waitForRetry and the select on the timer take the same tokens.
SetTaken == /\ pc \in {"timer", "retry"} /\ setCh /\ setCh' = FALSE /\ pc' = "top"
            /\ UNCHANGED <<read, resetCh>> /\ UNCHANGED fields /\ Rest

ResetTaken == /\ pc \in {"timer", "retry"} /\ resetCh /\ resetCh' = FALSE /\ pc' = "dormant"
              /\ UNCHANGED <<read, setCh>> /\ UNCHANGED fields /\ Rest

RetryElapses == /\ pc = "retry" /\ pc' = "top"
                /\ UNCHANGED <<read, setCh, resetCh>> /\ UNCHANGED fields /\ Rest

(* Broken form: the override is used up whichever call it came from. *)
ConsumedAlways == None

\* The override is used up only if it is still the one the timer ran for.
Consumed == IF override = read THEN None ELSE override

Expires == /\ pc = "timer" /\ pc' = "expired"
           /\ UNCHANGED <<read, setCh, resetCh>> /\ UNCHANGED fields /\ Rest

Consume ==
  /\ pc = "expired" /\ pc' = "action"
  /\ override' = Consumed /\ owed' = IF owed = read THEN None ELSE owed
  /\ UNCHANGED <<read, scheduled, runs, setCh, resetCh>> /\ Rest

\* fire, and then the stop conditions.
Fire ==
  /\ pc = "action" /\ runs < MaxRuns /\ pc' = "weigh"
  /\ runs' = runs + 1
  /\ UNCHANGED <<read, scheduled, override, owed, setCh, resetCh>> /\ Rest

Weigh == /\ pc = "weigh" /\ \E s \in ShouldStop : pc' = IF s THEN "dormant" ELSE "top"
         /\ UNCHANGED <<read, setCh, resetCh>> /\ UNCHANGED fields /\ Rest

(* Broken form: only an override revives. *)
CanReviveByOverride == override # None

\* waitForRevival: there must be something to fire at.
CanRevive == override # None \/ body.time

Revived ==
  /\ pc = "dormant" /\ setCh /\ setCh' = FALSE
  /\ IF CanRevive THEN \E s \in ShouldRemainStopped : pc' = IF s THEN "dormant" ELSE "top"
                  ELSE UNCHANGED pc
  /\ UNCHANGED <<read, resetCh>> /\ UNCHANGED fields /\ Rest

ResetWhileDormant == /\ pc = "dormant" /\ resetCh /\ resetCh' = FALSE
                     /\ UNCHANGED <<pc, read, setCh>> /\ UNCHANGED fields /\ Rest

Exits == /\ pc \in {"timer", "dormant", "retry"} /\ stop # "no" /\ pc' = "exited"
         /\ UNCHANGED <<read, setCh, resetCh>> /\ UNCHANGED fields /\ Rest

Init ==
  /\ body \in Bodies
  /\ pc = IF body.time THEN "top" ELSE "dormant"
  /\ read = None /\ scheduled = FALSE /\ override = None /\ runs = 0 /\ owed = None
  /\ setCh = FALSE /\ resetCh = FALSE /\ stop = "no"
  /\ call = [c \in Callers |-> Idle] /\ calls = 0 /\ last = Idle /\ overlap = FALSE

Run == \/ Evaluate \/ Schedule \/ SetTaken \/ ResetTaken \/ RetryElapses \/ Expires \/ Consume
       \/ Fire \/ Weigh \/ Revived \/ ResetWhileDormant \/ Exits
Next == Run \/ Stop \/ Stopped \/ \E c \in Callers : Set(c) \/ Reset(c) \/ Send(c)

Spec == Init /\ [][Next]_vars

-----------------------------------------------------------------------------
(* Properties.                                                             *)

\* A time set() asks for is never dropped on the way: it stays the override
\* until the timer that ran for it expires, and while the goroutine waits
\* for another time a token is on its way (Set, the pointer comparison).
OverrideKept ==
  /\ owed # None => override = owed
  /\ pc = "timer" /\ owed # None /\ read # owed => setCh \/ resetCh \/ \E c \in Callers : call[c] # Idle

\* A call that meets a goroutine at rest decides (waitForRevival).
LoneCallDecides ==
  ~overlap /\ ~Unsettled =>
    /\ last = "reset" => pc \in {"dormant", "exited"}
    /\ last = "set" /\ pc = "dormant" => runs > 0
=============================================================================
