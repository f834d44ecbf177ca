-------------------------- MODULE OneShotTriggers --------------------------
(***************************************************************************)
(* The triggers whose action runs once in the life of the process:         *)
(* `once` (triggers/once/once.go), on the first get(); `start`             *)
(* (triggers/start/start.go), when everything has started; `after`         *)
(* (triggers/after/after.go), a delay later, unless the process stops      *)
(* first.  Their result is read with get() or trigger.<name> by any        *)
(* goroutine.                                                              *)
(***************************************************************************)
EXTENDS Naturals

CONSTANTS Readers

VARIABLES kind, phase,
          at,        \* where the goroutine that runs the action is
          stored,    \* "nothing", "value" or "error"
          runs,
          reader,    \* per reader: "idle", "in" sync.Once, "runs" the action
          answer     \* per reader: its last answer

vars == <<kind, phase, at, stored, runs, reader, answer>>

-----------------------------------------------------------------------------
\* once: Get, through sync.Once.
GetOnce(r) ==
  /\ kind = "once" /\ reader[r] = "idle" /\ phase = "up"
  /\ reader' = [reader EXCEPT ![r] = "in"] /\ UNCHANGED <<kind, phase, at, stored, runs, answer>>

(* Broken form: the result is looked at before the lock is taken. *)
FirstIfNothing(r) == stored = "nothing"

\* sync.Once runs the first function it is given.
First(r) == runs = 0
EnterOnce(r) ==
  /\ reader[r] = "in" /\ First(r)
  /\ runs' = runs + 1 /\ reader' = [reader EXCEPT ![r] = "runs"]
  /\ UNCHANGED <<kind, phase, at, stored, answer>>

\* The action fails or gives a value; either is kept for good.
OnceEnds(r) ==
  /\ reader[r] = "runs" /\ stored' \in {"value", "error"}
  /\ reader' = [reader EXCEPT ![r] = "in"] /\ UNCHANGED <<kind, phase, at, runs, answer>>

Answered(r) ==
  /\ reader[r] = "in" /\ stored # "nothing"
  /\ reader' = [reader EXCEPT ![r] = "idle"] /\ answer' = [answer EXCEPT ![r] = stored]
  /\ UNCHANGED <<kind, phase, at, stored, runs>>

\* after, start: reading answers null until there is a result; a start
\* trigger whose action failed stays null.
Get(r) ==
  /\ kind # "once" /\ answer' = [answer EXCEPT ![r] = IF stored = "nothing" THEN "null" ELSE stored]
  /\ UNCHANGED <<kind, phase, at, stored, runs, reader>>

-----------------------------------------------------------------------------
\* PostStart: `start` runs its action there and then, `after` starts waiting.
PostStart ==
  /\ phase = "starting" /\ phase' = IF kind = "start" THEN "post" ELSE "up"
  /\ at' = CASE kind = "after" -> "waiting" [] kind = "start" -> "action" [] OTHER -> "none"
  /\ runs' = IF kind = "start" THEN 1 ELSE 0
  /\ UNCHANGED <<kind, stored, reader, answer>>

StartEnds ==
  /\ kind = "start" /\ at = "action" /\ at' = "ended" /\ phase' = "up"
  /\ stored' \in {"value", "nothing"}
  /\ UNCHANGED <<kind, runs, reader, answer>>

\* run: the delay or the stop channel, whichever the select takes.
DelayElapses ==
  /\ kind = "after" /\ at = "waiting" /\ at' = "action" /\ runs' = runs + 1
  /\ UNCHANGED <<kind, phase, stored, reader, answer>>
Abandon ==
  /\ kind = "after" /\ at = "waiting" /\ phase = "stopping" /\ at' = "ended"
  /\ UNCHANGED <<kind, phase, stored, runs, reader, answer>>
AfterEnds ==
  /\ kind = "after" /\ at = "action" /\ at' = "ended" /\ stored' \in {"value", "error"}
  /\ UNCHANGED <<kind, phase, runs, reader, answer>>

(* Broken form: Stop does not wait for the goroutine. *)
DoneAtOnce == TRUE

Done == kind # "after" \/ at = "ended"
Stop == /\ phase = "up" /\ phase' = "stopping" /\ UNCHANGED <<kind, at, stored, runs, reader, answer>>
StopReturns == /\ phase = "stopping" /\ Done /\ phase' = "stopped"
               /\ UNCHANGED <<kind, at, stored, runs, reader, answer>>

Init ==
  /\ kind \in {"once", "start", "after"} /\ phase = "starting" /\ at = "none" /\ stored = "nothing"
  /\ runs = 0 /\ reader = [r \in Readers |-> "idle"] /\ answer = [r \in Readers |-> "none"]

Next ==
  \/ PostStart \/ StartEnds \/ DelayElapses \/ Abandon \/ AfterEnds \/ Stop \/ StopReturns
  \/ \E r \in Readers : GetOnce(r) \/ EnterOnce(r) \/ OnceEnds(r) \/ Answered(r) \/ Get(r)

Spec == Init /\ [][Next]_vars

-----------------------------------------------------------------------------
\* The action runs at most once, and no reader ever sees two results: once
\* one has been answered, every later answer is the same, for all readers.
OneResult ==
  /\ runs <= 1
  /\ \A r \in Readers : answer[r] \in {"value", "error"} => stored = answer[r]

\* When Stop has returned the action of an `after` trigger is not running.
NothingAfterStop == phase = "stopped" => at \in {"none", "ended"}
=============================================================================
