---------------------------- MODULE WatchTrigger ----------------------------
(***************************************************************************)
(* `trigger "watch"` (triggers/watch/watch.go): a watchable calls OnChange *)
(* on the goroutine that changed it; the trigger remembers the new value   *)
(* and runs its action in a goroutine of its own.  A notifier works from   *)
(* the list of watchers it copied, so it may call after Unwatch.           *)
(***************************************************************************)
EXTENDS Naturals

CONSTANTS Notifiers, Values, MaxChanges

VARIABLES watching,  \* the trigger is on the watchable's list
          stopped,   \* the atomic flag
          stop,      \* where Stop is
          at, val,   \* per notifier: where it is, and the value it carries
          lastValue,
          tasks,     \* the wait group: actions under way
          changes,
          raced      \* a notifier was past the flag when Stop stopped waiting

vars == <<watching, stopped, stop, at, val, lastValue, tasks, changes, raced>>

-----------------------------------------------------------------------------
Start == /\ ~watching /\ stop = "unstarted" /\ watching' = TRUE /\ stop' = "no"
         /\ UNCHANGED <<stopped, at, val, lastValue, tasks, changes, raced>>

\* The watchable changes and its notifier copies the list of watchers.
Change(n, v) ==
  /\ at[n] = "idle" /\ changes < MaxChanges /\ changes' = changes + 1
  /\ at' = [at EXCEPT ![n] = IF watching THEN "calling" ELSE "idle"] /\ val' = [val EXCEPT ![n] = v]
  /\ UNCHANGED <<watching, stopped, stop, lastValue, tasks, raced>>

(* Broken form: the flag is not looked at. *)
Unflagged == TRUE

Unstopped == ~stopped

\* OnChange, in the steps that another goroutine can come between.
CheckStopped(n) ==
  /\ at[n] = "calling"
  /\ at' = [at EXCEPT ![n] = IF Unstopped THEN "storing" ELSE "idle"]
  /\ UNCHANGED <<watching, stopped, stop, val, lastValue, tasks, changes, raced>>

StoreValue(n) ==
  /\ at[n] = "storing" /\ at' = [at EXCEPT ![n] = "adding"] /\ lastValue' = val[n]
  /\ UNCHANGED <<watching, stopped, stop, val, tasks, changes, raced>>

AddTask(n) ==
  /\ at[n] = "adding" /\ at' = [at EXCEPT ![n] = "idle"] /\ tasks' = tasks + 1
  /\ UNCHANGED <<watching, stopped, stop, val, lastValue, changes, raced>>

\* dispatch, to its end: skip_when, the action, or an error of either.
Dispatch ==
  /\ tasks > 0 /\ tasks' = tasks - 1
  /\ UNCHANGED <<watching, stopped, stop, at, val, lastValue, changes, raced>>

\* Stop: the flag, the list, the wait.
SetStopped == /\ stop = "no" /\ stop' = "flagged" /\ stopped' = TRUE
              /\ UNCHANGED <<watching, at, val, lastValue, tasks, changes, raced>>
Unwatch == /\ stop = "flagged" /\ stop' = "waiting" /\ watching' = FALSE
           /\ UNCHANGED <<stopped, at, val, lastValue, tasks, changes, raced>>
Wait == /\ stop = "waiting" /\ tasks = 0 /\ stop' = "returned"
        /\ raced' = \E n \in Notifiers : at[n] \in {"storing", "adding"}
        /\ UNCHANGED <<watching, stopped, at, val, lastValue, tasks, changes>>

Init ==
  /\ watching = FALSE /\ stopped = FALSE /\ stop = "unstarted"
  /\ at = [n \in Notifiers |-> "idle"] /\ val = [n \in Notifiers |-> CHOOSE v \in Values : TRUE]
  /\ lastValue = "null" /\ tasks = 0 /\ changes = 0 /\ raced = FALSE

Next ==
  \/ Start \/ SetStopped \/ Unwatch \/ Wait \/ Dispatch
  \/ \E n \in Notifiers : CheckStopped(n) \/ StoreValue(n) \/ AddTask(n) \/ \E v \in Values : Change(n, v)

Spec == Init /\ [][Next]_vars

-----------------------------------------------------------------------------
\* A notification that was under way when Stop began starts no action after
\* Stop has returned, unless it was between its check of the flag and the
\* wait group just then (Stop, OnChange).
StopQuiet == stop = "returned" /\ tasks > 0 => raced
=============================================================================
