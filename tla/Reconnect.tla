------------------------------ MODULE Reconnect ------------------------------
(***************************************************************************)
(* The reconnect block of a client: durations as they are written become   *)
(* nanoseconds, the block becomes a schedule or is refused, and a client   *)
(* that lost its connection asks the schedule how long to wait             *)
(* (config/util.go).                                                       *)
(*                                                                         *)
(* A duration is an int64, here of a width that small numbers reach; what  *)
(* a conversion from a float out of range yields is the machine's choice.  *)
(* A duration as written is [form, value]; a number counts seconds, of     *)
(* Second units each.  A factor of 0 stands for all that are not >= 1.     *)
(***************************************************************************)
EXTENDS Integers

CONSTANTS Attrs,       \* durations as written, with form "absent" for none
          Factors, Retries,
          MaxInt,      \* the largest duration
          Second,      \* its units in a second
          MaxAttempts  \* bound: attempts followed

VARIABLES block,     \* [initial, max, factor, retries]
          arch,      \* the machine
          phase,     \* "written", "refused", "dialling", "connected", "waiting", "gaveUp"
          schedule,
          attempt,   \* failed attempts since the connection was lost
          wait,      \* the wait before the next
          before,    \* the wait before that one, 0 for the first
          was        \* it has been connected

vars == <<block, arch, phase, schedule, attempt, wait, before, was>>

MinInt == -MaxInt - 1
\* time.Duration(f): out of range, amd64 yields the least and arm64 the largest.
ToDuration(d) == IF d \in MinInt..MaxInt THEN d ELSE IF arch = "amd64" THEN MinInt ELSE MaxInt

\* ParseDuration: [ok, d]
ParseDuration(a) ==
  CASE a.form = "number" -> [ok |-> a.value >= 0, d |-> ToDuration(a.value * Second)]
    [] a.form \in {"iso", "go"} -> [ok |-> a.value \in 0..MaxInt, d |-> a.value]
    [] a.form = "capsule" -> [ok |-> TRUE, d |-> a.value]
    [] OTHER -> [ok |-> FALSE, d |-> 0]
ParseDurationOrDefault(a, def) == IF a.form = "absent" THEN [ok |-> TRUE, d |-> def] ELSE ParseDuration(a)

Init ==
  /\ block \in [initial : Attrs, max : Attrs, factor : Factors, retries : Retries]
  /\ arch \in {"amd64", "arm64"}
  /\ phase = "written" /\ schedule = [initial |-> 0, max |-> 0, factor |-> 0]
  /\ attempt = 0 /\ wait = 0 /\ before = 0 /\ was = FALSE

\* resolveReconnectSchedule, which is where a schedule that cannot back off is
\* refused: no first wait, or one that shrinks.
Resolve ==
  LET i == ParseDurationOrDefault(block.initial, Second)
      m == ParseDurationOrDefault(block.max, 60)
      accepted == i.ok /\ (block.initial.form = "absent" \/ i.d > 0) /\ m.ok /\ block.factor >= 1
  IN  /\ phase = "written"
      /\ phase' = IF accepted THEN "dialling" ELSE "refused"
      /\ schedule' = IF accepted THEN [initial |-> i.d, max |-> m.d, factor |-> block.factor] ELSE schedule
      /\ UNCHANGED <<block, arch, attempt, wait, before, was>>

\* Broken form: the ceiling is applied after the conversion.
DelayClampedLate(s, n) ==
  LET d == ToDuration(s.initial * s.factor ^ n) IN IF d < s.max THEN d ELSE s.max

\* delay: the ceiling is applied to the float.
Delay(s, n) ==
  LET d == s.initial * s.factor ^ n IN IF d < s.max THEN ToDuration(d) ELSE s.max

\* ReconnectMaxAttempts: 0 is no limit.
ReconnectMaxAttempts == IF block.retries < 0 THEN 0 ELSE block.retries

Connects ==
  /\ phase \in {"dialling", "waiting"}
  /\ phase' = "connected" /\ attempt' = 0 /\ wait' = 0 /\ before' = 0 /\ was' = TRUE
  /\ UNCHANGED <<block, arch, schedule>>

\* Broken form: the first connection is given up on like a lost one.
GivesUpAlways(n) == ReconnectMaxAttempts > 0 /\ n >= ReconnectMaxAttempts
\* A lost connection is given up after so many attempts; the first never is.
GivesUp(n) == was /\ ReconnectMaxAttempts > 0 /\ n >= ReconnectMaxAttempts

\* An attempt failed, or the connection was lost.
Fails ==
  /\ phase \in {"dialling", "connected", "waiting"} /\ attempt < MaxAttempts
  /\ IF phase # "connected" /\ GivesUp(attempt)
     THEN phase' = "gaveUp" /\ UNCHANGED <<attempt, wait, before>>
     ELSE /\ phase' = "waiting" /\ attempt' = attempt + 1
          /\ wait' = Delay(schedule, attempt)
          /\ before' = wait
  /\ UNCHANGED <<block, arch, schedule, was>>

Done == phase \in {"refused", "gaveUp"} /\ UNCHANGED vars

Next == Resolve \/ Connects \/ Fails \/ Done
Spec == Init /\ [][Next]_vars
-----------------------------------------------------------------------------
TypeOK ==
  /\ phase \in {"written", "refused", "dialling", "connected", "waiting", "gaveUp"}
  /\ attempt \in 0..MaxAttempts /\ wait \in MinInt..MaxInt

\* A client that waits really waits, on either machine: never for nothing, no
\* longer than max_delay, never shorter than the time before, provided that
\* max_delay itself came out positive (config/util.go:373-396).
WaitsGrow ==
  phase = "waiting" /\ schedule.max > 0 => wait \in 1..schedule.max /\ wait >= before

\* "Giving up is quiet and final": it takes max_retries attempts at a lost
\* connection, and "the initial connection is retried regardless"
\* (config/util.go:260-268, 434-438).
GivesUpAsAsked == phase = "gaveUp" => was /\ block.retries > 0 /\ attempt = block.retries
=============================================================================
