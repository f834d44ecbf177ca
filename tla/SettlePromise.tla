---------------------------- MODULE SettlePromise ----------------------------
(***************************************************************************)
(* What a receiver promises about one delivery, whatever queues, buses and *)
(* wrappers it passes.  The framework's verdict is the work's: it acks     *)
(* work that is done and nacks work that failed, never work that is        *)
(* waiting; the configuration settles only while its action runs.  A       *)
(* deadline, once it runs, ends in one of two ways: with the settlement    *)
(* that made it pointless, or by expiring, and then it nacks the delivery, *)
(* says that it could not, or finds it settled and says nothing.           *)
(***************************************************************************)
VARIABLES work,      \* "todo", "ok" or "failed"
          outcome,   \* "open", "acked", "nacked" or "lapsed"
          by,        \* who settled it
          clock,     \* the deadline: "off", "on" or "over"
          logs       \* what the deadline said: "warn", "error"

vars == <<work, outcome, by, clock, logs>>

Init == work = "todo" /\ outcome = "open" /\ by = "nobody" /\ clock = "off" /\ logs = {}

Arm == clock = "off" /\ clock' = "on" /\ UNCHANGED <<work, outcome, by, logs>>

Work == work = "todo" /\ work' \in {"ok", "failed"} /\ UNCHANGED <<outcome, by, clock, logs>>

\* A settlement may end the deadline; nothing else but the expiry does.
Settle(how, who) ==
  /\ outcome = "open" /\ outcome' = how /\ by' = who
  /\ clock' = clock \/ (clock = "on" /\ clock' = "over")
  /\ UNCHANGED <<work, logs>>

Framework == \/ work = "ok" /\ Settle("acked", "framework")
             \/ work = "failed" /\ Settle("nacked", "framework")

Config == work = "todo" /\ \E how \in {"acked", "nacked"} : Settle(how, "config")

Expire ==
  /\ clock = "on" /\ clock' = "over" /\ UNCHANGED work
  /\ \/ outcome = "open" /\ outcome' = "nacked" /\ by' = "deadline" /\ logs' = logs \cup {"warn"}
     \/ outcome \in {"open", "lapsed"} /\ logs' = logs \cup {"error"} /\ UNCHANGED <<outcome, by>>
     \/ outcome \in {"acked", "nacked"} /\ UNCHANGED <<outcome, by, logs>>

Lapse == outcome = "open" /\ outcome' = "lapsed" /\ UNCHANGED <<work, by, clock, logs>>

Next == Arm \/ Work \/ Framework \/ Config \/ Expire \/ Lapse

Spec == Init /\ [][Next]_vars
=============================================================================
