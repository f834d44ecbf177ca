---------------------------- MODULE WatchedValue ----------------------------
(***************************************************************************)
(* Values that configurations read and watch: `var` blocks and functy vars *)
(* (config/variable.go, types/variable.go), and the last result of a       *)
(* `check` block (config/check.go).                                        *)
(*                                                                         *)
(* A write happens under the lock, the watchers are told after it, so a    *)
(* call in progress stands between the two.  A check is evaluated by       *)
(* whoever probes; a probe that gave up on a slow evaluation leaves it     *)
(* running, so evaluations of one check overlap too.                       *)
(*                                                                         *)
(* A value is <<type, number>>; a check's result is a bool, Null before    *)
(* the first.  A refused set, increment or toggle changes nothing; only    *)
(* the wording of its error reads the variable outside the lock.           *)
(***************************************************************************)
EXTENDS Integers

CONSTANTS Callers,
          Declarations, \* blocks as written
          Arguments,    \* what set() is called with
          Inputs,       \* what a check's input evaluates to
          MaxCalls      \* bound: calls

VARIABLES decl,
          phase,      \* "written", "refused", "disabled", "live"
          nullable, constraint,
          value,
          call,       \* each caller's call in progress
          reason,     \* of the last failed evaluation
          calls,
          first, net  \* auxiliary: the value at the start, and how often each
                      \* value was told as the old one rather than the new
vars == <<decl, phase, nullable, constraint, value, call, reason, calls, first, net>>

Null == <<"null", 0>>
Absent == <<"absent", 0>>
Error == <<"error", 0>>
Bool(b) == <<"bool", IF b THEN 1 ELSE 0>>
Value == {Null} \cup ({"bool", "string"} \X {0, 1}) \cup ({"number"} \X (0..MaxCalls))
Idle == [at |-> "idle", old |-> Null, new |-> Null]

\* TypeConstraint.Coerce: what is not of the type is converted or refused.
Coerce(t, v) ==
  CASE t \in {"absent", v[1]} -> v
    [] t = "string" -> <<"string", 1>>
    [] OTHER -> Error
\* Broken form: set() without an argument is not checked.
SettableUnchecked(n, t, v) == v = Null \/ Coerce(t, v) # Error
\* The checks of Set.
Settable(n, t, v) == IF v = Null THEN n ELSE Coerce(t, v) # Error
Stored(t, v) == IF v = Null THEN v ELSE Coerce(t, v)

Init ==
  /\ decl \in Declarations /\ phase = "written"
  /\ nullable = TRUE /\ constraint = "absent" /\ value = Null /\ reason = "none"
  /\ call = [c \in Callers |-> Idle] /\ calls = 0
  /\ first = Null /\ net = [v \in Value |-> 0]
-----------------------------------------------------------------------------
(* The build.                                                              *)

Becomes(p) ==
  /\ phase = "written" /\ phase' = p
  /\ UNCHANGED <<decl, call, reason, calls, net>>

\* Process of a var block, after Preprocess has refused a second of its name.
ProcessVar ==
  LET n == decl.nullable # "false"
      ok == /\ ~decl.duplicate /\ decl.nullable # "invalid" /\ decl.type # "invalid"
            /\ decl.value = Absent \/ (decl.value # Error /\ Settable(n, decl.type, decl.value))
  IN  /\ decl.kind = "var"
      /\ Becomes(IF ok THEN "live" ELSE "refused")
      /\ nullable' = n /\ constraint' = decl.type
      /\ value' = IF ok /\ decl.value # Absent THEN Stored(decl.type, decl.value) ELSE Null
      /\ first' = value'

\* foldFunctyVars and setFunctyVarValues: a functy var is global and nullable.
FoldFunctyVar ==
  LET ok == /\ ~decl.namespaced /\ ~decl.duplicate
            /\ decl.value = Absent \/ (decl.value # Error /\ Settable(TRUE, decl.type, decl.value))
  IN  /\ decl.kind = "functy"
      /\ Becomes(IF ok THEN "live" ELSE "refused")
      /\ constraint' = decl.type
      /\ value' = IF ok /\ decl.value # Absent THEN Stored(decl.type, decl.value) ELSE Null
      /\ first' = value'
      /\ UNCHANGED nullable

\* Process of a check block: one without an input would pass every probe.
ProcessCheck ==
  /\ decl.kind = "check"
  /\ Becomes(CASE decl.disabled -> "disabled"
               [] ~decl.input \/ decl.duplicate \/ decl.probe = "invalid" \/ decl.timeout = "invalid" -> "refused"
               [] OTHER -> "live")
  /\ UNCHANGED <<nullable, constraint, value, first>>
-----------------------------------------------------------------------------
(* Variables.                                                              *)

Begins(c) == phase = "live" /\ call[c].at = "idle" /\ calls < MaxCalls /\ calls' = calls + 1

\* The section under the lock, after which the watchers are told.
Commit(c, new) ==
  /\ value' = new
  /\ call' = [call EXCEPT ![c] = [at |-> "notify", old |-> value, new |-> new]]
  /\ UNCHANGED <<decl, phase, nullable, constraint, reason, first, net>>

\* Set, of Null when it is called without an argument.
Set(c, v) ==
  /\ decl.kind # "check" /\ Begins(c)
  /\ Settable(nullable, constraint, v)
  /\ Commit(c, Stored(constraint, v))

\* Increment, by one unless told otherwise.
Increment(c, delta) ==
  /\ decl.kind # "check" /\ Begins(c)
  /\ value[1] = "number" /\ delta[1] = "number" /\ value[2] + delta[2] <= MaxCalls
  /\ Commit(c, <<"number", value[2] + delta[2]>>)

Toggle(c) ==
  /\ decl.kind # "check" /\ Begins(c)
  /\ value[1] = "bool"
  /\ Commit(c, Bool(value[2] = 0))
-----------------------------------------------------------------------------
(* Checks.                                                                 *)

DefaultReason == IF decl.reason # "" THEN "block's" ELSE "check failed"
\* Broken form: an empty complaint is passed on.
ReasonVerbatim(in) == IF in.type \in {"string", "object"} THEN in.text ELSE DefaultReason
\* The reason of a complaint: its own unless it is empty.
ReasonOf(in) == IF in.type \in {"string", "object"} /\ in.text # "" THEN in.text ELSE DefaultReason

\* interpret and interpretObject: "pass", or why not.  A string complains,
\* whatever it says.
Interpret(in) ==
  CASE in.type \in {"bool", "object"} /\ in.ready = "true" -> "pass"
    [] in.type \in {"bool", "string"} \/ in.ready = "false" -> ReasonOf(in)
    [] OTHER -> "not a pass or a reason"

\* Ready: evaluate, whose own errors are the check's answer.
Ready(c, in) ==
  /\ decl.kind = "check" /\ Begins(c)
  /\ LET answer == Interpret(in) IN
     /\ call' = [call EXCEPT ![c] = [at |-> "observe", old |-> Null, new |-> Bool(answer = "pass")]]
     /\ reason' = IF answer = "pass" THEN reason ELSE answer
  /\ UNCHANGED <<decl, phase, nullable, constraint, value, first, net>>

\* Broken form: the first result is told as a change from false.
TellsFirst(new) == IF value = Null THEN new # Bool(FALSE) ELSE value # new
\* A first result is no change.
Tells(new) == value \notin {Null, new}

\* observe: the result is recorded, and the watchers told if it changed.
Observe(c) ==
  LET new == call[c].new IN
  /\ call[c].at = "observe"
  /\ value' = new
  /\ first' = IF value = Null THEN new ELSE first
  /\ call' = [call EXCEPT ![c] = IF Tells(new)
                THEN [at |-> "notify", old |-> IF value = Null THEN Bool(FALSE) ELSE value, new |-> new] ELSE Idle]
  /\ UNCHANGED <<decl, phase, nullable, constraint, reason, calls, net>>
-----------------------------------------------------------------------------
\* Broken form: the new value is read after the lock is released.
ToldCurrent(c) == value
ToldNew(c) == call[c].new

\* NotifyAll, with the values the write found and left.
Notify(c) ==
  /\ call[c].at = "notify"
  /\ net' = [v \in Value |-> net[v] + (IF v = call[c].old THEN 1 ELSE 0) - (IF v = ToldNew(c) THEN 1 ELSE 0)]
  /\ call' = [call EXCEPT ![c] = Idle]
  /\ UNCHANGED <<decl, phase, nullable, constraint, value, reason, calls, first>>

Next ==
  \/ ProcessVar \/ FoldFunctyVar \/ ProcessCheck
  \/ \E c \in Callers :
       \/ \E v \in Arguments : Set(c, v)
       \/ \E delta \in Arguments \cup {<<"number", 1>>} : Increment(c, delta)
       \/ Toggle(c)
       \/ \E in \in Inputs : Ready(c, in)
       \/ Observe(c) \/ Notify(c)
Spec == Init /\ [][Next]_vars
-----------------------------------------------------------------------------
TypeOK ==
  /\ phase \in {"written", "refused", "disabled", "live"} /\ calls \in 0..MaxCalls
  /\ value \in Value /\ first \in Value /\ net \in [Value -> -MaxCalls..MaxCalls]
  /\ call \in [Callers -> [at : {"idle", "observe", "notify"}, old : Value, new : Value]]

\* Watchers may be told in another order than the writes, but of each write
\* once and truly: with no call in progress the changes told lead, end to end,
\* from the first value to the present one, so that a watcher that counts
\* edges or sums differences is right (types/variable.go:97-103,
\* config/check.go:366-377).
ToldAll ==
  (\A c \in Callers : call[c] = Idle) =>
    \A v \in Value : net[v] = (IF v = first THEN 1 ELSE 0) - (IF v = value THEN 1 ELSE 0)

\* Whoever sets, increments or toggles it, a typed variable holds its type, and
\* one that is not nullable is null only if it was declared without a value,
\* where nothing refuses the null it starts with (types/variable.go:84-95).
KeepsType ==
  phase = "live" /\ decl.kind # "check" =>
    /\ value # Null => constraint \in {"absent", value[1]}
    /\ value = Null => nullable \/ first = Null

\* A failed check says why (config/check.go:290-344).
SaysWhy == reason # ""
=============================================================================
