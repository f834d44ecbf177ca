------------------------------ MODULE FsmBlock ------------------------------
(***************************************************************************)
(* The `fsm` block (config/fsm.go): the definition a block is turned into, *)
(* and the machine at run time.  Events arrive by send() and by `when`, a  *)
(* reactive expression that must give one event for every time it goes     *)
(* true; they wait in a mailbox of bounded size for the machine's          *)
(* goroutine, which runs guards, actions and hooks.  The machine is a      *)
(* library (vinculum-fsm) and is modelled from how this code uses it.      *)
(*                                                                         *)
(* `when` is re-evaluated on the goroutine of whoever changed one of its   *)
(* watchables, and its edge is claimed with one atomic step.               *)
(***************************************************************************)
EXTENDS Naturals, Sequences, FiniteSets

CONSTANTS Notifiers, MaxChanges, MaxSends, QueueSizes

VARIABLES def,         \* the definition Process built
          phase,       \* "built", "up", "stopping", "stopped"
          value,       \* what the `when` expression would evaluate to
          lastWasTrue,
          at, seen,    \* per notifier: where it is in the callback, what it evaluated
          mailbox, state, errors,
          changes, sends,
          sent,        \* events of the present true period
          refused,     \* the mailbox refused a reactive event
          stale        \* some evaluation was older than the value, or failed

vars == <<def, phase, value, lastWasTrue, at, seen, mailbox, state, errors, changes, sends, sent, refused, stale>>

-----------------------------------------------------------------------------
(* Process.  A block is a record of its sub-blocks; a sub-block one of its *)
(* labels and attributes.                                                  *)

StateAttrs == {"on_init", "on_entry", "on_exit", "on_event"}
ParseStateBlock(s) == s.labels = 1 /\ s.attrs \subseteq StateAttrs

ParseTransitionBlock(t) == t.labels = 2 /\ t.attrs \subseteq {"guard", "action"}
ParseEventBlock(e) ==
  /\ e.labels = 1 /\ e.attrs \subseteq {"topic", "when"}
  /\ \A i \in DOMAIN e.transitions : ParseTransitionBlock(e.transitions[i])
ParseStorageBlock(s) == s.labels = 0

\* parseSubBlocks: any other block type is refused, duplicate states too.
ParseSubBlocks(b) ==
  /\ b.unknown = 0
  /\ \A i \in DOMAIN b.states : ParseStateBlock(b.states[i])
  /\ \A i, j \in DOMAIN b.states : i # j => b.states[i].name # b.states[j].name
  /\ \A i \in DOMAIN b.events : ParseEventBlock(b.events[i])
  /\ \A i \in DOMAIN b.storage : ParseStorageBlock(b.storage[i])

StateNames(b) == {b.states[i].name : i \in DOMAIN b.states}

\* The library's Validate: the initial state and every transition's ends
\* are declared.
Validate(b) ==
  /\ b.initial \in StateNames(b)
  /\ \A i \in DOMAIN b.events : \A j \in DOMAIN b.events[i].transitions :
       {b.events[i].transitions[j].from, b.events[i].transitions[j].to} \subseteq StateNames(b)

\* A disabled block takes its placeholder out again; a refused one fails the
\* build; on_init on another state than the initial one is only warned of.
Process(b) ==
  IF b.disabled THEN "removed"
  ELSE IF ParseSubBlocks(b) /\ Validate(b) THEN "registered" ELSE "refused"

\* The blocks of this instance: a door that may be wrong in one place.
Tr(f, t, n) == [labels |-> n, attrs |-> {"guard", "action"}, from |-> f, to |-> t]
Door(initial, disabled, attr, labels, unknown, to) ==
  [disabled |-> disabled, initial |-> initial, unknown |-> unknown,
   states |-> <<[labels |-> 1, name |-> "shut", attrs |-> {"on_init"}],
                [labels |-> labels, name |-> "open", attrs |-> {attr}]>>,
   events |-> <<[labels |-> 1, name |-> "open", attrs |-> {"when"}, transitions |-> <<Tr("shut", to, 2)>>],
                [labels |-> 1, name |-> "close", attrs |-> {"topic"}, transitions |-> <<Tr("open", "shut", 2)>>]>>,
   storage |-> <<[labels |-> 0]>>]
Blocks == {Door(i, d, a, l, u, t) : i \in {"shut", "none"}, d \in BOOLEAN, a \in {"on_entry", "on_fire"},
                                    l \in {1, 2}, u \in {0, 1}, t \in {"open", "ajar"}}

-----------------------------------------------------------------------------
(* The reactive event.                                                     *)

Idle == "idle"
Quiet == \A n \in Notifiers : at[n] = Idle

\* A watchable changes; whoever changed it re-evaluates the expression.
Change(n, v) ==
  /\ phase = "up" /\ at[n] = Idle /\ changes < MaxChanges /\ changes' = changes + 1
  /\ value' = v /\ at' = [at EXCEPT ![n] = "eval"]
  /\ sent' = IF value # v THEN 0 ELSE sent
  /\ stale' = (stale \/ (value # v /\ ~Quiet))
  /\ UNCHANGED <<def, phase, lastWasTrue, seen, mailbox, state, errors, sends, refused>>

\* ReactiveExpr.OnChange: an evaluation that fails leaves things as they are.
Eval(n) ==
  /\ at[n] = "eval"
  /\ \/ at' = [at EXCEPT ![n] = "callback"] /\ seen' = [seen EXCEPT ![n] = value] /\ UNCHANGED stale
     \/ at' = [at EXCEPT ![n] = Idle] /\ stale' = TRUE /\ UNCHANGED seen
  /\ UNCHANGED <<def, phase, value, lastWasTrue, mailbox, state, errors, changes, sends, sent, refused>>

(* Broken form: every evaluation to true is an event. *)
ClaimAlways == TRUE

\* CompareAndSwap(false, true).
Claim == ~lastWasTrue

Callback(n) ==
  /\ at[n] = "callback"
  /\ stale' = (stale \/ seen[n] # value)
  /\ IF ~seen[n]
       THEN lastWasTrue' = FALSE /\ at' = [at EXCEPT ![n] = Idle]
       ELSE /\ at' = [at EXCEPT ![n] = IF Claim THEN "enqueue" ELSE Idle]
            /\ lastWasTrue' = TRUE
  /\ UNCHANGED <<def, phase, value, seen, mailbox, state, errors, changes, sends, sent, refused>>

(* Broken form: a refusal leaves the edge claimed. *)
KeepClaim(n) == Idle

\* EnqueueEvent: a full mailbox refuses, and the edge is put back; a stopped
\* machine refuses too, which is expected.
AfterRefusal(n) == "put back"
Enqueue(n) ==
  /\ at[n] = "enqueue"
  /\ stale' = (stale \/ ~value)
  /\ CASE phase # "up" -> at' = [at EXCEPT ![n] = Idle] /\ UNCHANGED <<mailbox, sent, refused>>
       [] phase = "up" /\ Len(mailbox) < def.queueSize ->
            /\ mailbox' = Append(mailbox, "open") /\ sent' = sent + 1
            /\ at' = [at EXCEPT ![n] = Idle] /\ UNCHANGED refused
       [] OTHER -> at' = [at EXCEPT ![n] = AfterRefusal(n)] /\ refused' = TRUE /\ UNCHANGED <<mailbox, sent>>
  /\ UNCHANGED <<def, phase, value, lastWasTrue, seen, state, errors, changes, sends>>

PutBack(n) ==
  /\ at[n] = "put back" /\ at' = [at EXCEPT ![n] = Idle] /\ lastWasTrue' = FALSE
  /\ UNCHANGED <<def, phase, value, seen, mailbox, state, errors, changes, sends, sent, refused, stale>>

-----------------------------------------------------------------------------
(* The machine.                                                            *)

Send ==
  /\ phase = "up" /\ sends < MaxSends /\ sends' = sends + 1 /\ Len(mailbox) < def.queueSize
  /\ mailbox' = Append(mailbox, "close")
  /\ UNCHANGED <<def, phase, value, lastWasTrue, at, seen, state, errors, changes, sent, refused, stale>>

\* One event: the first transition of the present state whose guard holds; a
\* hook that fails goes to on_error and does not stop the transition.
Target(e, s) == CASE e = "open" /\ s = "shut" -> "open" [] e = "close" /\ s = "open" -> "shut" [] OTHER -> s
Step ==
  /\ phase \in {"up", "stopping"} /\ mailbox # <<>> /\ mailbox' = Tail(mailbox)
  /\ \E guard, hookFails \in BOOLEAN :
       /\ state' = IF guard THEN Target(Head(mailbox), state) ELSE state
       /\ errors' = (errors \/ hookFails)
  /\ UNCHANGED <<def, phase, value, lastWasTrue, at, seen, changes, sends, sent, refused, stale>>

\* fsmStartable.Start: the machine, then each expression, whose first value
\* is submitted like any other.
Start ==
  /\ phase = "built" /\ phase' = "up"
  /\ at' = [at EXCEPT ![CHOOSE n \in Notifiers : TRUE] = "eval"]
  /\ UNCHANGED <<def, value, lastWasTrue, seen, mailbox, state, errors, changes, sends, sent, refused, stale>>

\* fsmStoppable.Stop: expressions first, then the machine.
Stop == /\ phase = "up" /\ Quiet /\ phase' = "stopping"
        /\ UNCHANGED <<def, value, lastWasTrue, at, seen, mailbox, state, errors, changes, sends, sent, refused, stale>>
Stopped == /\ phase = "stopping" /\ phase' = "stopped"
           /\ UNCHANGED <<def, value, lastWasTrue, at, seen, mailbox, state, errors, changes, sends, sent, refused, stale>>

Init ==
  /\ \E b \in Blocks, q \in QueueSizes :
       Process(b) = "registered" /\ def = [initial |-> b.initial, queueSize |-> q]
  /\ phase = "built" /\ value \in BOOLEAN /\ lastWasTrue = FALSE
  /\ at = [n \in Notifiers |-> Idle] /\ seen = [n \in Notifiers |-> FALSE]
  /\ mailbox = <<>> /\ state = def.initial /\ errors = FALSE /\ changes = 0 /\ sends = 0
  /\ sent = 0 /\ refused = FALSE /\ stale = FALSE

Next ==
  \/ Start \/ Stop \/ Stopped \/ Send \/ Step
  \/ \E n \in Notifiers : Eval(n) \/ Callback(n) \/ Enqueue(n) \/ PutBack(n) \/ \E v \in BOOLEAN : Change(n, v)

Spec == Init /\ [][Next]_vars

-----------------------------------------------------------------------------
(* Properties.                                                             *)

\* Goroutines that see the expression go true together give one event, not
\* two, as long as none of them carries an older value or fails to evaluate
\* and the mailbox takes what it is given (the comment on CompareAndSwap).
OneEventPerEdge == ~stale /\ ~refused => sent <= 1

\* An edge is never lost for as long as the expression stays true: either
\* its event was taken or the next evaluation will claim it again.
EdgeNotSwallowed == ~stale /\ Quiet /\ value /\ sent = 0 /\ phase = "up" => ~lastWasTrue
=============================================================================
