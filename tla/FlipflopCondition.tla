------------------------- MODULE FlipflopCondition -------------------------
(***************************************************************************)
(* condition "flipflop": conditions/flipflop.go.  Wires (set, reset,       *)
(* toggle, gate, set_from) are expressions over sources; a source that     *)
(* changes notifies, the flipflop re-evaluates the wires it feeds under    *)
(* f.mu and hands the result to the state machine after the unlock.  A     *)
(* wire here is one source's value; Null is an expression that failed or   *)
(* was no boolean.  Of the machine only rawInput is kept.                  *)
(***************************************************************************)
EXTENDS Integers, FiniteSets

CONSTANTS Sources,   \* what the wires read
          Shapes,    \* the blocks considered, see Shape
          Null

EventWires == {"set", "reset", "toggle"}
Wires == EventWires \cup {"gate", "from"}
EventEdges == {"rising", "falling", "both"}
GateEdges == EventEdges \cup {"high", "low"}
Unwired == "unwired"

VARIABLES shape,     \* the block: feeds, edges, dominantSet, startActive
          val,       \* the sources' values
          pending,   \* sources whose notification has not run
          prev,      \* per wire: its last value, Null while it has none
          gateAsserting, desired, raw,
          pc,        \* notifying goroutines between unlock and SetRawInput
          moved, overlap

vars == <<shape, val, pending, prev, gateAsserting, desired, raw, pc, moved, overlap>>

-----------------------------------------------------------------------------
Wired(w) == shape.feeds[w] # Unwired
Has(sh, w) == sh.feeds[w] # Unwired

\* processFlipflopCondition: a wire that drives, set_from only under a gate,
\* an edge only for a declared wire, of a mode that wire can have.
ProcessFlipflopCondition(sh) ==
  /\ \E w \in EventWires \cup {"from"} : Has(sh, w)
  /\ Has(sh, "from") => Has(sh, "gate")
  /\ \A w \in EventWires : sh.edge[w] \in EventEdges
  /\ sh.edge["gate"] \in GateEdges

IsLevel(mode) == mode \in {"high", "low"}

EdgeFired(was, cur, mode) ==
  CASE mode = "rising" -> ~was /\ cur
    [] mode = "falling" -> was /\ ~cur
    [] mode = "both" -> was # cur
    [] OTHER -> FALSE

\* evalBool.
Eval(w) == IF Wired(w) THEN val[shape.feeds[w]] ELSE Null

Asserting(v) == IF shape.edge["gate"] = "low" THEN ~v ELSE v

\* edgeFiredFor, and what it leaves in prev: a failed evaluation keeps it.
EdgeFiredFor(w) == Eval(w) # Null /\ prev[w] # Null /\ EdgeFired(prev[w], Eval(w), shape.edge[w])
Baseline(ws) == [w \in Wires |-> IF w \in ws /\ Eval(w) # Null THEN Eval(w) ELSE prev[w]]

\* reconcileDesiredLocked: the machine may have dropped its input itself.
Reconciled == raw

(* Broken form: an edge under a closed gate still counts. *)
GateIgnored(open) == TRUE
GateAdmits(open) == open

-----------------------------------------------------------------------------
\* recomputeLocked for a notification of source s, from a reconciled value.
Recompute(s) ==
  LET feeds(w) == shape.feeds[w] = s
      level == Wired("gate") /\ IsLevel(shape.edge["gate"])
      heard == feeds("gate") /\ Eval("gate") # Null
      asserting == IF level /\ heard THEN Asserting(Eval("gate")) ELSE gateAsserting
      justAsserted == level /\ heard /\ asserting /\ prev["gate"] # Null /\ ~Asserting(prev["gate"])
      gateEdge == heard /\ ~level /\ prev["gate"] # Null
                  /\ EdgeFired(prev["gate"], Eval("gate"), shape.edge["gate"])
      open == IF ~Wired("gate") THEN TRUE ELSE IF level THEN asserting ELSE gateEdge
      sample == /\ Wired("from") /\ Eval("from") # Null
                /\ IF level THEN asserting /\ (feeds("from") \/ justAsserted) ELSE gateEdge
      d0 == IF sample THEN Eval("from") ELSE Reconciled
      hits(w) == feeds(w) /\ EdgeFiredFor(w) /\ GateAdmits(open)
      d1 == CASE hits("set") /\ hits("reset") -> shape.dominantSet
              [] hits("set") -> TRUE
              [] hits("reset") -> FALSE
              [] hits("toggle") -> ~d0
              [] OTHER -> d0
  IN  [desired |-> d1, asserting |-> asserting,
       prev |-> Baseline({w \in EventWires : feeds(w)} \cup (IF heard THEN {"gate"} ELSE {}))]

Quiescent == pc = {}

\* onSourceChanged, up to its unlock.
OnSourceChanged(s) ==
  LET r == Recompute(s) IN
  /\ s \in pending /\ pending' = pending \ {s}
  /\ desired' = r.desired /\ gateAsserting' = r.asserting /\ prev' = r.prev
  /\ pc' = IF r.desired # Reconciled THEN pc \cup {[at |-> s, v |-> r.desired]} ELSE pc
  /\ overlap' = (overlap \/ ~Quiescent)
  /\ UNCHANGED <<shape, val, raw, moved>>

\* Set and Toggle called by an expression; Clear.
Set(v) ==
  /\ \A c \in pc : c.at # "call"
  /\ desired' = v /\ pc' = pc \cup {[at |-> "call", v |-> v]}
  /\ overlap' = (overlap \/ ~Quiescent) /\ moved' = FALSE
  /\ UNCHANGED <<shape, val, pending, prev, gateAsserting, raw>>

Toggle == Set(~Reconciled)

Clear ==
  /\ \A c \in pc : c.at # "call"
  /\ desired' = FALSE /\ pc' = pc \cup {[at |-> "call", v |-> FALSE]}
  /\ overlap' = (overlap \/ ~Quiescent) /\ moved' = FALSE
  /\ UNCHANGED <<shape, val, pending, prev, gateAsserting, raw>>

SetRawInput(c) ==
  /\ c \in pc /\ raw' = c.v /\ pc' = pc \ {c}
  /\ UNCHANGED <<shape, val, pending, prev, gateAsserting, desired, moved, overlap>>

\* A source takes another value; the goroutine that set it will notify.
Change(s) ==
  /\ s \notin pending
  /\ \E v \in {TRUE, FALSE, Null} : v # val[s] /\ val' = [val EXCEPT ![s] = v]
  /\ pending' = pending \cup {s}
  /\ moved' = \/ moved
              \/ s = shape.feeds["from"] /\ val'[s] # Null
              \/ s = shape.feeds["gate"] /\ val'[s] # Null /\ ~Asserting(val'[s])
  /\ UNCHANGED <<shape, prev, gateAsserting, desired, raw, pc, overlap>>

-----------------------------------------------------------------------------
\* Start: every wire's first value is a baseline and fires nothing.
Start ==
  /\ prev = [w \in Wires |-> IF shape.feeds[w] # Unwired /\ w # "from" THEN val[shape.feeds[w]] ELSE Null]
  /\ gateAsserting = (shape.feeds["gate"] # Unwired /\ IsLevel(shape.edge["gate"])
                      /\ Asserting(val[shape.feeds["gate"]]))

Init ==
  /\ shape \in {sh \in Shapes : ProcessFlipflopCondition(sh)}
  /\ val \in [Sources -> BOOLEAN] /\ Start
  /\ pending = {} /\ pc = {} /\ moved = FALSE /\ overlap = FALSE
  /\ desired = shape.startActive /\ raw = shape.startActive

Next ==
  \/ \E s \in Sources : Change(s) \/ OnSourceChanged(s)
  \/ \E v \in BOOLEAN : Set(v)
  \/ Toggle \/ Clear
  \/ \E c \in pc : SetRawInput(c)

Spec == Init /\ [][Next]_vars

-----------------------------------------------------------------------------
(* Properties.                                                             *)

Quiet == Quiescent /\ pending = {}

\* Changes that do not overlap leave the machine with what was decided.
DesiredCommits == Quiescent /\ ~overlap => raw = desired

\* An action property: a notification under a closed gate decides nothing, whatever edges it
\* brings and whatever it does to the gate's own baseline: an edge seen while
\* the gate is closed is gone, not deferred (recomputeLocked).
GateCloses ==
  \A s \in Sources :
    /\ s \in pending /\ s \notin pending' /\ Wired("gate")
    /\ IsLevel(shape.edge["gate"]) /\ ~gateAsserting'
    => desired' = raw

\* A level-gated set_from is transparent: at rest with the gate asserting,
\* the state is the input's, once the input has changed or the gate closed
\* since boot or since a call overrode it.
LatchTransparent ==
  /\ Quiet /\ ~overlap /\ moved /\ gateAsserting
  /\ Wired("from") /\ IsLevel(shape.edge["gate"])
  /\ \A w \in EventWires : ~Wired(w)
  /\ Eval("from") # Null /\ Eval("gate") # Null
  => desired = Eval("from")
=============================================================================
