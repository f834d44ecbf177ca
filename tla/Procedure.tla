----------------------------- MODULE Procedure -----------------------------
(***************************************************************************)
(* The procedure language: compiling a procedure's spec and body, calling  *)
(* it and interpreting it (procedure/compiler.go, spec.go, interpreter.go, *)
(* scope.go).                                                              *)
(*                                                                         *)
(* An item of a body is an attribute (an assignment, a return, a break or  *)
(* continue with a condition, or with the literal true) or a block with a  *)
(* body of its own.  A statement is what an item compiles to: an if chain  *)
(* and a switch have one body per branch and the body of their else or     *)
(* default, which is nil, here the empty sequence, when there is none and  *)
(* also when it is empty.  What an expression evaluates to is not          *)
(* modelled: a condition may turn out either way each time it is asked,    *)
(* and every evaluation may fail.  The interpreter's recursion is a stack  *)
(* of frames, one per Execute, and a stack of scopes, one per NewScope.    *)
(***************************************************************************)
EXTENDS Naturals, Sequences, FiniteSets, SequencesExt

CONSTANTS Procedures,  \* the blocks compiled: [body, spec], a spec being [params, variadic]
          MaxArgs,     \* the most arguments a call is given
          MaxItems     \* the most elements a range's collection has

VARIABLES program, spec,
          phase,       \* "parsing", "compiling", "built", "refused", "running", "ended"
          stmts,       \* the compiled body
          bound,       \* what each parameter holds when the body begins
          frames,      \* the nested Executes: [stmts, at, sig, left]
          scopes,      \* the nested scopes: the names each one holds
          outcome      \* what the call answered: "none", "value", "null", "error"

vars == <<program, spec, phase, stmts, bound, frames, scopes, outcome>>

Reserved == {"return", "break", "continue"}
Discarded == {"_"}
Loops == {"while", "range"}
Signals == {"none", "break", "continue", "return"}

(***************************************************************************)
(* Compiling.                                                              *)
(***************************************************************************)
RECURSIVE AlwaysTerminates(_), Compiled(_, _), Compile(_, _, _)

BodyTerminates(ss) == \E k \in 1..Len(ss) : AlwaysTerminates(ss[k])

\* Broken form: a chain without an else is held to terminate too.
TerminatesWithoutElse(s) ==
    \/ s.kind = "return"
    \/ /\ s.kind \in {"if", "switch"}
       /\ \A k \in 1..Len(s.bodies) : BodyTerminates(s.bodies[k])
       /\ s.other = << >> \/ BodyTerminates(s.other)

\* Whether a statement returns whichever way its conditions turn out.
AlwaysTerminates(s) ==
    \/ s.kind = "return"
    \/ /\ s.kind \in {"if", "switch"}
       /\ s.other # << >>
       /\ \A k \in 1..Len(s.bodies) : BodyTerminates(s.bodies[k])
       /\ BodyTerminates(s.other)

\* Whether nothing after the statement can run: a second item is refused.
Ends(s) == AlwaysTerminates(s) \/ s.kind \in {"break!", "continue!"}

Leaf(kind) == [kind |-> kind, name |-> "", bodies |-> << >>, other |-> << >>]
Failed(c) == [c EXCEPT !.ok = FALSE]

\* The item joins the if chain before it.
Joins(c, item) == item.kind \in {"elif", "else"} /\ c.open

IsSignal(item) == item.kind \in {"break", "break!", "continue", "continue!"}

\* Broken form: a break outside any loop is compiled like one inside.
AttributeAnywhere(c, item, depth) ==
    [c EXCEPT !.stmts = Append(@, [Leaf(item.kind) EXCEPT !.name = item.name]), !.open = FALSE]

\* A return, a signal (refused outside a loop) or an assignment.
Attribute(c, item, depth) ==
    IF IsSignal(item) /\ depth = 0 THEN Failed(c)
    ELSE [c EXCEPT !.stmts = Append(@, [Leaf(item.kind) EXCEPT !.name = item.name]),
                   !.open = FALSE]

\* An elif adds a branch; an else sets the body after the last branch.  Both
\* are refused when the chain already has an else that is not empty.
JoinChain(c, item, depth) ==
    LET body == Compiled(item.body, depth)
        n == Len(c.stmts)
    IN  IF c.stmts[n].other # << >> \/ ~body.ok THEN Failed(c)
        ELSE IF item.kind = "elif"
             THEN [c EXCEPT !.stmts[n].bodies = Append(@, body.stmts)]
             ELSE [c EXCEPT !.stmts[n].other = body.stmts]

IfBlock(c, item, depth) ==
    LET body == Compiled(item.body, depth)
    IN  IF ~body.ok THEN Failed(c)
        ELSE [c EXCEPT !.stmts = Append(@, [Leaf("if") EXCEPT !.bodies = <<body.stmts>>]),
                       !.open = TRUE]

LoopBlock(c, item, depth) ==
    LET body == Compiled(item.body, depth + 1)
    IN  IF ~body.ok THEN Failed(c)
        ELSE [c EXCEPT !.stmts = Append(@, [Leaf(item.kind) EXCEPT !.bodies = <<body.stmts>>,
                                                                   !.name = item.name]),
                       !.open = FALSE]

\* A case adds a body; a second default that is not empty is refused, and so
\* is anything that is neither.
SwitchArm(s, arm, depth) ==
    LET body == Compiled(arm.body, depth)
    IN  CASE ~s.ok \/ ~body.ok \/ arm.kind \notin {"case", "default"} -> [s EXCEPT !.ok = FALSE]
          [] arm.kind = "case" -> [s EXCEPT !.bodies = Append(@, body.stmts)]
          [] OTHER -> IF s.other # << >> THEN [s EXCEPT !.ok = FALSE]
                      ELSE [s EXCEPT !.other = body.stmts]

SwitchBlock(c, item, depth) ==
    LET s == FoldLeft(LAMBDA a, arm : SwitchArm(a, arm, depth),
                      [ok |-> TRUE, bodies |-> << >>, other |-> << >>], item.body)
    IN  IF ~s.ok THEN Failed(c)
        ELSE [c EXCEPT !.stmts = Append(@, [Leaf("switch") EXCEPT !.bodies = s.bodies,
                                                                  !.other = s.other]),
                       !.open = FALSE]

\* One item of a body.  An item after a statement that ends the body is
\* refused as unreachable; an elif or else outside a chain is refused.
Compile(c, item, depth) ==
    CASE ~c.ok -> c
      [] c.ok /\ Joins(c, item) -> JoinChain(c, item, depth)
      [] OTHER ->
         IF c.stmts # << >> /\ Ends(c.stmts[Len(c.stmts)]) THEN Failed(c)
         ELSE CASE item.kind \in {"elif", "else"} -> Failed(c)
                [] item.kind = "if" -> IfBlock(c, item, depth)
                [] item.kind \in Loops -> LoopBlock(c, item, depth)
                [] item.kind = "switch" -> SwitchBlock(c, item, depth)
                [] OTHER -> Attribute(c, item, depth)

Compiled(items, depth) ==
    FoldLeft(LAMBDA c, item : Compile(c, item, depth),
             [ok |-> TRUE, stmts |-> << >>, open |-> FALSE], items)

(***************************************************************************)
(* The spec block: params blocks, each of which must list its required     *)
(* parameters before its optional ones, and the name of a variadic one.    *)
(***************************************************************************)
AllParams(sp) == FlattenSeq(sp.params)
Required(sp) == SelectSeq(AllParams(sp), LAMBDA p : p.required)

BadName(n) == n \in Reserved \cup Discarded

ParamsValid(block) ==
    /\ \A k \in 1..Len(block) : ~BadName(block[k].name)
    /\ \A j, k \in 1..Len(block) : j < k /\ block[k].required => block[j].required

SpecValid(sp) ==
    /\ ~BadName(sp.variadic)
    /\ \A k \in 1..Len(sp.params) : ParamsValid(sp.params[k])
    /\ sp.variadic = "" \/ \A k \in 1..Len(AllParams(sp)) : AllParams(sp)[k].name # sp.variadic

\* Broken form: the variadic parameter starts after the required arguments.
BindOverlapping(sp, n) ==
    LET ps == AllParams(sp)
        req == Len(Required(sp))
    IN  [k \in 1..Len(ps) |-> IF k <= n THEN {k} ELSE {}]
        \o IF sp.variadic = "" THEN << >> ELSE <<(req + 1)..n>>

\* What a call with n arguments binds: to each parameter the positions of the
\* arguments it holds, no position standing for its default.
Bind(sp, n) ==
    LET ps == AllParams(sp)
    IN  [k \in 1..Len(ps) |-> IF k <= n THEN {k} ELSE {}]
        \o IF sp.variadic = "" THEN << >> ELSE <<(Len(ps) + 1)..n>>

CallRefused(sp, n) ==
    \/ n < Len(Required(sp))
    \/ sp.variadic = "" /\ n > Len(AllParams(sp))

ParamNames(sp) ==
    {AllParams(sp)[k].name : k \in 1..Len(AllParams(sp))} \cup ({sp.variadic} \ {""})

(***************************************************************************)
(* Building and calling the function.                                      *)
(***************************************************************************)
Init ==
    /\ \E p \in Procedures : program = p.body /\ spec = p.spec
    /\ phase = "parsing" /\ stmts = << >> /\ bound = << >>
    /\ frames = << >> /\ scopes = << >> /\ outcome = "none"

ParseSpec ==
    /\ phase = "parsing"
    /\ phase' = IF SpecValid(spec) THEN "compiling" ELSE "refused"
    /\ UNCHANGED <<program, spec, stmts, bound, frames, scopes, outcome>>

CompileBody ==
    /\ phase = "compiling"
    /\ LET c == Compiled(program, 0)
       IN  /\ phase' = IF c.ok THEN "built" ELSE "refused"
           /\ stmts' = IF c.ok THEN c.stmts ELSE << >>
    /\ UNCHANGED <<program, spec, bound, frames, scopes, outcome>>

Frame(ss) == [stmts |-> ss, at |-> 1, sig |-> "none", left |-> 0]

Call(n) ==
    /\ phase = "built"
    /\ IF CallRefused(spec, n)
       THEN /\ phase' = "ended" /\ outcome' = "error"
            /\ UNCHANGED <<bound, frames, scopes>>
       ELSE /\ phase' = "running" /\ outcome' = outcome
            /\ bound' = Bind(spec, n)
            /\ frames' = <<Frame(stmts)>> /\ scopes' = <<ParamNames(spec)>>
    /\ UNCHANGED <<program, spec, stmts>>

(***************************************************************************)
(* Interpreting.                                                           *)
(***************************************************************************)
Top == frames[Len(frames)]
Exhausted == Top.sig # "none" \/ Top.at > Len(Top.stmts)
Current == Top.stmts[Top.at]
Advanced(fs) == [fs EXCEPT ![Len(fs)].at = @ + 1]
Signalled(fs, s) == [fs EXCEPT ![Len(fs)].sig = s]

Steps(kinds) == /\ phase = "running" /\ ~Exhausted /\ Current.kind \in kinds
                /\ UNCHANGED <<program, spec, stmts, bound, phase, outcome>>

\* Broken form: an assignment always binds in the innermost scope.
SetInnermost(ss, n) ==
    IF n \in Discarded THEN ss ELSE [ss EXCEPT ![Len(ss)] = @ \cup {n}]

\* The nearest scope that holds the name keeps it; a name no scope holds is
\* created in the innermost one; a discarded name is never bound.
Set(ss, n) ==
    IF n \in Discarded \/ \E k \in 1..Len(ss) : n \in ss[k] THEN ss
    ELSE [ss EXCEPT ![Len(ss)] = @ \cup {n}]

Assign ==
    /\ Steps({"set"})
    /\ scopes' = Set(scopes, Current.name)
    /\ frames' = Advanced(frames)

Signal(taken) ==
    /\ Steps({"break", "continue", "break!", "continue!"})
    /\ Current.kind \in {"break!", "continue!"} => taken
    /\ frames' = IF ~taken THEN Advanced(frames)
                 ELSE Signalled(frames, IF Current.kind \in {"break", "break!"}
                                        THEN "break" ELSE "continue")
    /\ UNCHANGED scopes

Return ==
    /\ Steps({"return"})
    /\ frames' = Signalled(frames, "return")
    /\ UNCHANGED scopes

Enter(body, names, left) ==
    /\ frames' = Append([frames EXCEPT ![Len(frames)].left = left], Frame(body))
    /\ scopes' = Set(Append(scopes, {}), names)

\* An if chain or a switch runs the first body whose condition holds, else
\* its else or default body, else nothing.
Branch ==
    /\ Steps({"if", "switch"})
    /\ \/ \E k \in 1..Len(Current.bodies) : Enter(Current.bodies[k], "_", 0)
       \/ /\ Current.other # << >>
          /\ Enter(Current.other, "_", 0)
       \/ /\ Current.other = << >>
          /\ frames' = Advanced(frames) /\ UNCHANGED scopes

WhileTest(holds) ==
    /\ Steps({"while"})
    /\ IF holds THEN Enter(Current.bodies[1], "_", 0)
       ELSE frames' = Advanced(frames) /\ UNCHANGED scopes

\* A range evaluates its collection once; left counts the elements after the
\* current one.
RangeBegins(n) ==
    /\ Steps({"range"})
    /\ IF n = 0 THEN frames' = Advanced(frames) /\ UNCHANGED scopes
       ELSE Enter(Current.bodies[1], Current.name, n - 1)

\* What the statement that ran a body does with the signal the body ended
\* with: a branch passes it on; a loop catches break and continue.
\* Broken form: a loop passes a continue on like a branch does.
CaughtByBreakOnly(s, sig) ==
    CASE sig = "none" -> IF s.kind \in Loops THEN "again" ELSE "next"
      [] sig = "break" /\ s.kind \in Loops -> "next"
      [] OTHER -> "pass"

Caught(s, sig) ==
    CASE s.kind \in Loops /\ sig \in {"none", "continue"} -> "again"
      [] s.kind \in Loops /\ sig = "break" -> "next"
      [] s.kind \notin Loops /\ sig = "none" -> "next"
      [] OTHER -> "pass"

BodyEnds ==
    /\ phase = "running" /\ Exhausted /\ Len(frames) > 1
    /\ LET up == Front(frames)
           f == up[Len(up)]
           s == f.stmts[f.at]
           outer == Front(scopes)
       IN  CASE Caught(s, Top.sig) = "next" -> frames' = Advanced(up) /\ scopes' = outer
             [] Caught(s, Top.sig) = "pass" -> frames' = Signalled(up, Top.sig) /\ scopes' = outer
             [] OTHER ->
                IF s.kind = "range" /\ f.left > 0
                THEN /\ frames' = Append([up EXCEPT ![Len(up)].left = @ - 1], Frame(s.bodies[1]))
                     /\ scopes' = Set(Append(outer, {}), s.name)
                ELSE /\ frames' = IF s.kind = "range" THEN Advanced(up) ELSE up
                     /\ scopes' = outer
    /\ UNCHANGED <<program, spec, stmts, bound, phase, outcome>>

\* The outermost Execute ends: the value of a return, null when the body ran
\* out, and the zero value a stray break or continue would carry.
Answer ==
    /\ phase = "running" /\ Exhausted /\ Len(frames) = 1
    /\ phase' = "ended"
    /\ outcome' = CASE Top.sig = "return" -> "value" [] Top.sig = "none" -> "null"
                    [] OTHER -> "nothing"
    /\ UNCHANGED <<program, spec, stmts, bound, frames, scopes>>

\* An expression, or a collection that is none, fails the whole call.
Fail ==
    /\ phase = "running" /\ ~Exhausted
    /\ phase' = "ended" /\ outcome' = "error"
    /\ UNCHANGED <<program, spec, stmts, bound, frames, scopes>>

Next ==
    \/ ParseSpec \/ CompileBody
    \/ \E n \in 0..MaxArgs : Call(n)
    \/ Assign \/ Return \/ Branch \/ BodyEnds \/ Answer \/ Fail
    \/ \E b \in BOOLEAN : Signal(b) \/ WhileTest(b)
    \/ \E n \in 0..MaxItems : RangeBegins(n)
    \/ phase \in {"refused", "ended"} /\ UNCHANGED vars

Spec == Init /\ [][Next]_vars

-----------------------------------------------------------------------------
(***************************************************************************)
(* Properties.                                                             *)
(***************************************************************************)
TypeOK ==
    /\ phase \in {"parsing", "compiling", "built", "refused", "running", "ended"}
    /\ outcome \in {"none", "value", "null", "error", "nothing"}
    /\ Len(frames) = Len(scopes)
    /\ \A k \in 1..Len(frames) : frames[k].sig \in Signals

\* A break or continue the compiler accepted is always caught by a loop of the
\* same procedure: no call ends with one, and no frame outside a loop carries
\* one (compiler.go:494, interpreter.go:172 and :232).
SignalsCaught ==
    /\ outcome # "nothing"
    /\ \A k \in 1..Len(frames) :
          frames[k].sig \in {"break", "continue"} =>
              \E j \in 1..(k - 1) : frames[j].stmts[frames[j].at].kind \in Loops

\* A body the compiler took to return on every path, and so refused any
\* statement after, never runs out (compiler.go:446 against interpreter.go:87
\* and :118).
TerminatorsReturn ==
    \A k \in 1..Len(frames) :
       frames[k].sig = "none" /\ frames[k].at > Len(frames[k].stmts)
          => ~BodyTerminates(frames[k].stmts)

\* No name is bound twice along the open scopes: an inner block updates the
\* outer variable and never hides it (scope.go:45).
NoShadowing ==
    \A j, k \in 1..Len(scopes) : j # k => scopes[j] \cap scopes[k] = {}

\* Every argument of a call reaches exactly one parameter, and a required
\* parameter holds its own argument, when required parameters come before
\* optional ones over all params blocks (spec.go:330).
Ordered(sp) ==
    \A j, k \in 1..Len(AllParams(sp)) :
       j < k /\ AllParams(sp)[k].required => AllParams(sp)[j].required

ArgumentsLand ==
    phase = "running" /\ Ordered(spec) =>
       /\ \A j, k \in 1..Len(bound) : j # k => bound[j] \cap bound[k] = {}
       /\ \A k \in 1..Len(AllParams(spec)) : AllParams(spec)[k].required => bound[k] = {k}
=============================================================================
