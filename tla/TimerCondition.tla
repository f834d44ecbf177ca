---------------------------- MODULE TimerCondition ----------------------------
(***************************************************************************)
(* condition "timer" (conditions/timer.go) in front of its StateMachine.   *)
(*                                                                         *)
(* The condition keeps its own view of the input (rawInput, stableInput)   *)
(* under t.mu, releases t.mu, and only then calls sm.SetRawInput.  Between *)
(* the two another goroutine may run either part.  A call in progress is a *)
(* task: it stands before its next critical section.  Debounce timers run  *)
(* their callback as a task of their own.                                  *)
(***************************************************************************)
EXTENDS ConditionStateMachine

CONSTANTS
  Debounce,  \* debounce, in ticks; 0 when not configured
  HasInput,  \* hasInputExpr: driven by a reactive input=, not by set()
  Callers,   \* goroutines that call into the condition
  DebIds,    \* bound: debounce timers alive at a time
  Nobody     \* no caller

\* Callers, DebIds, Nobody and NoTimer are all different.

VARIABLES
  t,        \* the TimerCondition: rawInput, stableInput, debTimer
  deb,      \* its debounce timers
  tasks,    \* calls in progress
  source,   \* the value the input= expression would evaluate to now
  wanted,   \* auxiliary: the value submitInput saw last
  solo      \* auxiliary: the caller that has had the condition to itself

tvars == <<t, deb, tasks, source, wanted, solo>>
allVars == <<vars, tvars>>

Tasks == Callers \cup DebIds
Returned == [at |-> "idle", value |-> FALSE]
NoDeb == [phase |-> "idle", left |-> 0]

\* Every variable keeps its type: a debounce timer never counts more than the
\* configured window nor past its end, and debTimer names a timer or nothing.
TypeOKT ==
  /\ TypeOK
  /\ t \in [rawInput : BOOLEAN, stableInput : BOOLEAN,
            debTimer : DebIds \cup {NoTimer}]
  /\ deb \in [DebIds -> [phase : {"idle", "armed", "launched"}, left : 0..Debounce]]
  /\ tasks \in [Tasks -> [at : {"idle", "eval", "submit", "forward", "clear",
                                "resample", "reassert"}, value : BOOLEAN]]
  /\ source \in BOOLEAN /\ wanted \in BOOLEAN
  /\ solo \in Callers \cup {Nobody}

-----------------------------------------------------------------------------
Standing(c, at) == tasks[c].at = at
Goto(c, at, value) == tasks' = [tasks EXCEPT ![c] = [at |-> at, value |-> value]]
Return(c) == tasks' = [tasks EXCEPT ![c] = Returned]

Quiet == /\ \A c \in Tasks : Standing(c, "idle")
         /\ \A i \in DebIds : deb[i] = NoDeb

\* A call starts: it has the condition to itself if nothing else is under way.
Begin(c) == solo' = IF Quiet /\ Quiescent THEN c ELSE Nobody

\* Broken form: trust the stale view.
NoReconcile(s) == s
\* The stale view of the machine's input is replaced, as Toggle and
\* submitInput do first: the machine resets its input on timeout and Clear.
Reconcile(s) ==
  IF sm.rawInput = s.stableInput THEN s
  ELSE [s EXCEPT !.stableInput = sm.rawInput, !.rawInput = sm.rawInput]

FreeDeb == {i \in DebIds : /\ deb[i] = NoDeb
                           /\ Standing(i, "idle")
                           /\ i # t.debTimer}

\* Broken form: the window is one tick longer than configured.
NewDebLate == [phase |-> "armed", left |-> Debounce + 1]
\* clock.AfterFunc(t.debounce, t.onDebounceFire).
NewDeb == [phase |-> "armed", left |-> Debounce]

\* debTimer.Stop(), without effect on a timer already launched.
DebStopped ==
  [i \in DebIds |-> IF i = t.debTimer /\ deb[i].phase = "armed" THEN NoDeb ELSE deb[i]]

\* set(): straight into submitInput.
Set(c, value) ==
  /\ ~HasInput
  /\ MayEnter
  /\ Standing(c, "idle")
  /\ Begin(c)
  /\ Goto(c, "submit", value)
  /\ UNCHANGED <<vars, t, deb, source, wanted>>

\* toggle(): the new value is decided under t.mu, and submitted after it.
Toggle(c) ==
  /\ ~HasInput
  /\ MayEnter
  /\ Standing(c, "idle")
  /\ Begin(c)
  /\ t' = Reconcile(t)
  /\ Goto(c, "submit", ~t'.stableInput)
  /\ UNCHANGED <<vars, deb, source, wanted>>

\* A watchable the input expression reads changes; the goroutine that changed
\* it runs ReactiveExpr.OnChange, which evaluates the expression and then
\* calls submitInput with what it found.
Change(c) ==
  /\ HasInput
  /\ MayEnter
  /\ Standing(c, "idle")
  /\ Begin(c)
  /\ source' = ~source
  /\ Goto(c, "eval", FALSE)
  /\ UNCHANGED <<vars, t, deb, wanted>>

Eval(c) ==
  /\ Standing(c, "eval")
  /\ Goto(c, "submit", source)
  /\ UNCHANGED <<vars, t, deb, source, wanted, solo>>

\* submitInput's critical section, without and with debounce.
SubmitDirect(c) ==
  LET v == tasks[c].value
      s == [Reconcile(t) EXCEPT !.rawInput = v]
  IN  /\ t' = [s EXCEPT !.stableInput = v]
      /\ IF v = s.stableInput THEN Return(c) ELSE Goto(c, "forward", v)
      /\ UNCHANGED deb

\* Broken form: a second edge stops the running timer and arms no new one.
StopWithoutRearm(c) ==
  LET v == tasks[c].value
      s == [Reconcile(t) EXCEPT !.rawInput = v]
  IN  /\ Return(c)
      /\ IF v = s.stableInput \/ t.debTimer # NoTimer
           THEN /\ t' = [s EXCEPT !.debTimer = NoTimer]
                /\ deb' = DebStopped
           ELSE \E i \in FreeDeb :
                  /\ t' = [s EXCEPT !.debTimer = i]
                  /\ deb' = [deb EXCEPT ![i] = NewDeb]
SubmitDebounced(c) ==
  LET v == tasks[c].value
      s == [Reconcile(t) EXCEPT !.rawInput = v]
  IN  /\ Return(c)
      /\ IF v = s.stableInput
           THEN /\ t' = [s EXCEPT !.debTimer = NoTimer]
                /\ deb' = DebStopped
           ELSE \E i \in FreeDeb :
                  /\ t' = [s EXCEPT !.debTimer = i]
                  /\ deb' = [DebStopped EXCEPT ![i] = NewDeb]

SubmitInput(c) ==
  /\ Standing(c, "submit")
  /\ IF Debounce = 0 THEN SubmitDirect(c) ELSE SubmitDebounced(c)
  /\ wanted' = tasks[c].value
  /\ UNCHANGED <<vars, source, solo>>

\* sm.SetRawInput, whose early return makes no difference to the machine.
Forward(c) ==
  /\ Standing(c, "forward")
  /\ Return(c)
  /\ IF sm.rawInput = tasks[c].value
       THEN UNCHANGED vars ELSE SetRawInput(tasks[c].value)
  /\ UNCHANGED <<t, deb, source, wanted, solo>>

\* clear(): the condition's own input, then the machine, then - if the input
\* expression is true - a fresh assertion that skips debounce.
ClearInput(c) ==
  /\ MayEnter
  /\ Standing(c, "idle")
  /\ Begin(c)
  /\ t' = [rawInput |-> FALSE, stableInput |-> FALSE, debTimer |-> NoTimer]
  /\ deb' = DebStopped
  /\ wanted' = FALSE
  /\ Goto(c, "clear", FALSE)
  /\ UNCHANGED <<vars, source>>

\* Broken form: clear() ends with the machine, and forgets a true input.
ClearWithoutResample(c) ==
  /\ Standing(c, "clear")
  /\ Clear
  /\ Return(c)
  /\ UNCHANGED <<t, deb, source, wanted, solo>>
ClearMachine(c) ==
  /\ Standing(c, "clear")
  /\ Clear
  /\ IF HasInput THEN Goto(c, "resample", FALSE) ELSE Return(c)
  /\ UNCHANGED <<t, deb, source, wanted, solo>>

Resample(c) ==
  /\ Standing(c, "resample")
  /\ IF source THEN Goto(c, "reassert", TRUE) ELSE Return(c)
  /\ UNCHANGED <<vars, t, deb, source, wanted, solo>>

Reassert(c) ==
  /\ Standing(c, "reassert")
  /\ t' = [t EXCEPT !.rawInput = TRUE, !.stableInput = TRUE]
  /\ wanted' = TRUE
  /\ Goto(c, "forward", TRUE)
  /\ UNCHANGED <<vars, deb, source, solo>>

-----------------------------------------------------------------------------
(* Time and timers.                                                        *)

DebDue(i) == deb[i] = [phase |-> "armed", left |-> 0]

DebLaunch(i) ==
  /\ DebDue(i)
  /\ deb' = [deb EXCEPT ![i].phase = "launched"]
  /\ UNCHANGED <<vars, t, tasks, source, wanted, solo>>

OnDebounceFire(i) ==
  /\ deb[i].phase = "launched"
  /\ deb' = [deb EXCEPT ![i] = NoDeb]
  /\ t' = [t EXCEPT !.debTimer = NoTimer, !.stableInput = t.rawInput]
  /\ IF t.rawInput = t.stableInput
       THEN UNCHANGED tasks ELSE Goto(i, "forward", t.rawInput)
  /\ UNCHANGED <<vars, source, wanted, solo>>

TickT ==
  /\ \A i \in DebIds : ~DebDue(i)
  /\ Tick
  /\ deb' = [i \in DebIds |->
               IF deb[i].phase = "armed" THEN [deb[i] EXCEPT !.left = @ - 1]
                                         ELSE deb[i]]
  /\ UNCHANGED <<t, tasks, source, wanted, solo>>

\* The machine's own timers and notifications; a callback that runs ends the
\* quiet a solo caller enjoyed.
MachineStep ==
  /\ \/ \E i \in TimerIds : (Launch(i) \/ RunCallback(i)) /\ solo' = Nobody
     \/ \E h \in Hook : Notify(h) /\ UNCHANGED solo
  /\ UNCHANGED <<t, deb, tasks, source, wanted>>

\* The reactive inhibit= expression calls straight into the machine.
InhibitChange ==
  /\ \E inhibited \in BOOLEAN : SetInhibited(inhibited)
  /\ UNCHANGED tvars

\* Start: Bootstrap, the mirrored input, and - for a declared input - the
\* first evaluation, which submits the value the expression has.
InitT ==
  /\ Init
  /\ source \in BOOLEAN
  /\ t = [rawInput |-> StartActive, stableInput |-> StartActive,
          debTimer |-> NoTimer]
  /\ deb = [i \in DebIds |-> NoDeb]
  /\ IF HasInput
       THEN \E c \in Callers :
              tasks = [i \in Tasks |->
                         IF i = c THEN [at |-> "eval", value |-> FALSE] ELSE Returned]
       ELSE tasks = [i \in Tasks |-> Returned]
  /\ wanted = StartActive
  /\ solo = Nobody

CallStep(c) ==
  \/ Eval(c) \/ SubmitInput(c) \/ Forward(c)
  \/ ClearMachine(c) \/ Resample(c) \/ Reassert(c)

NextT ==
  \/ \E c \in Callers : \/ \E value \in BOOLEAN : Set(c, value)
                        \/ Toggle(c) \/ Change(c) \/ ClearInput(c)
  \/ \E c \in Tasks : CallStep(c)
  \/ \E i \in DebIds : DebLaunch(i) \/ OnDebounceFire(i)
  \/ MachineStep
  \/ InhibitChange
  \/ TickT

SpecT == InitT /\ [][NextT]_allVars

-----------------------------------------------------------------------------
\* An edge that waits for debounce is never stranded: while the submitted value
\* differs from the one last forwarded, a debounce timer is armed or launched,
\* whatever timers late callbacks and restarts have orphaned.
EdgeNotStranded ==
  Debounce > 0 /\ t.rawInput # t.stableInput => \E i \in DebIds : deb[i] # NoDeb

\* A call that had the condition to itself takes effect: when all is at rest
\* again, its debounce window included, the machine's input is the submitted (or
\* cleared) value, whatever races, timeouts and clears went before.  This is what
\* the reconcile in submitInput is for.
LoneCallCommits == Quiet /\ Quiescent /\ solo # Nobody => sm.rawInput = wanted

\* "With no attributes at all it tracks its input one-to-one": at rest, the
\* machine's input is the value of the input expression.
TracksInput == Quiet /\ Quiescent => sm.rawInput = source
=============================================================================
