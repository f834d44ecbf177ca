------------------------------- MODULE Health -------------------------------
(***************************************************************************)
(* Readiness and liveness of the process: config/health.go.                *)
(*                                                                         *)
(* Health has no goroutine of its own.  Whoever asks runs Status: the      *)
(* process gate, then the cached report or a new evaluation that all       *)
(* concurrent askers share, then the bookkeeping.  A contributor that      *)
(* knows its own state pushes it through report.  h.mu is released between *)
(* these sections, and the sys.ready handle has a lock of its own, so a    *)
(* call in progress is a task that stands before its next section.         *)
(***************************************************************************)
EXTENDS Integers, FiniteSets

CONSTANTS
  Contributors, \* the registered Readyables
  Live,         \* those registered for the live probe; the rest are for ready
  Notifiers,    \* those that are ReadyNotifiers and push their state
  Readers,      \* goroutines that call Status
  Asked,        \* the probes they ask for
  Main,         \* the goroutine that runs runServer
  Nobody,       \* the nil *healthCall
  Process,      \* the name of the synthesized process entry
  Concurrent,   \* FALSE: one call at a time
  Flaky,        \* TRUE: Ready may time out or panic although all is well
  CacheTTL,     \* healthCacheTTL, in ticks
  MaxNow        \* bound: the last instant considered

\* The sets are disjoint but that Live and Notifiers are among the Contributors,
\* and CacheTTL is positive.

VARIABLES
  h,       \* the Health
  handle,  \* the ReadyHandle behind sys.ready
  tasks,   \* calls in progress
  up,      \* what each contributor's Ready would answer now
  now,     \* the time
  told     \* auxiliary: the first value observed, and the net of the flips
           \* the watchers of sys.ready have been notified of

vars == <<h, handle, tasks, up, now, told>>

Probe == {"ready", "live"}
ProbeOf(c) == IF c \in Live THEN "live" ELSE "ready"

\* A report, complete or still being collected: a partial function.
NoResults == [c \in {} |-> TRUE]
Results == UNION {[S -> BOOLEAN] : S \in SUBSET Contributors}
Complete(res) == DOMAIN res = Contributors

Never == [ready |-> FALSE, at |-> -1]
Since == {Never} \cup [ready : BOOLEAN, at : 0..MaxNow]

Callers == Readers \cup Notifiers \cup {Main}
Idle == [at |-> "idle", probe |-> "ready", force |-> FALSE, gate |-> TRUE,
         res |-> NoResults, shared |-> FALSE, value |-> FALSE, from |-> 0,
         steady |-> {}]
Stage == {"idle", "evaluate", "wait", "probing", "observe", "notify",
          "assemble", "stamp", "verdict", "report"}

\* Every variable keeps its type: what is cached, and what is handed to a caller
\* that waited, is a report on all contributors or none.
TypeOK ==
  /\ h \in [state : {"starting", "serving", "draining"},
            results : {NoResults} \cup [Contributors -> BOOLEAN],
            computedAt : 0..MaxNow,
            inflight : Readers \cup {Nobody},
            observed : [Probe -> {"unknown", "passing", "failing"}],
            since : [Contributors \cup {Process} -> Since]]
  /\ handle \in [known : BOOLEAN, value : BOOLEAN]
  /\ tasks \in [Callers -> [at : Stage, probe : Probe, force : BOOLEAN,
                            gate : BOOLEAN, res : Results, shared : BOOLEAN,
                            value : BOOLEAN, from : 0..MaxNow,
                            steady : SUBSET Notifiers]]
  /\ \A r \in Callers : tasks[r].at \in {"wait", "assemble", "stamp", "verdict"}
                          => tasks[r].res = NoResults \/ Complete(tasks[r].res)
  /\ up \in [Contributors -> BOOLEAN]
  /\ now \in 0..MaxNow
  /\ told \in [base : BOOLEAN, net : Int]

-----------------------------------------------------------------------------
Standing(x, at) == tasks[x].at = at
MayStart == Concurrent \/ \A x \in Callers : Standing(x, "idle")

\* Broken form: every observation is dated anew.
RestampSince(since, v, t) ==
  [k \in DOMAIN since |->
     IF k \in DOMAIN v THEN [ready |-> v[k], at |-> t] ELSE since[k]]
\* noteSinceLocked, for every component v has a verdict on: an unchanged
\* verdict keeps its date.
NoteSince(since, v, t) ==
  [k \in DOMAIN since |->
     IF k \in DOMAIN v /\ (since[k] = Never \/ since[k].ready # v[k])
       THEN [ready |-> v[k], at |-> t] ELSE since[k]]

AllReady(res, probe) == \A c \in DOMAIN res : ProbeOf(c) = probe => res[c]

\* processStatus: does the process pass, and does it decide alone.
ProcessPasses(probe) ==
  h.state = "serving" \/ (h.state = "draining" /\ probe = "live")
-----------------------------------------------------------------------------
(* Status.                                                                 *)

\* A call begins by reading the process gate.  steady is auxiliary: the
\* notifiers whose state has been pushed and does not change during the call.
Status(r, probe, force) ==
  /\ Standing(r, "idle")
  /\ MayStart
  /\ tasks' = [tasks EXCEPT ![r] =
       [Idle EXCEPT !.probe = probe,
                    !.force = force /\ ProcessPasses(probe),
                    !.gate = ProcessPasses(probe),
                    !.at = IF ProcessPasses(probe) THEN "evaluate"
                           ELSE IF probe = "ready" THEN "observe"
                           ELSE "assemble",
                    !.steady = {c \in Notifiers : Standing(c, "idle")}]]
  /\ UNCHANGED <<h, handle, up, now, told>>

Fresh == h.results # NoResults /\ now - h.computedAt < CacheTTL

\* Broken form: nobody joins the evaluation in flight.
JoinsNever(r) == FALSE
\* Whoever finds an evaluation in flight waits for that one.
Joins(r) == h.inflight # Nobody

\* evaluate: the cache, the evaluation in flight, or one of its own.
Evaluate(r) ==
  /\ Standing(r, "evaluate")
  /\ LET hit == Fresh /\ ~tasks[r].force
     IN  /\ tasks' = [tasks EXCEPT
              ![r].force = FALSE,
              ![r].at = IF hit THEN "assemble"
                        ELSE IF Joins(r) THEN "wait" ELSE "probing",
              ![r].res = IF hit THEN h.results ELSE NoResults,
              ![r].shared = hit]
         /\ h' = [h EXCEPT !.inflight = IF hit \/ Joins(r) THEN @ ELSE r]
  /\ UNCHANGED <<handle, up, now, told>>

\* probeOne, on a goroutine of its own: Ready's answer, or a failure if it is
\* too slow or panics.
ProbeOne(r, c) ==
  /\ Standing(r, "probing")
  /\ c \notin DOMAIN tasks[r].res
  /\ \E ready \in {up[c], up[c] /\ ~Flaky} :
       tasks' = [tasks EXCEPT ![r].res =
         [d \in DOMAIN @ \cup {c} |-> IF d = c THEN ready ELSE @[d]]]
  /\ UNCHANGED <<h, handle, up, now, told>>

\* Broken form: the evaluation stops at the first failure.
CompleteOrFailing(res) == DOMAIN res = Contributors \/ \E c \in DOMAIN res : ~res[c]
\* runContributors waits for every contributor.
AllProbed(res) == DOMAIN res = Contributors

\* Broken form: the waiters are not released.
Unreleased(r, x) == [tasks[x] EXCEPT !.shared = FALSE]
\* What the end of r's evaluation makes of another call: a waiter receives the
\* report, and nobody else shares the slice that is cached now.
Released(r, x) ==
  IF Standing(x, "wait") /\ tasks[x].res = NoResults
    THEN [tasks[x] EXCEPT !.res = tasks[r].res, !.shared = TRUE]
    ELSE [tasks[x] EXCEPT !.shared = FALSE]

\* The report is cached and dated, and the evaluation is no longer in flight.
Store(r) ==
  /\ Standing(r, "probing")
  /\ AllProbed(tasks[r].res)
  /\ h' = [h EXCEPT !.results = tasks[r].res, !.computedAt = now,
                    !.inflight = Nobody,
                    !.since = NoteSince(@, tasks[r].res, now)]
  /\ tasks' = [x \in Callers |->
       IF x = r THEN [tasks[r] EXCEPT !.at = "observe", !.shared = TRUE,
                                      !.value = AllReady(tasks[r].res, "ready")]
                ELSE Released(r, x)]
  /\ UNCHANGED <<handle, up, now, told>>

\* The evaluation joined has ended.
Wake(r) ==
  /\ Standing(r, "wait")
  /\ tasks[r].res # NoResults
  /\ tasks' = [tasks EXCEPT ![r].at = "assemble"]
  /\ UNCHANGED <<h, handle, up, now, told>>

\* The caller's own context ends first: lastResults, whatever that holds.
GiveUp(r) ==
  /\ Standing(r, "wait")
  /\ tasks' = [tasks EXCEPT ![r].at = "assemble", ![r].res = h.results,
                            ![r].shared = TRUE]
  /\ UNCHANGED <<h, handle, up, now, told>>

\* Status copies the entries out of the slice, without h.mu: until here a
\* correction of the shared slice may still show.
Assemble(r) ==
  /\ Standing(r, "assemble")
  /\ tasks' = [tasks EXCEPT ![r].at = "stamp", ![r].shared = FALSE, ![r].from = now]
  /\ UNCHANGED <<h, handle, up, now, told>>

\* stampSince, with the time read before h.mu was taken.
Stamp(r) ==
  /\ Standing(r, "stamp")
  /\ LET seen == {c \in DOMAIN tasks[r].res : ProbeOf(c) = tasks[r].probe}
         v == [k \in seen \cup {Process} |->
                 IF k = Process THEN tasks[r].gate ELSE tasks[r].res[k]]
     IN  h' = [h EXCEPT !.since = NoteSince(@, v, tasks[r].from)]
  /\ tasks' = [tasks EXCEPT ![r].at = "verdict", ![r].from = 0]
  /\ UNCHANGED <<handle, up, now, told>>

\* What the caller is told: Failing is empty.
Passing(r) == tasks[r].gate /\ AllReady(tasks[r].res, tasks[r].probe)

\* noteVerdict, and the return.
NoteVerdict(r) ==
  /\ Standing(r, "verdict")
  /\ h' = [h EXCEPT !.observed[tasks[r].probe] =
                     IF Passing(r) THEN "passing" ELSE "failing"]
  /\ tasks' = [tasks EXCEPT ![r] = Idle]
  /\ UNCHANGED <<handle, up, now, told>>

-----------------------------------------------------------------------------
(* sys.ready.                                                              *)

After(x) == IF x \in Readers THEN [tasks[x] EXCEPT !.at = "assemble", !.value = FALSE]
                             ELSE Idle

\* Broken form: the first observation is announced like an edge.
FlipsOrFirst(value) == handle.value # value
\* The first observation is a baseline, a repeat is silent.
Flips(value) == handle.known /\ handle.value # value

\* observe: records the value; a flip is then notified, outside the lock.
Observe(x) ==
  /\ Standing(x, "observe")
  /\ LET value == tasks[x].value
     IN  /\ handle' = [known |-> TRUE, value |-> value]
         /\ tasks' = [tasks EXCEPT ![x] =
              IF Flips(value) THEN [@ EXCEPT !.at = "notify"] ELSE After(x)]
         /\ told' = IF handle.known THEN told ELSE [told EXCEPT !.base = value]
  /\ UNCHANGED <<h, up, now>>

NotifyAll(x) ==
  /\ Standing(x, "notify")
  /\ tasks' = [tasks EXCEPT ![x] = After(x)]
  /\ told' = [told EXCEPT !.net = IF tasks[x].value THEN @ + 1 ELSE @ - 1]
  /\ UNCHANGED <<h, handle, up, now>>

-----------------------------------------------------------------------------
(* The contributors and the process.                                       *)

\* A contributor's state changes; a notifier's callback goes on to report it.
Change(c) ==
  /\ MayStart
  /\ c \in Notifiers => Standing(c, "idle")
  /\ up' = [up EXCEPT ![c] = ~@]
  /\ tasks' = [x \in Callers |->
       IF x = c THEN [Idle EXCEPT !.at = "report", !.value = up'[c]]
                ELSE [tasks[x] EXCEPT !.steady = @ \ {c}]]
  /\ UNCHANGED <<h, handle, now, told>>

\* Broken form: a recovery leaves the cached report alone.
KeepStaleFailure(c) ==
  /\ h' = [h EXCEPT !.since = NoteSince(@, [k \in {c} |-> TRUE], now)]
  /\ tasks' = [tasks EXCEPT ![c] = Idle]
\* report(nil) drops the cache: the aggregate is not this component's to decide.
ReportReady(c) ==
  /\ h' = [h EXCEPT !.since = NoteSince(@, [k \in {c} |-> TRUE], now),
                    !.results = NoResults, !.computedAt = 0]
  /\ tasks' = [x \in Callers |->
       IF x = c THEN Idle ELSE [tasks[x] EXCEPT !.shared = FALSE]]

\* report(err) corrects the cached entry in place.  Readers that share the slice
\* and have not copied it yet race with that write: any of them may see it.
ReportUnready(c) ==
  /\ h' = [h EXCEPT !.since = NoteSince(@, [k \in {c} |-> FALSE], now),
                    !.results = [k \in DOMAIN @ |-> @[k] /\ k # c],
                    !.observed[ProbeOf(c)] = "failing"]
  /\ \E seen \in SUBSET {r \in Readers : tasks[r].shared} :
       tasks' = [x \in Callers |->
         CASE x = c -> IF ProbeOf(c) = "ready"
                         THEN [Idle EXCEPT !.at = "observe"] ELSE Idle
           [] x \in seen -> [tasks[x] EXCEPT !.res =
                               [k \in DOMAIN @ |-> @[k] /\ k # c]]
           [] OTHER -> tasks[x]]

Report(c) ==
  /\ Standing(c, "report")
  /\ IF tasks[c].value THEN ReportReady(c) ELSE ReportUnready(c)
  /\ UNCHANGED <<handle, up, now, told>>

SetBooted ==
  /\ h.state = "starting"
  /\ MayStart
  /\ h' = [h EXCEPT !.state = "serving"]
  /\ UNCHANGED <<handle, tasks, up, now, told>>

BeginDrain ==
  /\ h.state # "draining"
  /\ MayStart
  /\ h' = [h EXCEPT !.state = "draining"]
  /\ tasks' = [tasks EXCEPT ![Main] = [Idle EXCEPT !.at = "observe"]]
  /\ UNCHANGED <<handle, up, now, told>>

Tick ==
  /\ now < MaxNow
  /\ now' = now + 1
  /\ UNCHANGED <<h, handle, tasks, up, told>>

Init ==
  /\ h = [state |-> "starting", results |-> NoResults, computedAt |-> 0,
          inflight |-> Nobody, observed |-> [p \in Probe |-> "unknown"],
          since |-> [k \in Contributors \cup {Process} |-> Never]]
  /\ handle = [known |-> FALSE, value |-> FALSE]
  /\ tasks = [x \in Callers |-> Idle]
  /\ up \in [Contributors -> BOOLEAN]
  /\ now = 0
  /\ told = [base |-> FALSE, net |-> 0]

StatusStep(r) ==
  \/ Evaluate(r) \/ Wake(r) \/ GiveUp(r) \/ Store(r)
  \/ \E c \in Contributors : ProbeOne(r, c)
  \/ Assemble(r) \/ Stamp(r) \/ NoteVerdict(r)

Next ==
  \/ \E r \in Readers : StatusStep(r)
  \/ \E r \in Readers, probe \in Asked, force \in BOOLEAN : Status(r, probe, force)
  \/ \E x \in Callers : Observe(x) \/ NotifyAll(x)
  \/ \E c \in Contributors : Change(c)
  \/ \E c \in Notifiers : Report(c)
  \/ SetBooted \/ BeginDrain \/ Tick

Spec == Init /\ [][Next]_vars

\* Goroutines that can run are run, and Ready returns within contributorTimeout.
\* No caller is obliged to give up.
Runs(r) ==
  \/ Evaluate(r) \/ Wake(r) \/ Store(r) \/ \E c \in Contributors : ProbeOne(r, c)
  \/ Assemble(r) \/ Stamp(r) \/ NoteVerdict(r) \/ Observe(r) \/ NotifyAll(r)
Fairness == \A r \in Readers : WF_vars(Runs(r))

FairSpec == Spec /\ Fairness

-----------------------------------------------------------------------------
\* "Concurrent askers share one evaluation": at most one runs, it is the one in
\* flight, and a caller that waits waits for it or already has its outcome.
SingleFlight ==
  /\ \A r \in Readers : Standing(r, "probing") <=> h.inflight = r
  /\ \A r \in Readers : Standing(r, "wait")
                          => h.inflight # Nobody \/ tasks[r].res # NoResults

\* Every flip of sys.ready is notified once, and nothing else is: the flips
\* notified and those on their way add up to the change since the baseline.
One(b) == IF b THEN 1 ELSE 0
FlipsBalance ==
  LET Going(v) == Cardinality({x \in Callers : Standing(x, "notify") /\ tasks[x].value = v})
  IN  handle.known => One(handle.value) - One(told.base)
                        = told.net + Going(TRUE) - Going(FALSE)

\* A call to Status always returns.
CallsReturn == \A r \in Readers : []<>Standing(r, "idle")

\* "/readyz stops claiming the process is ready at the same moment", and a
\* recovery "drops the cache, so the next reader gets the truth rather than a
\* stale failure": a read says of every notifier that has pushed its state, and
\* keeps it for the length of the read, what that state is.
ServesPushed ==
  \A r \in Readers : NoteVerdict(r) =>
    \A c \in tasks[r].steady \cap DOMAIN tasks[r].res :
      ProbeOf(c) = tasks[r].probe => tasks[r].res[c] = up[c]
PushedStateServed == [][ServesPushed]_vars

\* "the age of a failure is what makes it diagnosable, and re-observing it must
\* not reset the clock": while a pushed state stands, its date stands.
SinceStands ==
  \A c \in Notifiers :
    Standing(c, "idle") /\ h.since[c] # Never /\ h.since[c].ready = up[c] /\ up' = up
      => h'.since[c] = h.since[c]
=============================================================================
