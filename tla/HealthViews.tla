----------------------------- MODULE HealthViews -----------------------------
(***************************************************************************)
(* Where the health of the process is seen: the endpoints on the           *)
(* --health-listen listener and on a `server "http"`, http::readyz and     *)
(* http::livez, health::*, the REPL's report, the metrics, and the wait of *)
(* `vinculum test` for readiness (config/healthhttp.go,                    *)
(* config/healthmetrics.go, servers/http/health.go, cmd/health.go,         *)
(* functions/health.go, functions/healthhttp.go).                          *)
(*                                                                         *)
(* Health itself is the module of that name; here Status answers with a    *)
(* new evaluation or, unless it is forced, the cached one.  The process    *)
(* gate is one contributor more.                                           *)
(***************************************************************************)
EXTENDS Integers, Sequences

CONSTANTS Readyables, Lives, \* the contributors to each probe
          Mounts,            \* listeners as configured
          Requests, Options, \* what a probe request and http::readyz ask for
          MaxFlips           \* bound: changes of state

VARIABLES mount,
          phase,     \* "written", "refused", "serving"
          served,    \* the paths the health handler has
          meters,    \* the providers the metrics are registered with, by backend
          up,        \* the state of each contributor
          cache,     \* the last report, << >> for none
          view,      \* auxiliary: the answer just given, other than to a scrape
          series,    \* what the last scrape exported, per probe
          waiting,   \* awaitReady: "no", "polling", "ready", "timedOut"
          flips
vars == <<mount, phase, served, meters, up, cache, view, series, waiting, flips>>

Paths == {"readyz", "livez", "healthz"}
Components == Readyables \cup Lives
Of(probe) == IF probe = "live" THEN Lives ELSE Readyables
\* endpointFor
ProbeOf(path) == IF path = "readyz" THEN "ready" ELSE "live"
None == [from |-> "none"]
NoSeries == [p \in {} |-> 0]

Init ==
  /\ mount \in Mounts /\ phase = "written" /\ served = {} /\ meters = << >>
  /\ up \in [Components -> BOOLEAN] /\ cache = << >>
  /\ view = None /\ series = NoSeries /\ waiting = "no" /\ flips = 0
-----------------------------------------------------------------------------
(* Mounting.                                                               *)

\* Broken form: only a route for every method claims its path.
DeclaredPathsAnyMethod(def) == {r.path : r \in {x \in def.routes : ~x.disabled /\ x.method = "any"}}
\* declaredPaths, by path alone, whatever the method or host.
DeclaredPaths(def) == {r.path : r \in {x \in def.routes : ~x.disabled}}

\* Broken form: a provider is registered with once for each backend.
RegisteredEach(backends) == backends
\* registerHealthMetrics: with each backend's provider, once, for the first
\* that has it.
FirstUses(backends) ==
  {i \in 1..Len(backends) : backends[i] # "nil" /\ \A j \in 1..(i - 1) : backends[j] # backends[i]}
Registered(backends) == [i \in FirstUses(backends) |-> backends[i]]

Mounted(refused, paths) ==
  /\ phase = "written"
  /\ phase' = IF refused THEN "refused" ELSE "serving"
  /\ served' = IF refused THEN {} ELSE paths
  /\ meters' = IF refused THEN meters ELSE Registered(mount.backends)
  /\ UNCHANGED <<mount, up, cache, view, series, waiting, flips>>

\* mountHealthEndpoints of a server, last of its routes.
MountHealthEndpoints ==
  /\ mount.kind = "server"
  /\ Mounted(mount.endpoints = "invalid",
             IF mount.endpoints = "off" THEN {} ELSE Paths \ DeclaredPaths(mount))

\* startHealthListener, which fails if it cannot bind.
StartHealthListener == mount.kind = "listener" /\ Mounted(~mount.binds, Paths)

Flip(c) ==
  /\ phase = "serving" /\ flips < MaxFlips /\ flips' = flips + 1
  /\ up' = [up EXCEPT ![c] = ~@]
  /\ UNCHANGED <<mount, phase, served, meters, cache, view, series, waiting>>
-----------------------------------------------------------------------------
(* Rendering.                                                              *)

\* What Status may answer with.
Reports(force) == {up} \cup (IF force \/ cache = << >> THEN {} ELSE {cache})
Passing(rep, probe) == \A c \in Of(probe) : rep[c]
Failing(rep, probe) == {c \in Of(probe) : ~rep[c]}

\* NegotiateHealthRender: the flag counts only where the owner allows it.
Negotiate(r, allowVerbose) ==
  [json |-> r.format = "json" \/ r.accept = "json", verbose |-> allowVerbose /\ r.verbose \in {"", "true"}, head |-> r.head]

\* Broken form: JSON lists the components whenever the request asks for JSON.
ListsInJSON(render) == render.json \/ render.verbose
\* renderHealthBody: does the body tell of the components.
Lists(render) == render.verbose

\* HealthResponse: 200 or 503, a body that says the same, and none for HEAD.
Response(path, rep, render) ==
  LET ok == Passing(rep, ProbeOf(path)) IN
  [status |-> IF ok THEN 200 ELSE 503,
   body |-> IF render.head THEN "none" ELSE IF ok THEN "passing" ELSE "failing",
   lists |-> IF ~render.head /\ Lists(render) THEN Of(ProbeOf(path)) ELSE {}]

Shown(from, path, rep, response) ==
  /\ view' = [from |-> from, probe |-> ProbeOf(path), report |-> rep, response |-> response]
  /\ cache' = rep
  /\ UNCHANGED <<mount, phase, served, meters, up, series, waiting, flips>>

\* HealthHandler, and WriteHealthResponse.
Probe(path, r) ==
  /\ phase = "serving" /\ path \in served
  /\ \E rep \in Reports(FALSE) :
       Shown("handler", path, rep,
             Response(path, rep, Negotiate(r, mount.endpoints = "verbose")))

\* probeRender: nothing, a request, which may always ask for detail here, or
\* options, of which a bad one is an error.
ProbeRender(o) ==
  CASE o.kind = "request" -> Negotiate(o.request, TRUE)
    [] o.kind = "options" -> [json |-> o.format = "json", verbose |-> o.verbose = "true", head |-> FALSE]
    [] OTHER -> [json |-> FALSE, verbose |-> FALSE, head |-> FALSE]
RenderFails(o) == o.kind = "options" /\ (o.format = "bad" \/ o.verbose = "bad")

\* http::readyz and http::livez.
ProbeResponseFunc(path, o) ==
  /\ phase = "serving" /\ path # "healthz" /\ ~RenderFails(o)
  /\ \E rep \in Reports(FALSE) : Shown("function", path, rep, Response(path, rep, ProbeRender(o)))

Answer(rep, probe, lists) ==
  LET ok == Failing(rep, probe) = {} IN
  [status |-> IF ok THEN 200 ELSE 503, body |-> IF ok THEN "passing" ELSE "failing", lists |-> lists]

\* health::ready and live, status, failing, and health::refresh, which is
\* forced and about readiness.
HealthFunc(f, path) ==
  LET probe == ProbeOf(path) IN
  /\ phase = "serving" /\ (f = "refresh" => probe = "ready")
  /\ \E rep \in Reports(f = "refresh") :
       Shown(f, path, rep,
             Answer(rep, probe, CASE f = "status" -> Of(probe)
                                  [] f = "failing" -> Failing(rep, probe)
                                  [] OTHER -> {}))

\* HealthReportText, the REPL's: forced and verbose.
HealthReportText(path) ==
  /\ phase = "serving"
  /\ \E rep \in Reports(TRUE) : Shown("text", path, rep, Answer(rep, ProbeOf(path), Of(ProbeOf(path))))
-----------------------------------------------------------------------------
(* Metrics and the wait.                                                   *)

\* Broken form: the state a subject has left keeps its value.
ObserveHeld(passing) == [passing |-> 1, failing |-> IF passing THEN 0 ELSE 1]
\* observeState: 1 for the state it is in, 0 for the other.
ObserveState(passing) == [passing |-> IF passing THEN 1 ELSE 0, failing |-> IF passing THEN 0 ELSE 1]

Series(rep, probe) ==
  [subject \in Of(probe) \cup {"whole"} |->
     ObserveState(IF subject = "whole" THEN Passing(rep, probe) ELSE rep[subject])]

\* observeHealth, readiness first; the report may have changed before liveness.
ObserveHealth(probe) ==
  /\ phase = "serving" /\ DOMAIN meters # {}
  /\ probe = "ready" <=> DOMAIN series # {"ready"}
  /\ \E rep \in Reports(FALSE) :
       /\ series' = [p \in IF probe = "ready" THEN {"ready"} ELSE {"ready", "live"} |->
                       IF p = probe THEN Series(rep, probe) ELSE series[p]]
       /\ cache' = rep
  /\ view' = None
  /\ UNCHANGED <<mount, phase, served, meters, up, waiting, flips>>

\* Broken form: the wait is content with the cache.
PollCached == Reports(FALSE)
PollReports == Reports(TRUE)
\* awaitReady: one look, forced; then the context may have expired.
AwaitReady ==
  /\ phase = "serving" /\ waiting \in {"no", "polling"}
  /\ \E rep \in PollReports :
       /\ cache' = rep
       /\ IF Failing(rep, "ready") = {} THEN waiting' = "ready"
          ELSE waiting' \in {"polling", "timedOut"}
       /\ view' = [from |-> "await", probe |-> "ready", report |-> up,
                   response |-> Answer(rep, "ready", Failing(rep, "ready"))]
  /\ UNCHANGED <<mount, phase, served, meters, up, series, flips>>

Next ==
  \/ MountHealthEndpoints \/ StartHealthListener
  \/ \E c \in Components : Flip(c)
  \/ \E path \in Paths : \/ \E r \in Requests : Probe(path, r)
                         \/ \E o \in Options : ProbeResponseFunc(path, o)
  \/ \E path \in {"readyz", "livez"} : \/ \E f \in {"bool", "status", "failing", "refresh"} : HealthFunc(f, path)
                                      \/ HealthReportText(path)
  \/ \E probe \in {"ready", "live"} : ObserveHealth(probe)
  \/ AwaitReady
Spec == Init /\ [][Next]_vars
-----------------------------------------------------------------------------
TypeOK ==
  /\ phase \in {"written", "refused", "serving"} /\ served \subseteq Paths
  /\ up \in [Components -> BOOLEAN] /\ cache \in {<< >>} \cup [Components -> BOOLEAN]
  /\ waiting \in {"no", "polling", "ready", "timedOut"} /\ flips \in 0..MaxFlips

\* An endpoint nobody authenticates to names no component unless its owner said
\* it may: "a terse endpoint must stay terse however the caller asks"
\* (config/healthhttp.go:181-183).
TerseStaysTerse ==
  view.from = "handler" /\ view.response.lists # {} => mount.endpoints = "verbose"

\* However health is looked at, status, body and detail tell of the one report
\* and the one probe asked for: 200 just when all its contributors pass, and
\* where any are listed the failing ones are.  A wait for readiness ends well
\* only if they pass at that moment, not some time before.
OneVerdict ==
  view # None =>
    LET r == view.response  fails == Failing(view.report, view.probe) IN
    /\ r.status = 200 <=> fails = {}
    /\ r.body # "none" => (r.body = "passing" <=> r.status = 200)
    /\ r.lists # {} => fails \subseteq r.lists /\ r.lists \subseteq Of(view.probe)

\* A path has one owner, for every method, and a provider that two backends
\* share exports each state once (servers/http/health.go:70-77,
\* config/healthmetrics.go:62-64).
OneOwner ==
  phase = "serving" =>
    /\ \A r \in mount.routes : r.path \in served => r.disabled
    /\ \A i, j \in DOMAIN meters : meters[i] = meters[j] => i = j
    /\ \A i \in 1..Len(mount.backends) :
         mount.backends[i] # "nil" => \E j \in DOMAIN meters : meters[j] = mount.backends[i]

\* In what a scrape exports, the states of a subject sum to one, and the process
\* passes a probe just when every contributor of that export does
\* (config/healthmetrics.go:117-176).
SeriesAgree ==
  \A p \in DOMAIN series :
    /\ \A s \in DOMAIN series[p] : series[p][s].passing + series[p][s].failing = 1
    /\ series[p]["whole"].passing = 1 <=> \A c \in Of(p) : series[p][c].passing = 1
=============================================================================
