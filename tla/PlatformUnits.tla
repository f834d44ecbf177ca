--------------------------- MODULE PlatformUnits ----------------------------
(***************************************************************************)
(* The components of MCPlatform that theorems are proved of: the clients,  *)
(* the servers, the build of a configuration, health, metrics, buses, git  *)
(* blocks and editors. A behaviour is that of one of them, `unit` says of  *)
(* which; the variables are lent to the component that runs, the rest stay *)
(* at Idle.                                                                *)
(***************************************************************************)
EXTENDS MCInputs, TLAPS

VARIABLES unit,
          x1, x2, x3, x4, x5, x6, x7, x8, x9, x10, x11, x12, x13, x14, x15

Idle == "-"  \* a variable no component has been lent

Service == INSTANCE ServiceProofs WITH
       MaxHops <- 4, Requests <- Slots, TTL <- 1, MaxTicks <- 3,
       MaxTries <- 2, QueueSize <- 1, MaxSenders <- 1,
       MaxReceivers <- 2, ClientKinds <- Transports, MaxInFlight <- 1,
       MaxFlips <- 2, ClientEvents <- 1, Dirs <- {"a", "b"},
       MaxCrashes <- 1, client <- x2, call <- x5, phase <- x1, url <- x4,
       headers <- x6, hops <- x7, request <- x8, status <- x9, result <- x3,
       cfg <- x2, done <- x4, refs <- x1, policy <- x5, oidc <- x6,
       failed <- x7, jwks <- x8, cache <- x3, revoked <- x9, since <- x10,
       req <- x11, http <- x1, slot <- x2, socket <- x3, async <- x4,
       queue <- x5, subs <- x6, tracked <- x7, once <- x8, closers <- x9,
       ws <- x10, snapshot <- x11, bounded <- x12, block <- x5, pc <- x4,
       left <- x3, open <- x6, connecting <- x7, wired <- x8, running <- x9,
       published <- x3, inflight <- x10, drained <- x11, reported <- x12,
       hooks <- x13, flips <- x5, event <- x14, temps <- x3, method <- x4,
       at <- x6, todo <- x7, disk <- x8, crashes <- x2

Platform == INSTANCE PlatformProofs WITH
       Plugins <- {"len"}, Contributors <- {"broker", "check"},
       Live <- {"check"}, Notifiers <- {"broker"}, Readers <- {"r1"},
       Asked <- {"ready", "live"}, Main <- "main", Nobody <- "nobody",
       Process <- "process", Concurrent <- FALSE, Flaky <- FALSE,
       CacheTTL <- 1, MaxNow <- 1, Readyables <- {"broker"},
       Lives <- {"wedge"}, ViewFlips <- 1, Callers <- Slots, MaxValue <- 1,
       MaxPolls <- 3, MaxSends <- 3, MaxBusDrops <- 1, Edits <- Slots,
       MaxCrashes <- 1, cfg <- x2, phase <- x1, loaded <- x4,
       functions <- x5, consts <- x6, left <- x3, sorted <- x7,
       processed <- x8, alive <- x9, errors <- x10, h <- x1, handle <- x3,
       tasks <- x4, up <- x2, now <- x5, told <- x6, mount <- x4,
       served <- x6, meters <- x7, cache <- x3, view <- x8, series <- x9,
       waiting <- x10, flips <- x5, names <- x7, done <- x4,
       published <- x3, started <- x8, val <- x9, exported <- x10,
       call <- x5, poll <- x11, fault <- x12, polls <- x13, built <- x3,
       handles <- x4, subscribed <- x5, hash <- x6, sent <- x7, busq <- x8,
       current <- x9, queues <- x10, working <- x11, ended <- x12,
       dropped <- x13, busDropped <- x14, undelivered <- x15, editor <- x1,
       pc <- x4, base <- x5, work <- x6, temp <- x7, file <- x8,
       backup <- x9, version <- x10, lock <- x11, result <- x3,
       crashes <- x2, lost <- x12

\* The blocks, calls and files are as the components take them to be.
ASSUME BlocksOK ==
  /\ Service!ExchangeOK /\ Service!ConnectorOK /\ Service!ClientOK /\ Service!AuthOK
  /\ Service!ServerOK /\ Platform!BuildOK /\ Platform!HealthOK /\ Platform!HealthSerial
  /\ Service!GitOK /\ Platform!MetricsOK /\ Platform!EditorOK /\ Platform!BusOK
  /\ Platform!ViewsOK

InitUnits ==
  \/ /\ unit = "exchange" /\ Service!Exchange!Init
     /\ x10 = Idle /\ x11 = Idle /\ x12 = Idle /\ x13 = Idle /\ x14 = Idle
     /\ x15 = Idle
  \/ /\ unit = "connector" /\ Service!Connector!Init
     /\ x2 = Idle /\ x6 = Idle /\ x7 = Idle /\ x8 = Idle /\ x9 = Idle
     /\ x10 = Idle /\ x11 = Idle /\ x12 = Idle /\ x13 = Idle /\ x14 = Idle
     /\ x15 = Idle
  \/ /\ unit = "client" /\ Service!Client!Init
     /\ x15 = Idle
  \/ /\ unit = "auth" /\ Service!Auth!Init
     /\ x12 = Idle /\ x13 = Idle /\ x14 = Idle /\ x15 = Idle
  \/ /\ unit = "server" /\ Service!Server!Init
     /\ x13 = Idle /\ x14 = Idle /\ x15 = Idle
  \/ /\ unit = "build" /\ Platform!Build!Init
     /\ x11 = Idle /\ x12 = Idle /\ x13 = Idle /\ x14 = Idle /\ x15 = Idle
  \/ /\ unit = "pushed" /\ Platform!Readiness!Init
     /\ x7 = Idle /\ x8 = Idle /\ x9 = Idle /\ x10 = Idle /\ x11 = Idle
     /\ x12 = Idle /\ x13 = Idle /\ x14 = Idle /\ x15 = Idle
  \/ /\ unit = "git" /\ Service!Git!Init
     /\ x9 = Idle /\ x10 = Idle /\ x11 = Idle /\ x12 = Idle /\ x13 = Idle
     /\ x14 = Idle /\ x15 = Idle
  \/ /\ unit = "metrics" /\ Platform!Meter!Init
     /\ x14 = Idle /\ x15 = Idle
  \/ /\ unit = "editor" /\ Platform!Edit!Init
     /\ x13 = Idle /\ x14 = Idle /\ x15 = Idle
  \/ /\ unit = "bus" /\ Platform!Bus!Init
  \/ /\ unit = "views" /\ Platform!Views!Init
     /\ x11 = Idle /\ x12 = Idle /\ x13 = Idle /\ x14 = Idle /\ x15 = Idle

NextUnits ==
  \/ unit = "exchange" /\ Service!Exchange!Next /\ UNCHANGED <<unit, x10, x11, x12, x13, x14, x15>>
  \/ /\ unit = "connector" /\ Service!Connector!Next
     /\ UNCHANGED <<unit, x2, x6, x7, x8, x9, x10, x11, x12, x13, x14, x15>>
  \/ unit = "client" /\ Service!Client!Next /\ UNCHANGED <<unit, x15>>
  \/ unit = "auth" /\ Service!Auth!Next /\ UNCHANGED <<unit, x12, x13, x14, x15>>
  \/ unit = "server" /\ Service!Server!Next /\ UNCHANGED <<unit, x13, x14, x15>>
  \/ unit = "build" /\ Platform!Build!Next /\ UNCHANGED <<unit, x11, x12, x13, x14, x15>>
  \/ /\ unit = "pushed" /\ Platform!Readiness!Next
     /\ UNCHANGED <<unit, x7, x8, x9, x10, x11, x12, x13, x14, x15>>
  \/ unit = "git" /\ Service!Git!Next /\ UNCHANGED <<unit, x9, x10, x11, x12, x13, x14, x15>>
  \/ unit = "metrics" /\ Platform!Meter!Next /\ UNCHANGED <<unit, x14, x15>>
  \/ unit = "editor" /\ Platform!Edit!Next /\ UNCHANGED <<unit, x13, x14, x15>>
  \/ unit = "bus" /\ Platform!Bus!Next /\ UNCHANGED unit
  \/ unit = "views" /\ Platform!Views!Next /\ UNCHANGED <<unit, x11, x12, x13, x14, x15>>

AllVars == <<unit, x1, x2, x3, x4, x5, x6, x7, x8, x9, x10, x11, x12, x13, x14, x15>>
Units == InitUnits /\ [][NextUnits]_AllVars

\* A component that was refused, stopped or killed leaves nothing behind that
\* runs, is registered, or lies on the disk.
NothingLeftOver ==
  /\ unit = "connector" => Service!Connector!RefusedUnlisted /\ Service!Connector!DiscardReleases
  /\ unit = "client" => Service!Client!NothingRunsAfter
  /\ unit = "server" => Service!Server!HandlerLeavesNothing /\ Service!Server!ShutdownTrue
  /\ unit = "build" => Platform!Build!RefusedLeavesNothing
  /\ unit = "git" => Service!Git!TempsRemoved
  /\ unit = "editor" => Platform!Edit!TempsRemoved

\* A request passes, and a credential is sent, only as it was configured.
RequestsVetted ==
  /\ unit = "auth" =>
       /\ Service!Auth!RouteGuarded /\ Service!Auth!AdmittedVerified
       /\ Service!Auth!RevocationLands
  /\ unit = "exchange" => Service!Exchange!AuthStaysHome /\ Service!Exchange!CallerWins
  /\ unit = "git" => Service!Git!CredentialUsed
  /\ unit = "views" => Platform!Views!TerseStaysTerse

\* Whatever order things are declared, taken or delivered in, a name means
\* the one thing it was given to, and what must come first has come first.
OrderKept ==
  /\ unit = "build" =>
       /\ Platform!Build!ReferencesFirst /\ Platform!Build!SortComplete
       /\ Platform!Build!NoSpuriousCircle /\ Platform!Build!PluginsStand
  /\ unit = "metrics" => Platform!Meter!NoneHidden
  /\ unit = "bus" => Platform!Bus!KeyOrder
  /\ unit = "views" => Platform!Views!OneOwner

\* What is fetched or edited is whole, and nothing of it is lost.
ContentKept ==
  /\ unit = "git" => Service!Git!FetchedWhole /\ Service!Git!PathsAgree
  /\ unit = "editor" =>
       /\ Platform!Edit!LockedNothingLost /\ Platform!Edit!WholeOrUntouched
       /\ Platform!Edit!BackupIsBase

\* What a client, a metric or a health check reports or acknowledges is what
\* happened to it.
ReportsTrue ==
  /\ unit = "client" =>
       /\ Service!Client!CountsHonest /\ Service!Client!CleanDrain
       /\ Service!Client!AckedMeansSent /\ Service!Client!ReportCurrent
  /\ unit = "metrics" => Platform!Meter!FailuresToldOnce
  /\ unit = "views" => Platform!Views!OneVerdict /\ Platform!Views!SeriesAgree

\* Every variable keeps its type, redirects and evaluations stay within their
\* bounds, and whoever waits for a key set waits for an attempt under way.
WithinBounds ==
  /\ unit = "exchange" => Service!Exchange!TypeOK /\ Service!Exchange!HopsBounded
  /\ unit = "connector" => Service!Connector!TypeOK
  /\ unit = "auth" => Service!Auth!TypeOK /\ Service!Auth!WaitersCovered
  /\ unit = "server" => Service!Server!TypeOK
  /\ unit = "build" => Platform!Build!TypeOK
  /\ unit = "pushed" => Platform!Readiness!TypeOK /\ Platform!Readiness!SingleFlight
  /\ unit = "git" => Service!Git!TypeOK
  /\ unit = "metrics" => Platform!Meter!TypeOK
  /\ unit = "editor" => Platform!Edit!TypeOK
  /\ unit = "bus" => Platform!Bus!TypeOK
  /\ unit = "views" => Platform!Views!TypeOK

VarsGit == <<x5, x1, x3, x4, x6, x7, x8, x2>>
VarsMeter == <<x2, x1, x7, x4, x3, x8, x9, x10, x5, x11, x12, x6, x13>>
VarsBus == <<x2, x1, x3, x4, x5, x6, x7, x8, x9, x10, x11, x12, x13, x14, x15>>
VarsReadiness == <<x1, x3, x4, x2, x5, x6>>

\* No step of a component undoes what another did: files of others, counters,
\* the pressure a queue shows, a pushed state and its date.
StepsAllowed ==
  /\ [][unit = "git" => Service!Git!ForeignKept]_VarsGit
  /\ [][unit = "metrics" => Platform!Meter!CountersRise]_VarsMeter
  /\ [][unit = "bus" => Platform!Bus!PressureSeen]_VarsBus
  /\ [][unit = "pushed" => Platform!Readiness!ServesPushed /\ Platform!Readiness!SinceStands]_VarsReadiness

-----------------------------------------------------------------------------
(* The properties, from the theorems of the components.                    *)

\* A behaviour is that of one component from beginning to end.
LEMMA ExchangeRuns == Units => ([](unit = "exchange") /\ Service!Exchange!Spec) \/ []~(unit = "exchange")
<1>1. InitUnits /\ unit = "exchange" => Service!Exchange!Init
  BY DEF InitUnits
<1>2. unit = "exchange" /\ [NextUnits]_AllVars => (unit = "exchange")' /\ [Service!Exchange!Next]_Service!Exchange!vars
  BY DEF NextUnits, AllVars, Service!Exchange!vars
<1>3. ~(unit = "exchange") /\ [NextUnits]_AllVars => ~(unit = "exchange")'
  BY DEF NextUnits, AllVars
<1> QED BY <1>1, <1>2, <1>3, PTL DEF Units, Service!Exchange!Spec
LEMMA ConnectorRuns == Units => ([](unit = "connector") /\ Service!Connector!Spec) \/ []~(unit = "connector")
<1>1. InitUnits /\ unit = "connector" => Service!Connector!Init
  BY DEF InitUnits
<1>2. unit = "connector" /\ [NextUnits]_AllVars => (unit = "connector")' /\ [Service!Connector!Next]_Service!Connector!vars
  BY DEF NextUnits, AllVars, Service!Connector!vars
<1>3. ~(unit = "connector") /\ [NextUnits]_AllVars => ~(unit = "connector")'
  BY DEF NextUnits, AllVars
<1> QED BY <1>1, <1>2, <1>3, PTL DEF Units, Service!Connector!Spec
LEMMA ClientRuns == Units => ([](unit = "client") /\ Service!Client!Spec) \/ []~(unit = "client")
<1>1. InitUnits /\ unit = "client" => Service!Client!Init
  BY DEF InitUnits
<1>2. unit = "client" /\ [NextUnits]_AllVars => (unit = "client")' /\ [Service!Client!Next]_Service!Client!vars
  BY DEF NextUnits, AllVars, Service!Client!vars
<1>3. ~(unit = "client") /\ [NextUnits]_AllVars => ~(unit = "client")'
  BY DEF NextUnits, AllVars
<1> QED BY <1>1, <1>2, <1>3, PTL DEF Units, Service!Client!Spec
LEMMA AuthRuns == Units => ([](unit = "auth") /\ Service!Auth!Spec) \/ []~(unit = "auth")
<1>1. InitUnits /\ unit = "auth" => Service!Auth!Init
  BY DEF InitUnits
<1>2. unit = "auth" /\ [NextUnits]_AllVars => (unit = "auth")' /\ [Service!Auth!Next]_Service!Auth!vars
  BY DEF NextUnits, AllVars, Service!Auth!vars
<1>3. ~(unit = "auth") /\ [NextUnits]_AllVars => ~(unit = "auth")'
  BY DEF NextUnits, AllVars
<1> QED BY <1>1, <1>2, <1>3, PTL DEF Units, Service!Auth!Spec
LEMMA ServerRuns == Units => ([](unit = "server") /\ Service!Server!Spec) \/ []~(unit = "server")
<1>1. InitUnits /\ unit = "server" => Service!Server!Init
  BY DEF InitUnits
<1>2. unit = "server" /\ [NextUnits]_AllVars => (unit = "server")' /\ [Service!Server!Next]_Service!Server!vars
  BY DEF NextUnits, AllVars, Service!Server!vars
<1>3. ~(unit = "server") /\ [NextUnits]_AllVars => ~(unit = "server")'
  BY DEF NextUnits, AllVars
<1> QED BY <1>1, <1>2, <1>3, PTL DEF Units, Service!Server!Spec
LEMMA BuildRuns == Units => ([](unit = "build") /\ Platform!Build!Spec) \/ []~(unit = "build")
<1>1. InitUnits /\ unit = "build" => Platform!Build!Init
  BY DEF InitUnits
<1>2. unit = "build" /\ [NextUnits]_AllVars => (unit = "build")' /\ [Platform!Build!Next]_Platform!Build!vars
  BY DEF NextUnits, AllVars, Platform!Build!vars
<1>3. ~(unit = "build") /\ [NextUnits]_AllVars => ~(unit = "build")'
  BY DEF NextUnits, AllVars
<1> QED BY <1>1, <1>2, <1>3, PTL DEF Units, Platform!Build!Spec
LEMMA ReadinessRuns == Units => ([](unit = "pushed") /\ Platform!Readiness!Spec) \/ []~(unit = "pushed")
<1>1. InitUnits /\ unit = "pushed" => Platform!Readiness!Init
  BY DEF InitUnits
<1>2. unit = "pushed" /\ [NextUnits]_AllVars => (unit = "pushed")' /\ [Platform!Readiness!Next]_Platform!Readiness!vars
  BY DEF NextUnits, AllVars, Platform!Readiness!vars
<1>3. ~(unit = "pushed") /\ [NextUnits]_AllVars => ~(unit = "pushed")'
  BY DEF NextUnits, AllVars
<1> QED BY <1>1, <1>2, <1>3, PTL DEF Units, Platform!Readiness!Spec
LEMMA GitRuns == Units => ([](unit = "git") /\ Service!Git!Spec) \/ []~(unit = "git")
<1>1. InitUnits /\ unit = "git" => Service!Git!Init
  BY DEF InitUnits
<1>2. unit = "git" /\ [NextUnits]_AllVars => (unit = "git")' /\ [Service!Git!Next]_Service!Git!vars
  BY DEF NextUnits, AllVars, Service!Git!vars
<1>3. ~(unit = "git") /\ [NextUnits]_AllVars => ~(unit = "git")'
  BY DEF NextUnits, AllVars
<1> QED BY <1>1, <1>2, <1>3, PTL DEF Units, Service!Git!Spec
LEMMA MeterRuns == Units => ([](unit = "metrics") /\ Platform!Meter!Spec) \/ []~(unit = "metrics")
<1>1. InitUnits /\ unit = "metrics" => Platform!Meter!Init
  BY DEF InitUnits
<1>2. unit = "metrics" /\ [NextUnits]_AllVars => (unit = "metrics")' /\ [Platform!Meter!Next]_Platform!Meter!vars
  BY DEF NextUnits, AllVars, Platform!Meter!vars
<1>3. ~(unit = "metrics") /\ [NextUnits]_AllVars => ~(unit = "metrics")'
  BY DEF NextUnits, AllVars
<1> QED BY <1>1, <1>2, <1>3, PTL DEF Units, Platform!Meter!Spec
LEMMA EditRuns == Units => ([](unit = "editor") /\ Platform!Edit!Spec) \/ []~(unit = "editor")
<1>1. InitUnits /\ unit = "editor" => Platform!Edit!Init
  BY DEF InitUnits
<1>2. unit = "editor" /\ [NextUnits]_AllVars => (unit = "editor")' /\ [Platform!Edit!Next]_Platform!Edit!vars
  BY DEF NextUnits, AllVars, Platform!Edit!vars
<1>3. ~(unit = "editor") /\ [NextUnits]_AllVars => ~(unit = "editor")'
  BY DEF NextUnits, AllVars
<1> QED BY <1>1, <1>2, <1>3, PTL DEF Units, Platform!Edit!Spec
LEMMA BusRuns == Units => ([](unit = "bus") /\ Platform!Bus!Spec) \/ []~(unit = "bus")
<1>1. InitUnits /\ unit = "bus" => Platform!Bus!Init
  BY DEF InitUnits
<1>2. unit = "bus" /\ [NextUnits]_AllVars => (unit = "bus")' /\ [Platform!Bus!Next]_Platform!Bus!vars
  BY DEF NextUnits, AllVars, Platform!Bus!vars
<1>3. ~(unit = "bus") /\ [NextUnits]_AllVars => ~(unit = "bus")'
  BY DEF NextUnits, AllVars
<1> QED BY <1>1, <1>2, <1>3, PTL DEF Units, Platform!Bus!Spec
LEMMA ViewsRuns == Units => ([](unit = "views") /\ Platform!Views!Spec) \/ []~(unit = "views")
<1>1. InitUnits /\ unit = "views" => Platform!Views!Init
  BY DEF InitUnits
<1>2. unit = "views" /\ [NextUnits]_AllVars => (unit = "views")' /\ [Platform!Views!Next]_Platform!Views!vars
  BY DEF NextUnits, AllVars, Platform!Views!vars
<1>3. ~(unit = "views") /\ [NextUnits]_AllVars => ~(unit = "views")'
  BY DEF NextUnits, AllVars
<1> QED BY <1>1, <1>2, <1>3, PTL DEF Units, Platform!Views!Spec

\* Whatever is refused, stopped or killed, and after however many steps,
\* nothing of it is left (discardFailed, Close, the deferred removals).
THEOREM NothingEverLeftOver == Units => []NothingLeftOver
<1>1. Units => [](unit = "connector" => Service!Connector!RefusedUnlisted /\ Service!Connector!DiscardReleases)
  BY ConnectorRuns, Service!ConnectorRefusedUnlisted, Service!ConnectorDiscardReleases, BlocksOK, PTL
<1>2. Units => [](unit = "client" => Service!Client!NothingRunsAfter)
  BY ClientRuns, Service!ClientNothingRunsAfter, BlocksOK, PTL
<1>3. Units => [](unit = "server" => Service!Server!HandlerLeavesNothing /\ Service!Server!ShutdownTrue)
  BY ServerRuns, Service!ServerHandlerLeavesNothing, Service!ServerShutdownTrue, BlocksOK, PTL
<1>4. Units => [](unit = "build" => Platform!Build!RefusedLeavesNothing)
  BY BuildRuns, Platform!BuildRefusedLeavesNothing, BlocksOK, PTL
<1>5. Units => [](unit = "git" => Service!Git!TempsRemoved)
  BY GitRuns, Service!GitTempsRemoved, BlocksOK, PTL
<1>6. Units => [](unit = "editor" => Platform!Edit!TempsRemoved)
  BY EditRuns, Platform!EditorTempsRemoved, BlocksOK, PTL
<1> QED BY <1>1, <1>2, <1>3, <1>4, <1>5, <1>6, PTL DEF NothingLeftOver

\* No behaviour of the middleware, of the client, of a clone or of a probe
\* lets a request pass, or a credential go, otherwise.
THEOREM RequestsAlwaysVetted == Units => []RequestsVetted
<1>1. Units => [](unit = "auth" => Service!Auth!RouteGuarded /\ Service!Auth!AdmittedVerified /\ Service!Auth!RevocationLands)
  BY AuthRuns, Service!AuthRouteGuarded, Service!AuthAdmittedVerified, Service!AuthRevocationLands, BlocksOK, PTL
<1>2. Units => [](unit = "exchange" => Service!Exchange!AuthStaysHome /\ Service!Exchange!CallerWins)
  BY ExchangeRuns, Service!ExchangeAuthStaysHome, Service!ExchangeCallerWins, BlocksOK, PTL
<1>3. Units => [](unit = "git" => Service!Git!CredentialUsed)
  BY GitRuns, Service!GitCredentialUsed, BlocksOK, PTL
<1>4. Units => [](unit = "views" => Platform!Views!TerseStaysTerse)
  BY ViewsRuns, Platform!ViewsTerseStaysTerse, BlocksOK, PTL
<1> QED BY <1>1, <1>2, <1>3, <1>4, PTL DEF RequestsVetted

\* The order of a build, of the metrics registered and of the messages of a
\* key holds in behaviours of every length.
THEOREM OrderAlwaysKept == Units => []OrderKept
<1>1. Units => [](unit = "build" => Platform!Build!ReferencesFirst /\ Platform!Build!SortComplete /\ Platform!Build!NoSpuriousCircle /\ Platform!Build!PluginsStand)
  BY BuildRuns, Platform!BuildReferencesFirst, Platform!BuildSortComplete, Platform!BuildNoSpuriousCircle, Platform!BuildPluginsStand, BlocksOK, PTL
<1>2. Units => [](unit = "metrics" => Platform!Meter!NoneHidden)
  BY MeterRuns, Platform!MetricsNoneHidden, BlocksOK, PTL
<1>3. Units => [](unit = "bus" => Platform!Bus!KeyOrder)
  BY BusRuns, Platform!BusKeyOrder, BlocksOK, PTL
<1>4. Units => [](unit = "views" => Platform!Views!OneOwner)
  BY ViewsRuns, Platform!ViewsOneOwner, BlocksOK, PTL
<1> QED BY <1>1, <1>2, <1>3, <1>4, PTL DEF OrderKept

\* Whatever crashes, and whoever edits at the same time, no file is half
\* written and no edit is lost.
THEOREM ContentAlwaysKept == Units => []ContentKept
<1>1. Units => [](unit = "git" => Service!Git!FetchedWhole /\ Service!Git!PathsAgree)
  BY GitRuns, Service!GitFetchesWhole, Service!GitPathsAgree, BlocksOK, PTL
<1>2. Units => [](unit = "editor" => Platform!Edit!LockedNothingLost /\ Platform!Edit!WholeOrUntouched /\ Platform!Edit!BackupIsBase)
  BY EditRuns, Platform!EditorLockedNothingLost, Platform!EditorWholeOrUntouched, Platform!EditorBackupIsBase, BlocksOK, PTL
<1> QED BY <1>1, <1>2, PTL DEF ContentKept

\* However connections flip and probes interleave, what is reported stays
\* what happened.
THEOREM ReportsAlwaysTrue == Units => []ReportsTrue
<1>1. Units => [](unit = "client" => Service!Client!CountsHonest /\ Service!Client!CleanDrain /\ Service!Client!AckedMeansSent /\ Service!Client!ReportCurrent)
  BY ClientRuns, Service!ClientCountsHonest, Service!ClientCleanDrain, Service!ClientAckedMeansSent, Service!ClientReportCurrent, BlocksOK, PTL
<1>2. Units => [](unit = "metrics" => Platform!Meter!FailuresToldOnce)
  BY MeterRuns, Platform!MetricsFailuresToldOnce, BlocksOK, PTL
<1>3. Units => [](unit = "views" => Platform!Views!OneVerdict /\ Platform!Views!SeriesAgree)
  BY ViewsRuns, Platform!ViewsOneVerdict, Platform!ViewsSeriesAgree, BlocksOK, PTL
<1> QED BY <1>1, <1>2, <1>3, PTL DEF ReportsTrue

\* The bounds and types hold in behaviours of every length.
THEOREM AlwaysWithinBounds == Units => []WithinBounds
<1>1. Units => [](unit = "exchange" => Service!Exchange!TypeOK /\ Service!Exchange!HopsBounded)
  BY ExchangeRuns, Service!ExchangeTypeCorrect, Service!ExchangeHopsBounded, BlocksOK, PTL
<1>2. Units => [](unit = "connector" => Service!Connector!TypeOK)
  BY ConnectorRuns, Service!ConnectorTypeCorrect, BlocksOK, PTL
<1>3. Units => [](unit = "auth" => Service!Auth!TypeOK /\ Service!Auth!WaitersCovered)
  BY AuthRuns, Service!AuthTypeCorrect, Service!AuthWaitersCovered, BlocksOK, PTL
<1>4. Units => [](unit = "server" => Service!Server!TypeOK)
  BY ServerRuns, Service!ServerTypeCorrect, BlocksOK, PTL
<1>5. Units => [](unit = "build" => Platform!Build!TypeOK)
  BY BuildRuns, Platform!BuildTypeCorrect, BlocksOK, PTL
<1>6. Units => [](unit = "pushed" => Platform!Readiness!TypeOK /\ Platform!Readiness!SingleFlight)
  BY ReadinessRuns, Platform!HealthTypeCorrect, Platform!HealthSingleFlight, BlocksOK, PTL
<1>7. Units => [](unit = "git" => Service!Git!TypeOK)
  BY GitRuns, Service!GitTypeCorrect, BlocksOK, PTL
<1>8. Units => [](unit = "metrics" => Platform!Meter!TypeOK)
  BY MeterRuns, Platform!MetricsTypeCorrect, BlocksOK, PTL
<1>9. Units => [](unit = "editor" => Platform!Edit!TypeOK)
  BY EditRuns, Platform!EditorTypeCorrect, BlocksOK, PTL
<1>10. Units => [](unit = "bus" => Platform!Bus!TypeOK)
  BY BusRuns, Platform!BusTypeCorrect, BlocksOK, PTL
<1>11. Units => [](unit = "views" => Platform!Views!TypeOK)
  BY ViewsRuns, Platform!ViewsTypeCorrect, BlocksOK, PTL
<1> QED BY <1>1, <1>2, <1>3, <1>4, <1>5, <1>6, <1>7, <1>8, <1>9, <1>10, <1>11, PTL DEF WithinBounds

\* No step of any behaviour writes a file of others, lets a counter fall,
\* hides a full queue, or serves an older state than was pushed.
THEOREM StepsAlwaysAllowed == Units => StepsAllowed
<1>1. Units => [][unit = "git" => Service!Git!ForeignKept]_Service!Git!vars
  BY GitRuns, Service!GitKeepsForeign, BlocksOK, PTL
<1>2. Units => [][unit = "metrics" => Platform!Meter!CountersRise]_Platform!Meter!vars
  BY MeterRuns, Platform!MetricsCountersRise, BlocksOK, PTL
<1>3. Units => [][unit = "bus" => Platform!Bus!PressureSeen]_Platform!Bus!vars
  BY BusRuns, Platform!BusPressureSeen, BlocksOK, PTL
<1>4. Units => [][unit = "pushed" => Platform!Readiness!ServesPushed /\ Platform!Readiness!SinceStands]_Platform!Readiness!vars
  BY ReadinessRuns, Platform!HealthServesPushed, Platform!HealthSinceStands, BlocksOK, PTL
<1> QED BY <1>1, <1>2, <1>3, <1>4, PTL DEF StepsAllowed, VarsGit, VarsMeter, VarsBus, VarsReadiness, Service!Git!vars, Platform!Meter!vars, Platform!Bus!vars, Platform!Readiness!vars
=============================================================================
