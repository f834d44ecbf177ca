----------------------------- MODULE MCPlatform -----------------------------
(***************************************************************************)
(* One run over the clients, the servers, the build of a configuration,    *)
(* health, and the languages and formats a configuration uses: the units   *)
(* of PlatformUnits, and those that are only model-checked.                *)
(***************************************************************************)
EXTENDS PlatformUnits

R == INSTANCE HttpClient WITH
       Callers <- {"r1"}, Nobody <- "nobody", Calls <- RetryCalls,
       Policies <- RetryPolicies, MaxTokens <- 3, MaxRevokes <- 1,
       MaxFails <- 3, client <- x1, cache <- x2, lock <- x3, live <- x4,
       made <- x5, revoked <- x6, call <- x7, again <- x8

T == INSTANCE HttpClient WITH
       Callers <- Slots, Nobody <- "nobody", Calls <- TokenCalls,
       Policies <- TokenPolicies, MaxTokens <- 3, MaxRevokes <- 1,
       MaxFails <- 3, client <- x1, cache <- x2, lock <- x3, live <- x4,
       made <- x5, revoked <- x6, call <- x7, again <- x8

N == INSTANCE Reconnect WITH
       Attrs <- Durations, Factors <- 0..3, Retries <- {-1, 0, 2},
       MaxInt <- 127, Second <- 10, MaxAttempts <- 6, block <- x1,
       arch <- x2, phase <- x3, schedule <- x4, attempt <- x5, wait <- x6,
       before <- x7, was <- x8

H == INSTANCE Health WITH
       Contributors <- {"broker"}, Live <- {}, Notifiers <- {},
       Readers <- Slots, Asked <- {"ready"}, Main <- "main",
       Nobody <- "nobody", Process <- "process", Concurrent <- TRUE,
       Flaky <- TRUE, CacheTTL <- 1, MaxNow <- 0, h <- x1, handle <- x2,
       tasks <- x3, up <- x4, now <- x5, told <- x6

P == INSTANCE Procedure WITH
       Procedures <- Procedures, MaxArgs <- 4, MaxItems <- 2, program <- x1,
       spec <- x2, phase <- x3, stmts <- x4, bound <- x5, frames <- x6,
       scopes <- x7, outcome <- x8

D == INSTANCE DeferredCheck WITH
       Registries <- Registries, Programs <- Programs,
       Features <- {{}, {"readfiles"}}, registry <- x1, program <- x2,
       features <- x3, phase <- x4, doc <- x5, reports <- x6, failed <- x7

V == INSTANCE WatchedValue WITH
       Callers <- Slots, Declarations <- WatchedBlocks, Arguments <- SetTo,
       Inputs <- Answers, MaxCalls <- 3, decl <- x1, phase <- x2,
       nullable <- x3, constraint <- x4, value <- x5, call <- x6,
       reason <- x7, calls <- x8, first <- x9, net <- x10

W == INSTANCE ProtoWire WITH
       DescriptorSets <- DescriptorSets, Blocks <- FormatBlocks,
       Cases <- Cases, EnumNumbers <- EnumNumbers, W32 <- 3, W64 <- 4,
       Second <- 2, types <- x1, block <- x2, phase <- x3, arch <- x4,
       formats <- x5, case <- x6, msg <- x7, vcl <- x8, again <- x9

Init ==
  \/ InitUnits
  \/ /\ unit = "retry" /\ R!Init
     /\ x9 = Idle /\ x10 = Idle /\ x11 = Idle /\ x12 = Idle /\ x13 = Idle
     /\ x14 = Idle /\ x15 = Idle
  \/ /\ unit = "token" /\ T!Init
     /\ x9 = Idle /\ x10 = Idle /\ x11 = Idle /\ x12 = Idle /\ x13 = Idle
     /\ x14 = Idle /\ x15 = Idle
  \/ /\ unit = "reconnect" /\ N!Init
     /\ x9 = Idle /\ x10 = Idle /\ x11 = Idle /\ x12 = Idle /\ x13 = Idle
     /\ x14 = Idle /\ x15 = Idle
  \/ /\ unit = "askers" /\ H!Init
     /\ x7 = Idle /\ x8 = Idle /\ x9 = Idle /\ x10 = Idle /\ x11 = Idle
     /\ x12 = Idle /\ x13 = Idle /\ x14 = Idle /\ x15 = Idle
  \/ /\ unit = "procedure" /\ P!Init
     /\ x9 = Idle /\ x10 = Idle /\ x11 = Idle /\ x12 = Idle /\ x13 = Idle
     /\ x14 = Idle /\ x15 = Idle
  \/ /\ unit = "deferred" /\ D!Init
     /\ x8 = Idle /\ x9 = Idle /\ x10 = Idle /\ x11 = Idle /\ x12 = Idle
     /\ x13 = Idle /\ x14 = Idle /\ x15 = Idle
  \/ /\ unit = "watched" /\ V!Init
     /\ x11 = Idle /\ x12 = Idle /\ x13 = Idle /\ x14 = Idle /\ x15 = Idle
  \/ /\ unit = "protobuf" /\ W!Init
     /\ x10 = Idle /\ x11 = Idle /\ x12 = Idle /\ x13 = Idle /\ x14 = Idle
     /\ x15 = Idle

Next ==
  \/ NextUnits
  \/ unit = "retry" /\ R!Next /\ UNCHANGED <<unit, x9, x10, x11, x12, x13, x14, x15>>
  \/ unit = "token" /\ T!Next /\ UNCHANGED <<unit, x9, x10, x11, x12, x13, x14, x15>>
  \/ unit = "reconnect" /\ N!Next /\ UNCHANGED <<unit, x9, x10, x11, x12, x13, x14, x15>>
  \/ unit = "askers" /\ H!Next /\ UNCHANGED <<unit, x7, x8, x9, x10, x11, x12, x13, x14, x15>>
  \/ unit = "procedure" /\ P!Next /\ UNCHANGED <<unit, x9, x10, x11, x12, x13, x14, x15>>
  \/ unit = "deferred" /\ D!Next /\ UNCHANGED <<unit, x8, x9, x10, x11, x12, x13, x14, x15>>
  \/ unit = "watched" /\ V!Next /\ UNCHANGED <<unit, x11, x12, x13, x14, x15>>
  \/ unit = "protobuf" /\ W!Next /\ UNCHANGED <<unit, x10, x11, x12, x13, x14, x15>>

\* One of two requests, calls or connections takes a step that is its own.
Advance(slot) ==
  \/ /\ unit = "retry" /\ slot = "r1" /\ R!Step("r1")
     /\ UNCHANGED <<unit, x9, x10, x11, x12, x13, x14, x15>>
  \/ unit = "token" /\ T!Step(slot) /\ UNCHANGED <<unit, x9, x10, x11, x12, x13, x14, x15>>
  \/ unit = "auth" /\ Service!Auth!Steps(slot) /\ UNCHANGED <<unit, x12, x13, x14, x15>>
  \/ unit = "server" /\ Service!Server!Handler(slot) /\ UNCHANGED <<unit, x13, x14, x15>>
  \/ unit = "build" /\ slot = "r1" /\ Platform!Build!Next /\ UNCHANGED <<unit, x11, x12, x13, x14, x15>>
  \/ unit = "askers" /\ H!Runs(slot) /\ UNCHANGED <<unit, x7, x8, x9, x10, x11, x12, x13, x14, x15>>
\* What they wait for: the resolution of the provider, the write of an event.
Awaited(slot) ==
  \/ /\ unit = "auth" /\ slot = "r1" /\ Service!Auth!AttemptEnds
     /\ UNCHANGED <<unit, x12, x13, x14, x15>>
  \/ unit = "server" /\ Service!Server!WriteReturns(slot) /\ UNCHANGED <<unit, x13, x14, x15>>

Spec == /\ Init /\ [][Next]_AllVars
        /\ \A slot \in Slots : WF_AllVars(Advance(slot)) /\ WF_AllVars(Awaited(slot))

\* What is counted, exported or converted is what was given.
CountsHonest ==
  /\ unit = "connector" => Service!Connector!Accounted
  /\ unit = "askers" => H!FlipsBalance
  /\ unit = "metrics" => Platform!Meter!ExportAgrees
  /\ unit = "bus" => Platform!Bus!CountsTrue /\ Platform!Bus!SkewInRange
  /\ unit = "editor" => Platform!Edit!EditsJustified
  /\ unit = "watched" => V!ToldAll /\ V!SaysWhy
  /\ unit = "protobuf" => W!NamesResolve /\ W!NumbersKept /\ W!RelayFaithful

\* Attempts and waits stay within their bounds, and nobody waits for what
\* nobody will do.
Bounded ==
  /\ unit = "retry" => R!TypeOK /\ R!SendsBounded /\ R!FailsFastForCause
  /\ unit = "token" =>
       /\ T!TypeOK /\ T!SendsBounded
       /\ T!NoSelfWait /\ T!FailsFastForCause
       /\ T!ReauthBounded
  /\ unit = "exchange" => Service!Exchange!BackoffSane
  /\ unit = "reconnect" => N!TypeOK /\ N!WaitsGrow /\ N!GivesUpAsAsked
  /\ unit = "client" => Service!Client!TypeOK
  /\ unit = "askers" => H!TypeOK /\ H!SingleFlight
  /\ unit = "procedure" => P!TypeOK
  /\ unit = "bus" => Platform!Bus!NoUndeliverableLoop
  /\ unit = "deferred" => D!TypeOK
  /\ unit = "watched" => V!TypeOK
  /\ unit = "protobuf" => W!TypeOK

\* A program does what its text says, and is refused only where it could not.
LanguageSound ==
  /\ unit = "procedure" =>
       /\ P!SignalsCaught /\ P!TerminatorsReturn
       /\ P!NoShadowing /\ P!ArgumentsLand
  /\ unit = "deferred" => D!NoFalseAlarm /\ D!NothingMissed
  /\ unit = "watched" => V!KeepsType

Underway(slot) ==
  \/ unit = "retry" /\ slot = "r1" /\ R!Underway(slot)
  \/ unit = "token" /\ T!Underway(slot)
  \/ unit = "auth" /\ Service!Auth!Underway(slot)
  \/ unit = "server" /\ Service!Server!Underway(slot)
  \/ unit = "build" /\ Platform!Build!Underway
  \/ unit = "askers" /\ ~H!Standing(slot, "idle")
\* Every call, request and readiness question is answered, every connection
\* that Shutdown saw is closed unless a write without a timeout hangs, and
\* every build comes to an end.  What two slots may do is the same, so that the
\* property is stated of one.
AnswersComeBack == []<>~Underway("r1")
=============================================================================
