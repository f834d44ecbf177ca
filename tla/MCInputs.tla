------------------------------ MODULE MCInputs ------------------------------
(***************************************************************************)
(* The blocks, calls, files and messages on which MCPlatform runs its      *)
(* modules: for each, the few that lead to every branch and past every     *)
(* check.                                                                  *)
(***************************************************************************)
EXTENDS Integers, Sequences, TLC

Slots == {"r1", "r2"}  \* two requests, calls, connections or askers

(* The HTTP client: one caller against every retry option, two against     *)
(* one token, with an auth hook that calls the client itself.              *)
Request(r, i) == [retry |-> r, auth |-> "absent", header |-> "absent", idempotent |-> i]
Client(max, hook, nested, lifetime) ==
  [retry |-> [max |-> max, hook |-> hook, nonIdempotent |-> FALSE], headerAuth |-> FALSE,
   hasAuth |-> TRUE, nested |-> nested, maxLifetime |-> lifetime, maxFailures |-> 2]
RetryCalls == {Request(r, i) : r \in {"absent", "false", "object"}, i \in BOOLEAN}
                \cup {[Request("object", TRUE) EXCEPT !.auth = "value"], [Request("absent", TRUE) EXCEPT !.header = "null"]}
RetryPolicies == {Client(3, h, FALSE, FALSE) : h \in {"none", "delay"}}
TokenCalls == {Request("absent", TRUE)}
TokenPolicies == {Client(1, "none", TRUE, b) : b \in BOOLEAN}

(* Client and server blocks, and the clients that carry messages.          *)
Transports == {"kafka", "rabbitmq", "mqtt", "redis_stream", "redis_pubsub", "sqs_receiver"}
ConnectorKinds ==
  Transports \cup
  {"sqs_sender", "sns_sender", "redis", "redis_kv", "otlp", "sql", "vws", "openai", "aws", "http",
   "server http", "server metrics", "server mcp", "server vws", "server websocket"}

(* One exchange: the client's own headers, base URL and redirects against  *)
(* a call's.                                                               *)
Query(k, f) == [key |-> k, from |-> f]
Headers(a, c) == "Authorization" :> a @@ "Content-Type" :> c
ExchangeClients ==
  {[follow |-> f, max |-> 3, keepAuth |-> k, headers |-> h, base |-> {Query("k", "base"), Query("b", "base")}] :
     f \in BOOLEAN, k \in BOOLEAN, h \in {<< >>, Headers("client", "client")}}
Opts(f, m, q, e) == [follow_redirects |-> f, max_redirects |-> m, query |-> q, expected |-> e]
NoOpts == Opts("absent", "absent", "absent", "absent")
Verb(a, u, b, o, h, q) == [args |-> a, verb |-> "body", url |-> u, body |-> b, opts |-> o, headers |-> h, query |-> q]
ExchangeCalls ==
  {Verb(4, "relative", b, NoOpts, h, {Query("k", "url")}) :
     b \in {"none", "text", "bytes", "bad"}, h \in {<< >>, "Authorization" :> "call", Headers("none", "call")}}
  \cup {Verb(5, "absolute", "none", o, << >>, {}) :
          o \in {Opts("true", "absent", "set", "range"), Opts("false", "absent", "absent", "list"),
                 Opts("absent", "set", "absent", "list"), Opts("bad", "absent", "absent", "list")}}
  \cup {Verb(n, "null", "none", NoOpts, << >>, {}) : n \in {2, 3}}
Backoffs == [attempts : {5}, initial : {0, 1, 3}, maxDelay : {3, 10}, factor : {1, 2}]

(* Durations of a reconnect block.                                         *)
Written(f, v) == [form |-> f, value |-> v]
Durations == {Written("absent", 0), Written("number", 0), Written("number", 3), Written("number", 20), Written("go", 5),
              Written("go", 100), Written("iso", -1), Written("capsule", -2), Written("bool", 0)}

(* Authentication: every mechanism, names that are shared or disabled.     *)
Auth(n, k, d) == [name |-> n, kind |-> k, disabled |-> d]
AuthConfigs ==
  {[decls |-> <<Auth("corp", "oidc", FALSE), Auth("corp", "basic", TRUE), Auth("edge", "proxy", FALSE)>>, route |-> <<"edge", "corp", "anonymous">>],
   [decls |-> <<Auth("corp", "introspection", FALSE), Auth("corp", "basic", TRUE)>>, route |-> <<"corp">>],
   [decls |-> <<Auth("corp", "basic", FALSE), Auth("corp", "basic", FALSE)>>, route |-> <<"corp">>],
   [decls |-> <<Auth("corp", "basic", FALSE), Auth("edge", "custom", FALSE)>>, route |-> <<"corp", "edge">>],
   [decls |-> <<Auth("corp", "basic", TRUE), Auth("edge", "custom", FALSE)>>, route |-> <<"anonymous", "edge">>],
   [decls |-> <<Auth("corp", "basic", TRUE)>>, route |-> <<"corp">>]}
Carries(a, p) == [authz |-> a, proxy |-> p]
Carried == {Carries("none", "none"), Carries("none", "untrusted"), Carries("basic bad", "trusted")}
             \cup {Carries(a, "none") : a \in {"basic good", "bearer good", "bearer audience", "bearer bad"}}

(* Configurations: three blocks with every way to refer to one another,    *)
(* then functions, constants and early blocks.                             *)
NoFunctions == [s \in {"function", "editor", "procedure", "functy"} |-> << >>]
Declared(n, k, r, o) == [name |-> n, kind |-> k, refs |-> r, ordered |-> o, disabled |-> FALSE]
OfBlocks(bs) == [vinit |-> << >>, funcs |-> NoFunctions, consts |-> << >>, blocks |-> bs]
Early(t, d) == [type |-> t, label |-> "x", disabled |-> d]
BuildKinds == {"picks", "named", "metrics", "otlp"}
Configurations ==
  {OfBlocks(<<Declared(1, k1, r1, TRUE), Declared(2, k2, r2, TRUE), [Declared(3, "picks", r3, s # "loose") EXCEPT !.disabled = (s = "disabled")]>>) :
     k1 \in BuildKinds, k2 \in BuildKinds \ {"named"}, r1 \in SUBSET {2, 3}, r2 \in SUBSET {1, 3}, r3 \in SUBSET {1, 2}, s \in {"named", "loose", "disabled"}}
  \cup {[vinit |-> v, funcs |-> [NoFunctions EXCEPT !["function"] = f, !["editor"] = g], consts |-> [a |-> ca, b |-> cb], blocks |-> << >>] :
          v \in {<< >>, <<Early("git", FALSE), Early("plugin", TRUE), Early("plugin", FALSE)>>, <<Early("git", FALSE), Early("plugin", FALSE)>>},
          f \in {<< >>, <<"f", "f">>, <<"f">>}, g \in {<<"f">>, <<"len">>},
          ca \in SUBSET {"b", "env"}, cb \in SUBSET {"a", "nope"}}

(* Repositories: paths that leave the tree and return, every credential.   *)
Fetch(p, d, o) == [from |-> p, absolute |-> FALSE, into |-> d, overwrite |-> o]
Git(repo, rev, depth, age, has, auth, fs) ==
  [repo |-> repo, rev |-> rev, depth |-> depth, age |-> age, hasAuth |-> has, auth |-> auth, fetches |-> fs, disabled |-> FALSE]
Paths == {<< >>, <<"d">>, <<"f1">>, <<"..", "d">>, <<"d", "..", "..">>, <<"d", "..", "f1">>}
Tree == (<< >> :> {"f1", "f2"}) @@ (<<"d">> :> {"f2"}) @@ (<<"f1">> :> {"f1"})
GitBlocks ==
  {Git("https", {}, 1, 0, FALSE, {}, <<Fetch(p, "a", o), Fetch(<<"d">>, b, o)>>) : p \in Paths, o \in BOOLEAN, b \in {"a", "b"}}
  \cup {Git(r, {"commit"}, depth, 1, TRUE, a, <<Fetch(<< >>, "a", FALSE)>>) :
          r \in {"https", "ssh", "local"}, depth \in 0..1, a \in SUBSET {"token", "password", "private_key", "known_hosts", "insecure"}}
  \cup {[Git("https", {}, 1, 0, FALSE, {}, <<Fetch(<< >>, "a", TRUE)>>) EXCEPT !.disabled = TRUE],
        Git("scp", {"branch", "tag"}, 1, 0, TRUE, {}, << >>)}

(* Procedures: every chain and switch, alone, in a loop and in two, and    *)
(* parameters in every order.                                              *)
Item(k, n, b) == [kind |-> k, name |-> n, body |-> b]
Plain(k) == <<Item(k, "", << >>)>>
SetY == Item("set", "y", << >>)
Branches == {Plain(k) : k \in {"return", "break!", "continue"}} \cup {<<Item("set", "x", << >>)>>, << >>}
Chains ==
  {<<Item("if", "", a), Item("elif", "", Plain("return")), Item("else", "", b)>> : a \in Branches, b \in Branches}
  \cup {<<Item("switch", "", <<Item("case", "", a), Item("default", "", b)>>)>> : a \in {Plain("return"), <<SetY>>}, b \in Branches}
  \cup {<<Item("if", "", Plain(k) \o <<SetY>>)>> : k \in {"return", "break"}}
  \cup {<<Item("else", "", << >>)>>}
Bodies == Chains \cup {<<Item("while", "", b)>> : b \in Chains \cup {c \o <<SetY>> : c \in Chains}}
            \cup {<<SetY, Item("while", "", <<Item("range", "y", b)>>)>> : b \in Chains}
Param(n, r) == [name |-> n, required |-> r]
Spec3 == {[params |-> <<<<Param("a", TRUE), Param("y", FALSE)>>>>, variadic |-> "v"],
          [params |-> <<<<Param("a", FALSE)>>, <<Param("b", TRUE)>>>>, variadic |-> ""],
          [params |-> <<<<Param("a", FALSE), Param("b", TRUE)>>>>, variadic |-> ""]}
Procedures == {[body |-> b, spec |-> [params |-> << >>, variadic |-> ""]] : b \in Bodies}
                \cup {[body |-> <<SetY>>, spec |-> s] : s \in Spec3}

(* Metrics: names that differ only in punctuation, each kind, each way to  *)
(* be read, one backend and two.                                           *)
Metric(k, n) == [kind |-> k, name |-> n, ns |-> << >>, labels |-> FALSE, value |-> FALSE, interval |-> "unset", server |-> 0]
Dotted == <<"a", ".", "b", "_", "c">>
Scored == <<"a", "_", "b", ".", "c">>
MetricConfigs ==
  {[blocks |-> bs, backends |-> <<FALSE>>] :
     bs \in {<<[Metric("gauge", Dotted) EXCEPT !.labels = TRUE]>>, <<[Metric("counter", Dotted) EXCEPT !.labels = TRUE]>>,
             <<[Metric("counter", Scored) EXCEPT !.value = TRUE, !.ns = Dotted, !.interval = "set"]>>,
             <<[Metric("histogram", Scored) EXCEPT !.value = TRUE]>>,
             <<[Metric("gauge", Scored) EXCEPT !.value = TRUE, !.labels = TRUE]>>,
             <<[Metric("gauge", Scored) EXCEPT !.interval = "set"]>>}}
  \cup {[blocks |-> bs, backends |-> <<FALSE, TRUE>>] :
          bs \in {<<Metric("gauge", Dotted), Metric("gauge", Scored)>>, <<[Metric("gauge", Dotted) EXCEPT !.value = TRUE]>>}}
  \cup {[blocks |-> bs, backends |-> <<TRUE, TRUE>>] :
          bs \in {<<Metric("histogram", Scored), Metric("histogram", Scored)>>, <<Metric("histogram", Scored)>>,
                  <<[Metric("histogram", Scored) EXCEPT !.server = 2]>>}}
  \cup {[blocks |-> <<[Metric("summary", Dotted) EXCEPT !.server = 2]>>, backends |-> <<TRUE>>]}

(* Editors of a file of at most two lines.                                 *)
Rule(h, rep) == [hits |-> h, when |-> {"a", "b"}, max |-> 0, required |-> 0, replaces |-> TRUE, replace |-> rep, abort |-> {}, inc |-> FALSE]
Editor(rs) == [rules |-> rs, before |-> << >>, after |-> << >>, beforeInc |-> FALSE, afterInc |-> FALSE,
               backup |-> TRUE, create |-> FALSE, lock |-> TRUE, mode |-> "file", ok |-> TRUE]
Editors ==
  {Editor(<<[Rule({"a"}, <<"b">>) EXCEPT !.max = 1, !.required = 1], Rule({"a", "b"}, <<"a">>)>>),
   [Editor(<<[Rule({"b"}, << >>) EXCEPT !.inc = TRUE], [Rule({"a"}, <<"a", "a">>) EXCEPT !.replaces = FALSE, !.required = 2]>>)
      EXCEPT !.after = <<"b">>, !.afterInc = TRUE],
   [Editor(<<[Rule({"b"}, << >>) EXCEPT !.abort = {"b"}, !.when = {"b"}]>>) EXCEPT !.before = <<"b">>, !.create = TRUE],
   [Editor(<<Rule({"b"}, <<"a", "b">>)>>) EXCEPT !.lock = FALSE],
   [Editor(<< >>) EXCEPT !.ok = FALSE], [Editor(<< >>) EXCEPT !.mode = "string"]}
Files == {[there |-> FALSE, lines |-> << >>], [there |-> TRUE, lines |-> <<"a", "b">>], [there |-> TRUE, lines |-> <<"b">>]}

(* A bus with every partition key, and messages with and without the field *)
(* it names; the hashes that tell keys apart and those that do not.        *)
Bus == [ok |-> TRUE, queue |-> 2, undeliverable |-> TRUE, null |-> FALSE]
Sub(q, p, k) == [name |-> "s", disabled |-> FALSE, ok |-> TRUE, queue |-> q, partitions |-> p, key |-> k, topics |-> {"t", "u"}]
BusConfigs ==
  {[bus |-> Bus, subs |-> <<Sub(1, 2, k)>>] : k \in {"none", "field", "expr", "msg", "null"}}
  \cup {[bus |-> Bus, subs |-> <<[Sub(0, 1, "none") EXCEPT !.topics = {"u"}], [Sub(1, 1, "none") EXCEPT !.disabled = TRUE]>>],
        [bus |-> Bus, subs |-> <<Sub(0, 1, "none"), Sub(1, 1, "none")>>],
        [bus |-> Bus, subs |-> <<Sub(0, 2, "none")>>], [bus |-> [Bus EXCEPT !.ok = FALSE], subs |-> << >>]}
Message(t, f, p) == [topic |-> t, field |-> f, value |-> "null", payload |-> p]
Messages == {Message("t", "k", TRUE), Message("u", "k", FALSE), Message("u", "", TRUE)}
Hashes == {[k \in {"t", "u", "k", "null", "list", "", "$undeliverable"} |-> IF k \in X THEN 1 ELSE 2] :
             X \in {{""}, {"", "t"}, {"", "u", "list"}}}

(* Deferred expressions: every kind of name, right, misspelt and optional, *)
(* bare, in a call, under try and in a loop.                               *)
Meta(c, s) == [ctx |-> c, site |-> s]
Shape(f, o, open) == [fields |-> f, optional |-> o, open |-> open]
EventShape == "event" :> Shape({"msg", "topic"}, {"topic"}, FALSE)
DecodeShape == "decode" :> Shape({"raw"}, {}, TRUE)
Provider(d, f, c, fb, v) == [documented |-> d, free |-> f, curated |-> c, freeBelow |-> fb, value |-> v]
Registry ==
  [curated |-> TRUE, sample |-> {"action", "name", "disabled"}, also |-> {"extra"}, own |-> "action" :> Meta("event", << >>),
   nested |-> {"on_error"}, nestedOwn |-> "on_error" :> Meta("decode", <<"key">>), shared |-> "on_error" :> Meta("event", << >>),
   envelope |-> {"disabled", "readiness"}, readiness |-> TRUE, shapes |-> EventShape @@ DecodeShape,
   providers |-> "sys" :> Provider(TRUE, FALSE, {"pid"}, {"signals"}, "pid" :> {} @@ "host" :> {"name"} @@ "signals" :> {"HUP"})
              @@ "env" :> Provider(TRUE, TRUE, {}, {}, "HOME" :> {}) @@ "plug" :> Provider(FALSE, FALSE, {}, {}, "x" :> {}),
   functions |-> {"send", "try", "can"}, gated |-> "readfile" :> "readfiles"]
Registries ==
  {Registry, [Registry EXCEPT !.curated = FALSE], [Registry EXCEPT !.readiness = FALSE, !.shapes = EventShape],
   [Registry EXCEPT !.own = "action" :> Meta("event", <<"key">>)], [Registry EXCEPT !.nestedOwn = "on_error" :> Meta("decode", <<"raw">>)],
   [Registry EXCEPT !.nestedOwn = "gone" :> Meta("decode", << >>)]}
Ref(r, s) == [kind |-> "ref", name |-> r, steps |-> s, args |-> << >>]
Call(f, a) == [kind |-> "call", name |-> f, steps |-> << >>, args |-> a]
For(x, c, b) == [kind |-> "for", name |-> x, steps |-> << >>, args |-> <<c, b>>]
Refs == {Ref("ctx", s) : s \in {<<"msg">>, <<"topic">>, <<"key">>, << >>}} \cup {Ref("bus", <<"main">>), Ref("bus", <<"mian">>)}
          \cup {Ref("sys", s) : s \in {<<"host", "nme">>, <<"pdi">>, <<"signals", "USR">>}} \cup {Ref("env", <<"USER">>), Ref("env", <<"HOME">>)}
          \cup {Ref("table", <<"[]">>), Ref("x", <<"a">>), Ref("plug", <<"y">>)}
Exprs ==
  Refs \cup {Call("send", <<Ref("bus", <<n>>)>>) : n \in {"main", "mian"}} \cup {Call("sned", << >>), Call("readfile", << >>)}
  \cup {Call("send", <<Call("try", <<a, Call("nope", << >>)>>), b>>) : a \in {Ref("bus", <<"mian">>), Ref("ctx", <<"key">>)}, b \in Refs}
  \cup {Call("send", <<For("x", a, Ref("x", <<"a">>)), b>>) : a \in {Ref("x", <<"a">>), Ref("table", << >>)}, b \in {Ref("x", <<"a">>), Ref("bus", <<"main">>)}}
Program(d, a, nd, n) ==
  [disabled |-> d, attrs |-> a, nestedDisabled |-> nd, nested |-> n,
   vars |-> "bus" :> [object |-> TRUE, names |-> {"main"}] @@ "table" :> [object |-> FALSE, names |-> {}]]
Programs == {Program(d, "action" :> e, FALSE, << >>) : d \in BOOLEAN, e \in Exprs}
              \cup {Program(FALSE, << >>, d, "on_error" :> e) : d \in BOOLEAN, e \in Exprs \cup {Ref("ctx", <<"raw">>)}}

(* Protobuf: every kind of field with the values around its limits, of 3   *)
(* bits for 32 and 4 for 64, and the messages another program may send.    *)
Type(f, s) == [full |-> f, short |-> s, wkt |-> FALSE, entry |-> FALSE]
AnyType == [Type("google.Any", "Any") EXCEPT !.wkt = TRUE]
DescriptorSets == {{Type("Order", "Order"), Type("acme.Order", "Order"), Type("acme.Item", "Item"), AnyType,
                    [Type("acme.Order.Item", "Item") EXCEPT !.entry = TRUE]}, {AnyType}}
Format(n, m, r) == [message |-> n, mode |-> m, readable |-> r]
FormatBlocks == {Format("", "", TRUE), Format("acme.Order", "native", TRUE), Format("acme.None", "", TRUE), Format("", "yaml", TRUE), Format("", "", FALSE)}
EnumNumbers == <<0, 1, 1>>

Field(k, s, key, p, r) == [kind |-> k, shape |-> s, key |-> key, presence |-> p, required |-> r]
ScalarFields ==
  {Field(k, "single", "bool", p, FALSE) : k \in {"bool", "int32", "uint32", "int64", "uint64", "double", "string", "bytes", "enum"}, p \in BOOLEAN}
  \cup {Field("int32", "single", "bool", TRUE, TRUE)}
MessageFields == {Field(k, "single", "bool", TRUE, FALSE) : k \in {"message", "timestamp", "duration", "empty", "mask", "any", "wrapper"}}

Leaf(t, v) == [t |-> t, v |-> v, items |-> << >>]
Scalars == {Leaf("null", 0), Leaf("bool", 1), Leaf("string", 3), Leaf("string", 4), Leaf("bytes", 2), Leaf("time", -3),
            Leaf("duration", -5), Leaf("timetext", 5), Leaf("frac", 0)}
             \cup {Leaf("int", n) : n \in {-8, -5, 0, 3, 4, 7}} \cup {Leaf("uint", n) : n \in {0, 7, 8, 15}}
             \cup {Leaf("uint64", n) : n \in {3, 8, 15}} \cup {Leaf("float", n) : n \in {-20, -1, 2, 6, 9, 20}}
Pair(k, x) == [key |-> k, val |-> x]
Named(n) == [word |-> TRUE, n |-> n]
Digits(n) == [word |-> FALSE, n |-> n]
Object(es) == [t |-> "object", v |-> 0, items |-> es]
List(es) == [t |-> "list", v |-> 0, items |-> es]
Objects ==
  {Object(<< >>), Object(<<Pair(Named(7), Leaf("string", 1)), Pair(Named(1), Leaf("int", 2))>>),
   Object(<<Pair(Named(7), Leaf("string", 3)), Pair(Named(8), Leaf("bytes", 2))>>), Object(<<Pair(Named(7), Leaf("string", 3))>>),
   Object(<<Pair(Named(7), Leaf("string", 2)), Pair(Named(8), Leaf("time", 2))>>), Object(<<Pair(Named(7), Leaf("int", 2))>>),
   List(<<Pair(Named(0), Leaf("string", 1)), Pair(Named(0), Leaf("string", 2))>>), List(<<Pair(Named(0), Leaf("int", 1))>>)}
  \cup {Object(<<Pair(Named(n), Leaf("int", v))>>) : n \in {1, 2}, v \in {2, 7}}

Content(v) == [v |-> v, items |-> << >>]
Holding(v, es) == [v |-> v, items |-> es]
Parts(s, n) == Holding(0, <<Pair(1, Content(s)), Pair(2, Content(n))>>)
Contents(kind) ==
  CASE kind = "bool" -> {Content(n) : n \in {0, 1}}
    [] kind \in {"int32", "wrapper"} -> {Content(n) : n \in {-4, 0, 3}}
    [] kind \in {"int64", "double"} -> {Content(n) : n \in {-8, 0, 7}}
    [] kind \in {"uint32", "uint64"} -> {Content(n) : n \in {0, 7} \cup (IF kind = "uint64" THEN {15} ELSE {})}
    [] kind = "enum" -> {Content(n) : n \in {0, 1, 3, -2}}
    [] kind \in {"string", "bytes"} -> {Content(n) : n \in {0, 2}}
    [] kind = "message" -> {Content(0), Holding(0, <<Pair(1, Content(2))>>)}
    [] kind = "timestamp" -> {Parts(s, n) : s \in {-2, 0, 7}, n \in {0, 1, 3}}
    [] kind = "duration" -> {Parts(s, n) : s \in {-3, 0, 3, 7}, n \in {-1, 0, 1}}
    [] kind = "empty" -> {Content(0)}
    [] kind = "mask" -> {Content(0), Holding(0, <<Pair(0, Content(1)), Pair(0, Content(2))>>)}
    [] kind = "any" -> {Holding(t, <<Pair(0, IF t = 2 THEN Parts(1, 0) ELSE Content(0))>>) : t \in 1..3}
Unset == [has |-> FALSE, pv |-> Content(0)]
Wires(f) == {[has |-> f.presence \/ c # Content(0), pv |-> c] : c \in Contents(f.kind)} \cup (IF f.presence THEN {Unset} ELSE {})
SentOrRead(f, natives) ==
  {[fd |-> f, native |-> x, wire |-> Unset] : x \in natives} \cup {[fd |-> f, native |-> Leaf("null", 0), wire |-> w] : w \in Wires(f)}
Keys(k) == CASE k = "bool" -> <<0, 1>> [] k = "uint32" -> <<0, 7>> [] k = "uint64" -> <<1, 15>> [] k = "string" -> <<2, 3>> [] OTHER -> <<-4, 3>>
Repeated ==
  {[fd |-> Field(k, "list", "bool", FALSE, FALSE), native |-> x, wire |-> [has |-> c # Content(0), pv |-> c]] :
     k \in {"int32", "message"}, c \in {Content(0), Holding(0, <<Pair(0, Content(0))>>)},
     x \in {List(<< >>), List(<<Pair(Named(0), Leaf("int", 2)), Pair(Named(0), Leaf("int", 3))>>), List(<<Pair(Named(0), Leaf("int", 5))>>), Leaf("int", 1)}}
Mapped ==
  {[fd |-> Field(v, "map", k, FALSE, FALSE), native |-> x,
    wire |-> [has |-> TRUE, pv |-> Holding(0, [i \in {1, 2} |-> Pair(Keys(k)[i], Content(0))])]] :
     v \in {"int32", "message"}, k \in {"bool", "string", "uint32", "uint64", "int32", "int64"},
     x \in {Object(<< >>), Object(<<Pair(Named(1), Leaf("int", 2)), Pair(Digits(1), Leaf("int", 3))>>), Object(<<Pair(Digits(9), Leaf("int", 2))>>)}}
Cases == UNION {SentOrRead(f, Scalars) : f \in ScalarFields} \cup UNION {SentOrRead(f, Scalars \cup Objects) : f \in MessageFields}
           \cup Repeated \cup Mapped

(* Watched values: variables and checks with every attribute that is       *)
(* looked at, and what set() and a check's input may give.                 *)
Variable(k, n, t, v) == [kind |-> k, duplicate |-> FALSE, namespaced |-> FALSE, nullable |-> n, type |-> t, value |-> v]
Zero == <<"number", 0>>
Off == <<"bool", 0>>
Nothing == <<"absent", 0>>
Failed == <<"error", 0>>
CheckBlock(r) == [kind |-> "check", duplicate |-> FALSE, disabled |-> FALSE, input |-> TRUE, probe |-> "ready", timeout |-> "ok", reason |-> r]
WatchedBlocks ==
  {Variable(k, "absent", t, v) : k \in {"var", "functy"}, t \in {"absent", "string"}, v \in {Nothing, Zero, Off, Failed}}
  \cup {Variable("var", n, t, v) : n \in {"false", "invalid"}, t \in {"absent", "number", "invalid"}, v \in {Nothing, Zero, Off}}
  \cup {[Variable(k, "absent", "absent", Zero) EXCEPT !.duplicate = TRUE] : k \in {"var", "functy"}}
  \cup {[Variable("functy", "absent", "absent", Zero) EXCEPT !.namespaced = TRUE]}
  \cup {CheckBlock(r) : r \in {"", "given"}}
  \cup {[CheckBlock("") EXCEPT !.disabled = TRUE], [CheckBlock("") EXCEPT !.input = FALSE], [CheckBlock("") EXCEPT !.probe = "invalid"],
        [CheckBlock("") EXCEPT !.timeout = "invalid"], [CheckBlock("") EXCEPT !.duplicate = TRUE]}
SetTo == {<<"null", 0>>, Zero, Off}
Answer(t, r, x) == [type |-> t, ready |-> r, text |-> x]
Answers == {Answer("bool", "true", ""), Answer("object", "false", ""), Answer("string", "none", "own"), Answer("string", "none", ""), Answer("null", "none", "")}

(* The views of health: listeners and servers, the latter with routes of   *)
(* its author, and what a request or a function call asks for.             *)
Route(p, m, d) == [path |-> p, method |-> m, disabled |-> d]
Listener(k, e, b, m) == [kind |-> k, endpoints |-> e, binds |-> b, backends |-> m,
  routes |-> IF k = "listener" THEN {} ELSE {Route("healthz", "GET", FALSE), Route("livez", "any", TRUE), Route("other", "any", FALSE)}]
Listeners == {Listener("listener", "on", b, <<"sdk">>) : b \in BOOLEAN}
  \cup {Listener("server", e, TRUE, <<"sdk", "nil", "sdk">>) : e \in {"off", "on", "verbose", "invalid"}}
Asking(f, v, h) == [format |-> f, accept |-> "any", verbose |-> v, head |-> h]
ProbeRequests == {Asking("none", "absent", FALSE), Asking("none", "true", FALSE), Asking("json", "", FALSE), Asking("json", "true", TRUE)}
Option(f, v) == [kind |-> "options", format |-> f, verbose |-> v]
ProbeOptions == {[kind |-> "none"], [kind |-> "request", request |-> Asking("none", "", FALSE)], Option("json", "true"), Option("bad", "absent")}
=============================================================================
