--------------------------- MODULE ServiceProofs ----------------------------
(***************************************************************************)
(* Proofs about what talks to the outside: the HTTP client, the            *)
(* authentication of requests, the servers, senders and receivers, the     *)
(* messaging clients and git blocks. Every component is an instance by     *)
(* the names of its variables, in a section of its own, and its theorems   *)
(* hold of every value of its constants that its "...OK" admits.           *)
(***************************************************************************)
EXTENDS Integers, Sequences, FiniteSets, FiniteSetTheorems, WellFoundedInduction, TLAPS

CONSTANTS ExchangeClients, ExchangeCalls, Backoffs, MaxHops, Requests,
  AuthConfigs, TTL, MaxTicks, Carried, MaxTries, Slots, QueueSize,
  ConnectorKinds, MaxSenders, MaxReceivers, ClientKinds,
  MaxInFlight, MaxFlips, ClientEvents, GitBlocks, Tree, Dirs, MaxCrashes

VARIABLES client, call, phase, url, headers, hops, request, status, result,
  cfg, done, refs, policy, oidc, failed, jwks, cache, revoked, since, req,
  http, slot, socket, async, queue, subs, tracked, once, closers, ws,
  snapshot, bounded, block, pc, left, open, connecting, wired, running,
  published, inflight, drained, reported, hooks, flips, event, temps,
  method, at, todo, disk, crashes

-----------------------------------------------------------------------------
(* Numbers and sequences.                                                  *)

\* A set of naturals that is not empty has a least element.
LEMMA LeastOf ==
  ASSUME NEW C, C \subseteq Nat, C # {}
  PROVE  \E m \in C : \A j \in C : m <= j
<1>1. PICK m \in C : \A t \in C : ~(<<t, m>> \in OpToRel(<, Nat))
  BY NatLessThanWellFounded, WFMin
<1>2. \A j \in C : m <= j
  <2> SUFFICES ASSUME NEW j \in C, ~(m <= j) PROVE FALSE  OBVIOUS
  <2>1. j < m /\ j \in Nat /\ m \in Nat  OBVIOUS
  <2>2. <<j, m>> \in OpToRel(<, Nat)  BY <2>1, Zenon DEF OpToRel
  <2> QED BY <1>1, <2>2
<1> QED BY <1>2

\* What a sequence is with one element more.
LEMMA OneMore ==
  ASSUME NEW S, NEW s \in Seq(S), NEW a
  PROVE  /\ Len(s) \in Nat /\ Len(s \o <<a>>) = Len(s) + 1 /\ (s \o <<a>>)[Len(s) + 1] = a
         /\ \A i \in 1..Len(s) : (s \o <<a>>)[i] = s[i]
<1>1. Len(s) \in Nat /\ Len(s \o <<a>>) = Len(s) + 1  OBVIOUS
<1>2. (s \o <<a>>)[Len(s) + 1] = a  OBVIOUS
<1>3. \A i \in 1..Len(s) : (s \o <<a>>)[i] = s[i]  OBVIOUS
<1> QED BY <1>1, <1>2, <1>3

\* What a sequence is with two elements more.
LEMMA TwoMore ==
  ASSUME NEW S, NEW s \in Seq(S), NEW a, NEW b
  PROVE  /\ Len(s) \in Nat /\ Len(s \o <<a, b>>) = Len(s) + 2
         /\ (s \o <<a, b>>)[Len(s) + 1] = a /\ (s \o <<a, b>>)[Len(s) + 2] = b
         /\ \A i \in 1..Len(s) : (s \o <<a, b>>)[i] = s[i]
<1>1. Len(s) \in Nat /\ Len(s \o <<a, b>>) = Len(s) + 2  OBVIOUS
<1>2. (s \o <<a, b>>)[Len(s) + 1] = a  OBVIOUS
<1>3. (s \o <<a, b>>)[Len(s) + 2] = b  OBVIOUS
<1>4. \A i \in 1..Len(s) : (s \o <<a, b>>)[i] = s[i]  OBVIOUS
<1> QED BY <1>1, <1>2, <1>3, <1>4

\* The last element of a queue stays the last, or leaves with the first.
LEMMA TailOf ==
  ASSUME NEW S, NEW q \in Seq(S), q # <<>>
  PROVE  /\ Tail(q) \in Seq(S) /\ Len(q) \in Nat /\ Len(Tail(q)) = Len(q) - 1 /\ Len(q) > 0
         /\ Len(q) = 1 => Tail(q) = <<>> /\ Head(q) = q[Len(q)]
         /\ Len(q) > 1 => Tail(q) # <<>> /\ Tail(q)[Len(Tail(q))] = q[Len(q)]
<1>1. Len(q) \in Nat /\ Len(q) > 0 /\ Tail(q) \in Seq(S) /\ Len(Tail(q)) = Len(q) - 1  OBVIOUS
<1>2. Head(q) = q[1] /\ \A i \in 1..(Len(q) - 1) : Tail(q)[i] = q[i + 1]  OBVIOUS
<1>3. \A t \in Seq(S) : Len(t) = 0 <=> t = <<>>  OBVIOUS
<1>4. ASSUME Len(q) = 1 PROVE Tail(q) = <<>> /\ Head(q) = q[Len(q)]
  <2>1. Len(Tail(q)) = 0  BY <1>1, <1>4
  <2> QED BY <2>1, <1>1, <1>2, <1>3, <1>4
<1>5. ASSUME Len(q) > 1 PROVE Tail(q) # <<>> /\ Tail(q)[Len(Tail(q))] = q[Len(q)]
  <2> DEFINE n == Len(q)
  <2>1. n \in Nat /\ n > 1 /\ Len(Tail(q)) = n - 1  BY <1>1, <1>5
  <2>2. Tail(q)[n - 1] = q[(n - 1) + 1]  BY <1>2, <2>1
  <2>3. (n - 1) + 1 = n /\ n - 1 # 0  BY <2>1
  <2>4. Tail(q)[Len(Tail(q))] = q[n]  BY <2>1, <2>2, <2>3
  <2>5. Tail(q) # <<>>  BY Zenon, <2>1, <2>3, <1>1, <1>3
  <2> QED BY <2>4, <2>5
<1> QED BY <1>1, <1>4, <1>5

\* Comparisons of naturals.
LEMMA Numbers ==
  \A k \in Nat : (k > 0 => k = 1 \/ k > 1) /\ k + 1 \in Nat \ {0} /\ \A i \in 1..((k + 1) - 1) : i \in 1..(k - 1) \/ i = k
OBVIOUS

\* An interval one longer.
LEMMA UpTo ==
  ASSUME NEW n \in Nat, NEW S, 0 \in S, \A i \in 0..(n - 1) : i \in S => i + 1 \in S
  PROVE  0..n \subseteq S
<1> DEFINE T == 0..n \ S
<1> SUFFICES ASSUME T # {} PROVE FALSE  OBVIOUS
<1>0. T \subseteq Nat /\ \A j \in T : j \in 0..n /\ j \notin S
  OBVIOUS
<1>t. \A j \in 0..n : j \in S \/ j \in T
  OBVIOUS
<1> HIDE DEF T
<1>1. PICK k \in T : \A j \in T : ~(<<j, k>> \in OpToRel(<, Nat))
  BY <1>0, NatLessThanWellFounded, WFMin
<1>2. k \in 1..n /\ k - 1 \in 0..(n - 1) /\ (k - 1) + 1 = k
  BY <1>0
<1>3. k - 1 \in T /\ k - 1 \in Nat /\ k \in Nat /\ k - 1 < k
  BY <1>0, <1>2, <1>t
<1>4. <<k - 1, k>> \in OpToRel(<, Nat)
  BY <1>3, Zenon DEF OpToRel
<1> QED BY <1>1, <1>3, <1>4

\* What the front of a path is.
LEMMA FrontOf ==
  ASSUME NEW S, NEW q \in Seq(S), NEW n \in Nat, Len(q) = n + 1
  PROVE  /\ SubSeq(q, 1, n) \in Seq(S) /\ Len(SubSeq(q, 1, n)) = n
         /\ \A i \in 1..n : SubSeq(q, 1, n)[i] = q[i]
<1>1. Len(SubSeq(q, 1, n)) = n  OBVIOUS
<1>2. SubSeq(q, 1, n) \in Seq(S)  OBVIOUS
<1>3. \A i \in 1..n : SubSeq(q, 1, n)[i] = q[i]  OBVIOUS
<1> QED BY <1>1, <1>2, <1>3

-----------------------------------------------------------------------------
(* HTTP exchanges.                                                         *)

Exchange == INSTANCE HttpExchange WITH
  Clients <- ExchangeClients, Calls <- ExchangeCalls, Policies <- Backoffs

\* Headers are ones the model follows; a query key says where it is from.
ExchangeOK ==
  /\ MaxHops \in Nat
  /\ \A c \in ExchangeClients : \A q \in c.base : q.from = "base"
  /\ \A c \in ExchangeClients : c.max \in Nat
  /\ \A k \in ExchangeCalls :
       DOMAIN k.headers \subseteq Exchange!Names /\ \A q \in k.query : q.from = "url"

ExchangeUrl ==
  \A q \in url : q.from = "base" => \A o \in call.query : o.key # q.key
ExchangeInv ==
  /\ client \in ExchangeClients /\ call \in ExchangeCalls
  /\ phase \in {"args", "url", "opts", "build", "sending", "answered", "ended"}
  /\ result \in {"none", "ok", "error"}
  /\ hops \in 0..MaxHops
  /\ ExchangeUrl
  /\ phase \in {"sending", "answered"} => headers = Exchange!BuildRequestHeaders(client, call)
  /\ phase \in {"args", "url", "opts", "build"} => hops = 0
  /\ Exchange!AuthStaysHome /\ Exchange!HopsBounded

LEMMA ExchangeStep == ExchangeOK /\ ExchangeInv /\ [Exchange!Next]_Exchange!vars => ExchangeInv'
<1> SUFFICES ASSUME ExchangeOK, ExchangeInv, [Exchange!Next]_Exchange!vars PROVE ExchangeInv'  OBVIOUS
<1> USE DEF Exchange!Fixed
<1>u. ASSUME UNCHANGED <<client, call, url>> PROVE ExchangeUrl'
  BY <1>u DEF ExchangeInv, ExchangeUrl
<1>h. ASSUME UNCHANGED <<client, call, hops>> PROVE Exchange!HopsBounded'
  BY <1>h DEF ExchangeInv, Exchange!HopsBounded, Exchange!Follow, Exchange!MaxRedirects
<1>a. ASSUME UNCHANGED <<client, request>> PROVE Exchange!AuthStaysHome'
  BY <1>a DEF ExchangeInv, Exchange!AuthStaysHome
<1>b. ASSUME UNCHANGED <<client, call, headers>>
      PROVE  headers = Exchange!BuildRequestHeaders(client, call) => (headers = Exchange!BuildRequestHeaders(client, call))'
  BY <1>b DEF Exchange!BuildRequestHeaders, Exchange!Layer, Exchange!Only, Exchange!Names
<1>1. CASE Exchange!ParseVerbArgs
  BY <1>1, <1>u, <1>h, <1>a, <1>b DEF Exchange!ParseVerbArgs, Exchange!Error, Exchange!Carry, ExchangeInv
<1>2. CASE Exchange!ResolveURL
  <2>1. UNCHANGED <<client, call, headers, hops, request>> /\ url' = Exchange!MergeBaseQuery(call.query)
    BY <1>2 DEF Exchange!ResolveURL
  <2>2. ExchangeUrl'
    BY <2>1 DEF ExchangeUrl, ExchangeInv, ExchangeOK, Exchange!MergeBaseQuery, Exchange!BaseQuery
  <2> QED BY <1>2, <2>1, <2>2, <1>h, <1>a DEF Exchange!ResolveURL, Exchange!Error, Exchange!Carry, ExchangeInv
<1>3. CASE Exchange!ParseOpts
  <2>1. UNCHANGED <<client, call, headers, hops, request>>
        /\ (url' = url \/ url' = url \cup {[key |-> "k", from |-> "opts"]})
    BY <1>3 DEF Exchange!ParseOpts
  <2>2. ExchangeUrl'
    BY <2>1 DEF ExchangeUrl, ExchangeInv
  <2> QED BY <1>3, <2>1, <2>2, <1>h, <1>a DEF Exchange!ParseOpts, Exchange!Error, Exchange!Carry, ExchangeInv
<1>4. CASE Exchange!Send
  <2>1. /\ UNCHANGED <<client, call, url, hops, result>> /\ phase' = "sending" /\ phase = "build"
        /\ headers' = Exchange!BuildRequestHeaders(client, call) /\ request'.home
    BY <1>4 DEF Exchange!Send, Exchange!Carry
  <2>2. headers' = Exchange!BuildRequestHeaders(client, call)'
    BY <2>1 DEF Exchange!BuildRequestHeaders, Exchange!Layer, Exchange!Only, Exchange!Names
  <2>3. Exchange!AuthStaysHome'
    BY <2>1 DEF Exchange!AuthStaysHome
  <2> QED BY <2>1, <2>2, <2>3, <1>u, <1>h DEF ExchangeInv
<1>5. ASSUME NEW home \in BOOLEAN, Exchange!Redirect(home) PROVE ExchangeInv'
  <2>1. UNCHANGED <<client, call, url, headers>> /\ phase = "sending" /\ hops < MaxHops
    BY <1>5 DEF Exchange!Redirect
  <2>2. CASE UNCHANGED <<hops, request>> /\ phase' \in {"answered", "ended"} /\ result' \in {result, "error"}
    BY <2>1, <2>2, <1>u, <1>h, <1>a, <1>b DEF ExchangeInv
  <2>3. CASE /\ Exchange!Follow /\ ~Exchange!TooMany /\ hops' = hops + 1 /\ phase' = "sending" /\ UNCHANGED result
             /\ request' = [home |-> home, auth |-> headers["Authorization"] # "none" /\ Exchange!KeepsAuth(home)]
    <3>1. Exchange!AuthStaysHome'
      BY <2>1, <2>3 DEF Exchange!AuthStaysHome, Exchange!KeepsAuth
    <3>2. Exchange!MaxRedirects \in Nat
      BY DEF Exchange!MaxRedirects, ExchangeOK, ExchangeInv
    <3>3. hops' \in 0..MaxHops
      BY <2>1, <2>3 DEF ExchangeInv, ExchangeOK
    <3>4. hops' < Exchange!MaxRedirects
      BY <2>3, <3>2 DEF Exchange!TooMany, ExchangeInv
    <3>5. Exchange!HopsBounded'
      BY <2>1, <2>3, <3>4 DEF Exchange!HopsBounded, Exchange!Follow, Exchange!MaxRedirects
    <3> QED BY <2>1, <2>3, <3>1, <3>3, <3>5, <1>u, <1>b DEF ExchangeInv
  <2> QED BY <1>5, <2>2, <2>3 DEF Exchange!Redirect, Exchange!Error, Exchange!Carry
<1>6. ASSUME NEW s \in Exchange!Statuses, Exchange!Respond(s) PROVE ExchangeInv'
  BY <1>6, <1>u, <1>h, <1>a, <1>b DEF Exchange!Respond, Exchange!Carry, ExchangeInv
<1>7. ASSUME NEW d \in BOOLEAN, Exchange!Finalize(d) PROVE ExchangeInv'
  BY <1>7, <1>u, <1>h, <1>a, <1>b DEF Exchange!Finalize, ExchangeInv
<1>8. CASE UNCHANGED Exchange!vars
  BY <1>8, <1>u, <1>h, <1>a, <1>b DEF Exchange!vars, ExchangeInv
<1> QED BY <1>1, <1>2, <1>3, <1>4, <1>5, <1>6, <1>7, <1>8 DEF Exchange!Next

LEMMA ExchangeInvariant == ExchangeOK => (Exchange!Spec => []ExchangeInv)
<1> SUFFICES ASSUME ExchangeOK PROVE Exchange!Spec => []ExchangeInv  OBVIOUS
<1>1. ExchangeInv /\ [Exchange!Next]_Exchange!vars => ExchangeInv'
  BY ExchangeStep
<1>2. Exchange!Init => ExchangeInv
  BY DEF Exchange!Init, ExchangeInv, ExchangeUrl, ExchangeOK, Exchange!AuthStaysHome, Exchange!HopsBounded
<1> QED BY <1>1, <1>2, PTL DEF Exchange!Spec

\* A credential does not leave its origin unless the client says so.
THEOREM ExchangeAuthStaysHome == ExchangeOK => (Exchange!Spec => []Exchange!AuthStaysHome)
<1> SUFFICES ASSUME ExchangeOK PROVE Exchange!Spec => []Exchange!AuthStaysHome  OBVIOUS
<1>i. Exchange!Spec => []ExchangeInv  BY ExchangeInvariant
<1>1. ExchangeInv => Exchange!AuthStaysHome  BY DEF ExchangeInv
<1> QED BY <1>1, <1>i, PTL

\* Redirects stay below the limit in force, for every limit (CheckRedirect).
THEOREM ExchangeHopsBounded == ExchangeOK => (Exchange!Spec => []Exchange!HopsBounded)
<1> SUFFICES ASSUME ExchangeOK PROVE Exchange!Spec => []Exchange!HopsBounded  OBVIOUS
<1>i. Exchange!Spec => []ExchangeInv  BY ExchangeInvariant
<1>1. ExchangeInv => Exchange!HopsBounded  BY DEF ExchangeInv
<1> QED BY <1>1, <1>i, PTL

LEMMA ExchangeTypeCorrect == ExchangeOK => (Exchange!Spec => []Exchange!TypeOK)
<1> SUFFICES ASSUME ExchangeOK PROVE Exchange!Spec => []Exchange!TypeOK  OBVIOUS
<1>i. Exchange!Spec => []ExchangeInv  BY ExchangeInvariant
<1>1. ExchangeInv => Exchange!TypeOK  BY DEF ExchangeInv, Exchange!TypeOK
<1> QED BY <1>1, <1>i, PTL

\* What the caller set or deleted is what is sent.
THEOREM ExchangeCallerWins == ExchangeOK => (Exchange!Spec => []Exchange!CallerWins)
<1> SUFFICES ASSUME ExchangeOK PROVE Exchange!Spec => []Exchange!CallerWins  OBVIOUS
<1>i. Exchange!Spec => []ExchangeInv  BY ExchangeInvariant
<1>1. ExchangeInv => Exchange!CallerWins
  <2> SUFFICES ASSUME ExchangeInv PROVE Exchange!CallerWins  OBVIOUS
  <2>1. ASSUME phase \in {"sending", "answered"}, NEW n \in DOMAIN call.headers PROVE headers[n] = call.headers[n]
    <3>1. n \in Exchange!Names  BY DEF ExchangeOK, ExchangeInv
    <3>2. headers = Exchange!BuildRequestHeaders(client, call)  BY <2>1 DEF ExchangeInv
    <3>3. \A hd : Exchange!Layer(hd, call.headers)[n] = call.headers[n]
      BY <2>1, <3>1 DEF Exchange!Layer
    <3> QED BY <3>2, <3>3 DEF Exchange!BuildRequestHeaders
  <2> QED BY <2>1 DEF ExchangeInv, ExchangeUrl, Exchange!CallerWins
<1> QED BY <1>1, <1>i, PTL

-----------------------------------------------------------------------------
(* Server authentication.                                                  *)

Auth == INSTANCE ServerAuth WITH
  Configs <- AuthConfigs

AuthKinds == {"basic", "oidc", "introspection", "proxy", "custom"}
\* The name anonymous is reserved, a route lists it or declared names, and a
\* declaration has one of the mechanisms.
AuthOK ==
  /\ TTL \in Nat /\ MaxTicks \in Nat /\ MaxTries \in Nat
  /\ \A c \in AuthConfigs :
       /\ DOMAIN c.decls \in {1..Len(c.decls)} /\ Len(c.decls) \in Nat
       /\ \A i \in DOMAIN c.decls :
            /\ c.decls[i].name # "anonymous" /\ c.decls[i].disabled \in BOOLEAN
            /\ c.decls[i].kind \in AuthKinds
       /\ DOMAIN c.route = 1..Len(c.route) /\ Len(c.route) \in Nat
       /\ \A i \in DOMAIN c.route :
            c.route[i] # "anonymous" => \E j \in DOMAIN c.decls : c.decls[j].name = c.route[i]

AuthOuts == {"pending", "admitted", "anonymous", "401", "403", "500", "503", "response"}
AuthAts == {"done", "resolve", "waiting", "parse", "cached", "ask", "store", "judge"}
AuthReqs ==
  [tries : 0..MaxTries, cred : Auth!Credentials, by : AuthKinds \cup {"none"}, stale : BOOLEAN,
   at : AuthAts, out : AuthOuts]
AuthTypes ==
  /\ cfg \in AuthConfigs /\ done \subseteq Auth!Decls
  /\ refs \in [Auth!Names -> AuthKinds \cup {"unbound", "disabled"}]
  /\ policy.state \in {"unresolved", "refused", "unbuilt", "serving"}
  /\ Auth!Serving => policy.mechanisms \in [Auth!Placed -> AuthKinds] /\ Auth!Placed \subseteq Nat
  /\ req \in [Requests -> AuthReqs \cup {Auth!Idle}]
  /\ ~Auth!Serving => req = [r \in Requests |-> Auth!Idle]
  /\ since \in 0..MaxTicks /\ revoked \in BOOLEAN
  /\ oidc \in [resolved : BOOLEAN, inflight : BOOLEAN, backoff : BOOLEAN, stopped : BOOLEAN]
  /\ cache.known \in BOOLEAN
  /\ cache.known => cache \in [known : {TRUE}, answer : AuthOuts \ {"anonymous"}, age : Nat]

\* Until the route is resolved a name is bound to what its one enabled
\* declaration is, once that has been processed; the last declaration of a
\* name is processed after the others.
AuthBound ==
  /\ policy.state = "unresolved" =>
       /\ \A i \in done : ~cfg.decls[i].disabled => refs[cfg.decls[i].name] = cfg.decls[i].kind
       /\ \A i \in done : i = Auth!LastOf(cfg.decls[i].name) =>
            \A j \in Auth!Decls : cfg.decls[j].name = cfg.decls[i].name => j \in done
  /\ Auth!RouteGuarded

\* Where a request is says who took it up.
AuthFirst(r) ==
  LET C == Auth!Claimants(req[r].cred) IN
  IF C = {} THEN req[r].by = "none" ELSE \E i \in C : req[r].by = policy.mechanisms[i] /\ \A j \in C : i <= j
AuthTook(r) ==
  req[r].at # "idle" =>
    /\ AuthFirst(r)
    /\ req[r].at \in {"resolve", "waiting", "parse"} => req[r].by = "oidc"
    /\ req[r].at \in {"cached", "ask", "store"} => req[r].by = "introspection"
    /\ req[r].at # "done" => req[r].by # "none" /\ req[r].out # "anonymous"
    /\ req[r].at \in {"done", "store"} /\ req[r].out = "admitted" => Auth!Good(req[r].by, req[r].cred)
    /\ req[r].out = "anonymous" => policy.anonymous /\ req[r].by = "none"
AuthTaken == \A r \in Requests : AuthTook(r)

\* What the cache serves was asked about before the token was dropped, or says
\* it was; an answer on its way that does not know is marked.
AuthDropped ==
  /\ ~revoked => since = 0
  /\ \A r \in Requests : req[r].at = "store" /\ revoked /\ ~req[r].stale => req[r].out # "admitted"
  /\ revoked /\ cache.known /\ cache.answer = "admitted" /\ cache.age <= TTL => since <= cache.age

AuthInv == AuthTypes /\ AuthBound /\ AuthTaken /\ AuthDropped /\ Auth!WaitersCovered

LEMMA AuthInit == AuthOK /\ Auth!Init => AuthInv
<1> SUFFICES ASSUME AuthOK, Auth!Init PROVE AuthInv  OBVIOUS
<1> USE DEF Auth!Init, Auth!Idle, Auth!Serving
<1>1. AuthTypes
  <2>1. refs \in [Auth!Names -> AuthKinds \cup {"unbound", "disabled"}]
    OBVIOUS
  <2>2. req \in [Requests -> AuthReqs \cup {Auth!Idle}] /\ req = [r \in Requests |-> Auth!Idle]
    OBVIOUS
  <2>3. oidc \in [resolved : BOOLEAN, inflight : BOOLEAN, backoff : BOOLEAN, stopped : BOOLEAN]
    OBVIOUS
  <2>4. cache.known = FALSE /\ policy.state = "unresolved" /\ since \in 0..MaxTicks
    BY DEF AuthOK
  <2> QED BY <2>1, <2>2, <2>3, <2>4 DEF AuthTypes
<1>2. AuthBound
  BY DEF AuthBound, Auth!RouteGuarded
<1>3. AuthTaken /\ AuthDropped /\ Auth!WaitersCovered
  BY DEF AuthTaken, AuthTook, AuthDropped, Auth!WaitersCovered, Auth!Waiters
<1> QED BY <1>1, <1>2, <1>3 DEF AuthInv

\* Of the declarations of a name there is a last one.
LEMMA AuthLast ==
  ASSUME AuthOK, AuthTypes, NEW i \in Auth!Decls
  PROVE  /\ Auth!LastOf(cfg.decls[i].name) \in Auth!Decls
         /\ cfg.decls[Auth!LastOf(cfg.decls[i].name)].name = cfg.decls[i].name
<1> DEFINE N == cfg.decls[i].name
           n == Len(cfg.decls)
           T == {n - j : j \in {k \in Auth!Decls : cfg.decls[k].name = N}}
<1>1. Auth!Decls = 1..n /\ n \in Nat
  BY DEF AuthOK, AuthTypes, Auth!Decls
<1>2. T \subseteq Nat /\ n - i \in T
  BY <1>1
<1>3. PICK m \in T : \A t \in T : ~(<<t, m>> \in OpToRel(<, Nat))
  <2> HIDE DEF T
  <2> QED BY <1>2, NatLessThanWellFounded, WFMin
<1>4. PICK k \in Auth!Decls : cfg.decls[k].name = N /\ m = n - k
  OBVIOUS
<1>5. \A j \in Auth!Decls : cfg.decls[j].name = N => j <= k
  <2> SUFFICES ASSUME NEW j \in Auth!Decls, cfg.decls[j].name = N, j > k PROVE FALSE
    BY <1>1
  <2>1. n - j \in T  OBVIOUS
  <2>2. n - j < n - k /\ n - j \in Nat /\ n - k \in Nat
    BY <1>1
  <2>3. <<n - j, n - k>> \in OpToRel(<, Nat)
    BY <2>2, Zenon DEF OpToRel
  <2> QED BY <1>3, <1>4, <2>1, <2>3
<1> QED BY <1>4, <1>5 DEF Auth!LastOf

LEMMA AuthFrame ==
  ASSUME AuthTypes, UNCHANGED <<cfg, done, refs, policy>>,
         ~Auth!Serving => req' = req,
         req' \in [Requests -> AuthReqs \cup {Auth!Idle}],
         since' \in 0..MaxTicks, revoked' \in BOOLEAN,
         oidc' \in [resolved : BOOLEAN, inflight : BOOLEAN, backoff : BOOLEAN, stopped : BOOLEAN],
         cache'.known \in BOOLEAN,
         cache'.known => cache' \in [known : {TRUE}, answer : AuthOuts \ {"anonymous"}, age : Nat]
  PROVE  AuthTypes'
<1>1. /\ cfg' \in AuthConfigs /\ done' \subseteq Auth!Decls'
      /\ (refs \in [Auth!Names -> AuthKinds \cup {"unbound", "disabled"}])'
      /\ policy'.state \in {"unresolved", "refused", "unbuilt", "serving"}
  BY DEF AuthTypes, Auth!Decls, Auth!Names
<1>2. Auth!Serving' = Auth!Serving /\ Auth!Placed' = Auth!Placed
  BY DEF Auth!Serving, Auth!Placed
<1>3. (Auth!Serving => policy.mechanisms \in [Auth!Placed -> AuthKinds] /\ Auth!Placed \subseteq Nat)'
  BY <1>2 DEF AuthTypes
<1>4. (~Auth!Serving => req = [r \in Requests |-> Auth!Idle])'
  BY <1>2 DEF AuthTypes, Auth!Idle
<1> QED BY <1>1, <1>3, <1>4 DEF AuthTypes, Auth!Idle

\* A set of positions has a first one.
LEMMA AuthFirstOf ==
  ASSUME NEW C, C \subseteq Nat, C # {}
  PROVE  Auth!First(C) \in C /\ \A j \in C : Auth!First(C) <= j
BY LeastOf DEF Auth!First

\* A request moves.
LEMMA AuthMove ==
  ASSUME AuthTypes, NEW r \in Requests, NEW place \in AuthAts, req[r].at \in AuthAts,
         NEW o \in AuthOuts
  PROVE  /\ Auth!To(r, place) =>
              /\ req' \in [Requests -> AuthReqs \cup {Auth!Idle}]
              /\ \A q \in Requests : req'[q] = IF q = r THEN [req[r] EXCEPT !.at = place] ELSE req[q]
         /\ Auth!Answers(r, o) =>
              /\ req' \in [Requests -> AuthReqs \cup {Auth!Idle}]
              /\ \A q \in Requests : req'[q] = IF q = r THEN [req[r] EXCEPT !.at = "done", !.out = o] ELSE req[q]
<1>1. req[r] \in AuthReqs
  BY DEF AuthTypes, Auth!Idle, AuthAts
<1>2. [req[r] EXCEPT !.at = place] \in AuthReqs /\ [req[r] EXCEPT !.at = "done", !.out = o] \in AuthReqs
  BY <1>1 DEF AuthReqs, AuthAts
<1>3. req \in [Requests -> AuthReqs \cup {Auth!Idle}]
  BY DEF AuthTypes
<1> HIDE DEF AuthReqs, AuthTypes
<1> QED BY <1>1, <1>2, <1>3 DEF Auth!To, Auth!Answers
LEMMA AuthTypesStep == AuthOK /\ AuthInv /\ [Auth!Next]_Auth!vars => AuthTypes'
<1> SUFFICES ASSUME AuthOK, AuthInv, [Auth!Next]_Auth!vars PROVE AuthTypes'  OBVIOUS
<1>t. AuthTypes  BY DEF AuthInv
<1> DEFINE Rest == /\ req' \in [Requests -> AuthReqs \cup {Auth!Idle}]
                   /\ since' \in 0..MaxTicks /\ revoked' \in BOOLEAN
                   /\ oidc' \in [resolved : BOOLEAN, inflight : BOOLEAN, backoff : BOOLEAN, stopped : BOOLEAN]
                   /\ cache'.known \in BOOLEAN
                   /\ cache'.known => cache' \in [known : {TRUE}, answer : AuthOuts \ {"anonymous"}, age : Nat]
<1>k. /\ UNCHANGED oidc => oidc' \in [resolved : BOOLEAN, inflight : BOOLEAN, backoff : BOOLEAN, stopped : BOOLEAN]
      /\ UNCHANGED since => since' \in 0..MaxTicks
      /\ UNCHANGED revoked => revoked' \in BOOLEAN
      /\ UNCHANGED req => req' \in [Requests -> AuthReqs \cup {Auth!Idle}]
      /\ UNCHANGED cache =>
           /\ cache'.known \in BOOLEAN
           /\ cache'.known => cache' \in [known : {TRUE}, answer : AuthOuts \ {"anonymous"}, age : Nat]
  BY <1>t DEF AuthTypes
<1>f. ASSUME UNCHANGED Auth!Config, Auth!Serving \/ UNCHANGED req, Rest PROVE AuthTypes'
  BY <1>f, <1>t, AuthFrame DEF Auth!Config
<1>1. CASE \E i \in Auth!Decls : Auth!Process(i)
  <2>1. PICK i \in Auth!Decls : Auth!Process(i)  BY <1>1
  <2>2. cfg.decls[i].name \in Auth!Names /\ cfg.decls[i].kind \in AuthKinds
    BY <1>t DEF AuthOK, AuthTypes, Auth!Decls, Auth!Names
  <2>3. ~Auth!Serving /\ ~Auth!Serving'
    BY <2>1 DEF Auth!Process, Auth!Serving
  <2>4. refs' \in [Auth!Names -> AuthKinds \cup {"unbound", "disabled"}] /\ policy'.state \in {"unresolved", "refused", "unbuilt"}
    BY <2>1, <2>2, <1>t DEF Auth!Process, AuthTypes
  <2>5. done' \subseteq Auth!Decls /\ UNCHANGED <<cfg, Auth!Runtime>>
    BY <2>1, <1>t DEF Auth!Process, AuthTypes
  <2>6. Auth!Decls' = Auth!Decls /\ Auth!Names' = Auth!Names
    BY <2>5 DEF Auth!Decls, Auth!Names
  <2> QED BY <1>t, <2>3, <2>4, <2>5, <2>6 DEF AuthTypes, Auth!Runtime, Auth!Idle
<1>2. CASE Auth!Resolve
  <2>1. UNCHANGED <<cfg, done, refs, Auth!Runtime>> /\ ~Auth!Serving
    BY <1>2 DEF Auth!Resolve, Auth!Serving
  <2>2. /\ policy'.state \in {"refused", "serving"}
        /\ policy'.state = "serving" => policy'.mechanisms = Auth!Mechanisms(cfg.route)
    BY <1>2 DEF Auth!Resolve
  <2>3. Auth!Mechanisms(cfg.route) \in [Auth!Bound(cfg.route) -> AuthKinds] /\ Auth!Bound(cfg.route) \subseteq Nat
    <3>1. \A i \in Auth!Bound(cfg.route) : refs[cfg.route[i]] \in AuthKinds /\ i \in Nat
      <4> SUFFICES ASSUME NEW i \in Auth!Bound(cfg.route) PROVE refs[cfg.route[i]] \in AuthKinds /\ i \in Nat  OBVIOUS
      <4>1. cfg.route[i] \in Auth!Names /\ i \in Nat /\ refs[cfg.route[i]] \notin {"disabled", "unbound"}
        BY <1>t DEF AuthTypes, AuthOK, Auth!Bound, Auth!Names, Auth!Decls
      <4> QED BY <4>1, <1>t DEF AuthTypes
    <3> QED BY <3>1 DEF Auth!Mechanisms
  <2>4. Auth!Serving' => policy'.mechanisms \in [Auth!Placed' -> AuthKinds] /\ Auth!Placed' \subseteq Nat
    BY <2>2, <2>3 DEF Auth!Serving, Auth!Placed
  <2>5. Auth!Decls' = Auth!Decls /\ Auth!Names' = Auth!Names
    BY <2>1 DEF Auth!Decls, Auth!Names
  <2> QED BY <1>t, <2>1, <2>2, <2>4, <2>5 DEF AuthTypes, Auth!Runtime, Auth!Idle
<1> HIDE DEF Rest
<1>q. \A r \in Requests : req[r].at \in {"done"} \cup AuthAts => req[r] \in AuthReqs
  BY <1>t DEF AuthTypes, Auth!Idle, AuthAts
<1>m. ASSUME NEW r \in Requests, NEW place \in AuthAts, req[r].at \in AuthAts, Auth!To(r, place)
      PROVE  req' \in [Requests -> AuthReqs \cup {Auth!Idle}]
  <2>1. "401" \in AuthOuts  BY DEF AuthOuts
  <2> QED BY <1>m, <1>t, <2>1, AuthMove
<1>a. ASSUME NEW r \in Requests, NEW o \in AuthOuts, req[r].at \in AuthAts, Auth!Answers(r, o)
      PROVE  req' \in [Requests -> AuthReqs \cup {Auth!Idle}]
  <2>1. "done" \in AuthAts  BY DEF AuthAts
  <2> QED BY <1>a, <1>t, <2>1, AuthMove
<1>3. ASSUME NEW r \in Requests, Auth!Arrive(r) PROVE AuthTypes'
  <2>1. Auth!Serving /\ UNCHANGED <<Auth!Config, oidc, failed, jwks, cache, revoked, since>>
    BY <1>3 DEF Auth!Arrive, Auth!At
  <2>2. PICK c \in Auth!Credentials, k \in AuthKinds \cup {"none"} : req' = [req EXCEPT ![r] = Auth!Begun(r, c, k)]
    <3>1. PICK c \in Auth!Credentials :
            LET k == IF Auth!Claimants(c) = {} THEN "none" ELSE policy.mechanisms[Auth!First(Auth!Claimants(c))] IN
            req' = [req EXCEPT ![r] = Auth!Begun(r, c, k)]
      BY <1>3 DEF Auth!Arrive
    <3>2. CASE Auth!Claimants(c) = {}
      BY <3>1, <3>2
    <3>3. CASE Auth!Claimants(c) # {}
      <4>1. Auth!First(Auth!Claimants(c)) \in Auth!Placed
        BY <3>3, <1>t, <2>1, AuthFirstOf DEF Auth!Claimants, AuthTypes
      <4>2. policy.mechanisms[Auth!First(Auth!Claimants(c))] \in AuthKinds
        BY <4>1, <1>t, <2>1 DEF AuthTypes
      <4> QED BY <3>1, <3>3, <4>2
    <3> QED BY <3>2, <3>3
  <2>3. Auth!Begun(r, c, k) \in AuthReqs
    <3>1. req[r].tries + 1 \in 0..MaxTries
      <4>1. req[r].tries \in 0..MaxTries
        BY <1>t DEF AuthTypes, AuthReqs, Auth!Idle, AuthOK
      <4> QED BY <4>1, <1>3 DEF Auth!Arrive, AuthOK
    <3> QED BY <3>1 DEF Auth!Begun, AuthReqs, AuthAts, AuthOuts
  <2>4. Rest
    BY <1>k, <1>t, <2>1, <2>2, <2>3 DEF Rest, AuthTypes
  <2> QED BY <1>f, <2>1, <2>4
<1>4. ASSUME NEW r \in Requests, Auth!Steps(r) \/ Auth!GiveUp(r) PROVE AuthTypes'
  <2>1. Auth!Serving /\ req[r].at \in AuthAts /\ UNCHANGED <<Auth!Config, revoked>>
    BY <1>4 DEF Auth!Steps, Auth!Judge, Auth!ResolveKeys, Auth!Parse, Auth!Lookup, Auth!Ask, Auth!Store, Auth!GiveUp, Auth!At, AuthAts
  <2>2. CASE Auth!Judge(r) \/ Auth!GiveUp(r) \/ Auth!Parse(r)
    <3>1. \E o \in AuthOuts : Auth!Answers(r, o)
      BY <2>2 DEF Auth!Judge, Auth!GiveUp, Auth!Parse, AuthOuts
    <3>2. UNCHANGED <<oidc, cache, since>>
      BY <2>2 DEF Auth!Judge, Auth!GiveUp, Auth!Parse
    <3> QED BY <1>a, <1>f, <1>k, <2>1, <3>1, <3>2 DEF Rest
  <2>3. CASE Auth!ResolveKeys(r)
    <3>1. Auth!To(r, "parse") \/ Auth!To(r, "waiting") \/ Auth!Answers(r, "503")
      BY <2>3 DEF Auth!ResolveKeys
    <3>2. req' \in [Requests -> AuthReqs \cup {Auth!Idle}]
      BY <1>a, <1>m, <2>1, <3>1 DEF AuthOuts, AuthAts
    <3>3. UNCHANGED <<cache, since>> /\ (UNCHANGED oidc \/ oidc' = [oidc EXCEPT !.inflight = TRUE])
      BY <2>3 DEF Auth!ResolveKeys
    <3>4. oidc' \in [resolved : BOOLEAN, inflight : BOOLEAN, backoff : BOOLEAN, stopped : BOOLEAN]
      BY <3>3, <1>t DEF AuthTypes
    <3> QED BY <1>f, <1>k, <2>1, <3>2, <3>3, <3>4 DEF Rest
  <2>4. CASE Auth!Lookup(r)
    <3>1. Auth!To(r, "ask") \/ \E o \in AuthOuts : Auth!Answers(r, o)
      BY <2>4, <1>t DEF Auth!Lookup, Auth!Fresh, AuthTypes
    <3>2. UNCHANGED <<oidc, cache, since>>
      BY <2>4 DEF Auth!Lookup
    <3>3. req' \in [Requests -> AuthReqs \cup {Auth!Idle}]
      BY <1>a, <1>m, <2>1, <3>1 DEF AuthAts
    <3> QED BY <1>f, <1>k, <2>1, <3>2, <3>3 DEF Rest
  <2>5. CASE Auth!Ask(r)
    <3>1. UNCHANGED <<oidc, cache, since>>
      BY <2>5 DEF Auth!Ask
    <3>2. CASE Auth!Answers(r, "500")
      BY <1>a, <1>f, <1>k, <2>1, <3>1, <3>2 DEF Rest, AuthOuts
    <3>3. CASE req' = [req EXCEPT ![r].at = "store", ![r].out = Auth!Verdict(req[r].cred, revoked), ![r].stale = FALSE]
      <4>1. req[r] \in AuthReqs  BY <1>q, <2>1
      <4> DEFINE new == [req[r] EXCEPT !.at = "store", !.out = Auth!Verdict(req[r].cred, revoked), !.stale = FALSE]
      <4>2. Auth!Verdict(req[r].cred, revoked) \in AuthOuts
        BY DEF Auth!Verdict, AuthOuts
      <4>3. new \in AuthReqs
        <5>1. "store" \in AuthAts  BY DEF AuthAts
        <5> QED BY <4>1, <4>2, <5>1 DEF AuthReqs
      <4>4. req' = [req EXCEPT ![r] = new]
        BY <3>3
      <4> HIDE DEF new
      <4>5. req' \in [Requests -> AuthReqs \cup {Auth!Idle}]
        BY <4>3, <4>4, <1>t DEF AuthTypes
      <4> QED BY <1>f, <1>k, <2>1, <3>1, <4>5 DEF Rest
    <3> QED BY <2>5, <3>2, <3>3 DEF Auth!Ask
  <2>6. CASE Auth!Store(r)
    <3>1. UNCHANGED oidc /\ Auth!To(r, "done")
      BY <2>6 DEF Auth!Store
    <3>2. since' \in 0..MaxTicks
      BY <2>6, <1>t DEF Auth!Store, AuthTypes, AuthOK
    <3>3. /\ cache'.known \in BOOLEAN
          /\ cache'.known => cache' \in [known : {TRUE}, answer : AuthOuts \ {"anonymous"}, age : Nat]
      <4>1. CASE cache' = cache  BY <4>1, <1>k
      <4>2. CASE cache' = Auth!Stored(req[r].out)
        <5>1. req[r].out \in AuthOuts \ {"anonymous"}
          BY <2>6, <1>q, <2>1 DEF AuthInv, AuthTaken, AuthTook, Auth!Store, Auth!At, AuthReqs
        <5> QED BY <4>2, <5>1 DEF Auth!Stored
      <4> QED BY <2>6, <4>1, <4>2 DEF Auth!Store
    <3>4. req' \in [Requests -> AuthReqs \cup {Auth!Idle}]
      BY <1>m, <2>1, <3>1 DEF AuthAts
    <3> QED BY <1>f, <1>k, <2>1, <3>1, <3>2, <3>3, <3>4 DEF Rest
  <2> QED BY <1>4, <2>2, <2>3, <2>4, <2>5, <2>6 DEF Auth!Steps
<1>5. CASE Auth!Start \/ Auth!BackoffPasses \/ Auth!Stop \/ Auth!Rotate
  <2>1. UNCHANGED <<Auth!Config, cache, revoked, since, req>>
    BY <1>5 DEF Auth!Start, Auth!BackoffPasses, Auth!Stop, Auth!Rotate
  <2>2. oidc' \in [resolved : BOOLEAN, inflight : BOOLEAN, backoff : BOOLEAN, stopped : BOOLEAN]
    BY <1>5, <1>t DEF Auth!Start, Auth!BackoffPasses, Auth!Stop, Auth!Rotate, AuthTypes
  <2> QED BY <1>f, <1>k, <2>1, <2>2 DEF Rest
<1>6. CASE Auth!AttemptEnds
  <2>1. UNCHANGED <<Auth!Config, cache, revoked, since>>
    BY <1>6 DEF Auth!AttemptEnds
  <2>2. oidc' \in [resolved : BOOLEAN, inflight : BOOLEAN, backoff : BOOLEAN, stopped : BOOLEAN]
    BY <1>6, <1>t DEF Auth!AttemptEnds, AuthTypes
  <2>3. \A r \in Auth!Released : [req[r] EXCEPT !.at = "resolve"] \in AuthReqs
    <3> SUFFICES ASSUME NEW r \in Auth!Released PROVE [req[r] EXCEPT !.at = "resolve"] \in AuthReqs  OBVIOUS
    <3>1. req[r] \in AuthReqs
      BY <1>q DEF Auth!Released, Auth!Waiters, AuthAts
    <3>2. "resolve" \in AuthAts  BY DEF AuthAts
    <3> QED BY <3>1, <3>2 DEF AuthReqs
  <2>4. req' = [r \in Requests |-> IF r \in Auth!Released THEN [req[r] EXCEPT !.at = "resolve"] ELSE req[r]]
    BY <1>6 DEF Auth!AttemptEnds
  <2>5. req' \in [Requests -> AuthReqs \cup {Auth!Idle}]
    BY <2>3, <2>4, <1>t DEF AuthTypes
  <2>6. Auth!Serving \/ UNCHANGED req
    BY <2>4, <1>t DEF AuthTypes, Auth!Released, Auth!Waiters, Auth!Idle
  <2> QED BY <1>f, <1>k, <2>1, <2>2, <2>5, <2>6 DEF Rest
<1>7. CASE Auth!Sweep
  <2>1. UNCHANGED <<Auth!Config, oidc, revoked, since, req>> /\ cache'.known = FALSE
    BY <1>7 DEF Auth!Sweep
  <2> QED BY <1>f, <1>k, <2>1 DEF Rest
<1>8. CASE Auth!Tick
  <2>1. UNCHANGED <<Auth!Config, oidc, revoked, req>> /\ cache' = Auth!Aged
    BY <1>8 DEF Auth!Tick
  <2>2. since' \in 0..MaxTicks
    BY <1>8, <1>t DEF Auth!Tick, AuthTypes, AuthOK
  <2>3. /\ cache'.known \in BOOLEAN
        /\ cache'.known => cache' \in [known : {TRUE}, answer : AuthOuts \ {"anonymous"}, age : Nat]
    <3>1. CASE cache' = cache  BY <3>1, <1>k
    <3>2. CASE cache.known /\ cache' = [cache EXCEPT !.age = @ + 1]
      <4>1. cache \in [known : {TRUE}, answer : AuthOuts \ {"anonymous"}, age : Nat]
        BY <3>2, <1>t DEF AuthTypes
      <4>2. PICK o \in AuthOuts \ {"anonymous"}, n \in Nat : cache = [known |-> TRUE, answer |-> o, age |-> n]
        BY <4>1
      <4>3. cache' = [known |-> TRUE, answer |-> o, age |-> n + 1]
        BY <3>2, <4>2
      <4> QED BY <4>3
    <3> QED BY <2>1, <3>1, <3>2 DEF Auth!Aged
  <2> QED BY <1>f, <1>k, <2>1, <2>2, <2>3 DEF Rest
<1>9. CASE Auth!Revoke
  <2>1. UNCHANGED <<Auth!Config, oidc, cache, since>> /\ revoked' = TRUE /\ Auth!Serving
    BY <1>9 DEF Auth!Revoke, Auth!Has
  <2>2. req' = [r \in Requests |-> IF req[r].at = "store" THEN [req[r] EXCEPT !.stale = TRUE] ELSE req[r]]
    BY <1>9 DEF Auth!Revoke
  <2>3. \A r \in Requests : req[r].at = "store" => [req[r] EXCEPT !.stale = TRUE] \in AuthReqs
    <3> SUFFICES ASSUME NEW r \in Requests, req[r].at = "store" PROVE [req[r] EXCEPT !.stale = TRUE] \in AuthReqs  OBVIOUS
    <3>1. req[r] \in AuthReqs  BY <1>q DEF AuthAts
    <3> QED BY <3>1 DEF AuthReqs
  <2>4. req' \in [Requests -> AuthReqs \cup {Auth!Idle}]
    BY <2>2, <2>3, <1>t DEF AuthTypes
  <2> QED BY <1>f, <1>k, <2>1, <2>4 DEF Rest
<1>10. CASE UNCHANGED Auth!vars
  BY <1>f, <1>k, <1>10 DEF Auth!vars, Auth!Config, Rest
<1> QED BY <1>1, <1>2, <1>3, <1>4, <1>5, <1>6, <1>7, <1>8, <1>9, <1>10 DEF Auth!Next

\* What the configuration is does not change as requests come.
LEMMA AuthConfigStands ==
  ASSUME [Auth!Next]_Auth!vars
  PROVE  \/ UNCHANGED <<cfg, done, refs, policy>>
         \/ (\E i \in Auth!Decls : Auth!Process(i))
         \/ Auth!Resolve
<1>1. ASSUME NEW r \in Requests, Auth!Arrive(r) \/ Auth!Steps(r) \/ Auth!GiveUp(r)
      PROVE  UNCHANGED <<cfg, done, refs, policy>>
  BY <1>1 DEF Auth!Arrive, Auth!Steps, Auth!Judge, Auth!ResolveKeys, Auth!Parse, Auth!Lookup, Auth!Ask, Auth!Store, Auth!GiveUp, Auth!Config
<1>2. CASE Auth!Start \/ Auth!AttemptEnds \/ Auth!BackoffPasses \/ Auth!Stop \/ Auth!Rotate \/ Auth!Sweep \/ Auth!Tick \/ Auth!Revoke
  BY <1>2 DEF Auth!Start, Auth!AttemptEnds, Auth!BackoffPasses, Auth!Stop, Auth!Rotate, Auth!Sweep, Auth!Tick, Auth!Revoke, Auth!Config
<1> QED BY <1>1, <1>2 DEF Auth!Next, Auth!vars

LEMMA AuthBoundStep == AuthOK /\ AuthInv /\ [Auth!Next]_Auth!vars => AuthBound'
<1> SUFFICES ASSUME AuthOK, AuthInv, [Auth!Next]_Auth!vars PROVE AuthBound'  OBVIOUS
<1>t. AuthTypes /\ AuthBound  BY DEF AuthInv
<1>1. CASE \E i \in Auth!Decls : Auth!Process(i)
  <2>1. PICK i \in Auth!Decls : Auth!Process(i)  BY <1>1
  <2>2. /\ policy.state = "unresolved" /\ UNCHANGED cfg /\ done' = done \cup {i}
        /\ policy'.state # "serving" /\ i \notin done /\ Auth!Ready(i)
    BY <2>1 DEF Auth!Process
  <2>3. ASSUME policy'.state = "unresolved", NEW j \in done', ~cfg.decls[j].disabled
        PROVE  refs'[cfg.decls[j].name] = cfg.decls[j].kind
    <3>1. /\ cfg.decls[i].name \in Auth!Names /\ cfg.decls[j].kind \in AuthKinds /\ j \in Auth!Decls
          /\ cfg.decls[i].disabled \in BOOLEAN
      BY <2>2, <1>t DEF AuthTypes, AuthOK, Auth!Names, Auth!Decls
    <3>2. CASE j = i
      BY <2>1, <2>3, <3>1, <3>2, <1>t DEF Auth!Process, AuthTypes
    <3>3. CASE j \in done
      <4>1. refs[cfg.decls[j].name] = cfg.decls[j].kind
        BY <2>2, <2>3, <3>3, <1>t DEF AuthBound
      <4>2. refs[cfg.decls[j].name] \notin {"unbound", "disabled"}
        BY <4>1, <3>1 DEF AuthKinds
      <4>3. CASE cfg.decls[j].name # cfg.decls[i].name
        <5>1. refs' = refs \/ \E v : refs' = [refs EXCEPT ![cfg.decls[i].name] = v]
          BY <2>1 DEF Auth!Process
        <5>2. refs \in [Auth!Names -> AuthKinds \cup {"unbound", "disabled"}] /\ cfg.decls[j].name \in Auth!Names
          BY <3>1, <1>t DEF AuthTypes, Auth!Names
        <5> QED BY <4>1, <4>3, <5>1, <5>2
      <4>4. CASE cfg.decls[j].name = cfg.decls[i].name
        BY <2>1, <2>3, <4>1, <4>2, <4>4 DEF Auth!Process
      <4> QED BY <4>3, <4>4
    <3> QED BY <2>2, <3>2, <3>3
  <2>4. ASSUME NEW j \in done', j = Auth!LastOf(cfg.decls[j].name),
               NEW k \in Auth!Decls, cfg.decls[k].name = cfg.decls[j].name
        PROVE  k \in done'
    BY <2>2, <2>4, <1>t DEF AuthBound, Auth!Ready
  <2>5. \A n : Auth!LastOf(n)' = Auth!LastOf(n)
    BY <2>2 DEF Auth!LastOf, Auth!Decls
  <2>6. ~Auth!Serving'  BY <2>2 DEF Auth!Serving
  <2>7. Auth!RouteGuarded'
    BY <2>6 DEF Auth!RouteGuarded
  <2>8. (policy.state = "unresolved" =>
          \A j \in done : ~cfg.decls[j].disabled => refs[cfg.decls[j].name] = cfg.decls[j].kind)'
    BY <2>2, <2>3
  <2>9. (\A j \in done : j = Auth!LastOf(cfg.decls[j].name) =>
            \A k \in Auth!Decls : cfg.decls[k].name = cfg.decls[j].name => k \in done)'
    BY <2>2, <2>4, <2>5 DEF Auth!Decls
  <2> QED BY <2>7, <2>8, <2>9 DEF AuthBound
<1>2. CASE Auth!Resolve
  <2>1. UNCHANGED <<cfg, done, refs>> /\ policy.state = "unresolved" /\ policy'.state # "unresolved"
    BY <1>2 DEF Auth!Resolve
  <2>2. SUFFICES ASSUME policy'.state = "serving" PROVE Auth!RouteGuarded'
    BY <2>1 DEF AuthBound, Auth!RouteGuarded, Auth!Serving
  <2>3. /\ policy'.mechanisms = Auth!Mechanisms(cfg.route) /\ policy'.anonymous = Auth!AllowAnonymous(cfg.route)
        /\ ~\E i \in DOMAIN cfg.route : cfg.route[i] = "anonymous" /\ i < Len(cfg.route)
    BY <1>2, <2>2 DEF Auth!Resolve
  <2>4. Auth!Placed' = Auth!Bound(cfg.route)
    BY <2>3 DEF Auth!Placed, Auth!Mechanisms
  <2>5. ASSUME NEW i \in Auth!Decls, NEW j \in DOMAIN cfg.route, ~cfg.decls[i].disabled, cfg.route[j] = cfg.decls[i].name
        PROVE  j \in Auth!Bound(cfg.route) /\ policy'.mechanisms[j] = cfg.decls[i].kind
    <3>1. cfg.route[j] # "anonymous" /\ cfg.decls[i].kind \in AuthKinds
      BY <2>5, <1>t DEF AuthTypes, AuthOK, Auth!Decls
    <3> DEFINE l == Auth!LastOf(cfg.route[j])
    <3>2. l \in done
      BY <1>2, <3>1 DEF Auth!Resolve
    <3>3. l \in Auth!Decls /\ cfg.decls[l].name = cfg.decls[i].name
      BY <2>5, <1>t, AuthLast
    <3>4. i \in done
      BY <2>1, <2>5, <3>2, <3>3, <1>t DEF AuthBound
    <3>5. refs[cfg.route[j]] = cfg.decls[i].kind
      BY <2>1, <2>5, <3>4, <1>t DEF AuthBound
    <3>6. j \in Auth!Bound(cfg.route)
      BY <3>1, <3>5 DEF Auth!Bound, AuthKinds
    <3> QED BY <2>3, <3>5, <3>6 DEF Auth!Mechanisms
  <2>6. ASSUME policy'.anonymous, Auth!Bound(cfg.route) # {} PROVE cfg.route[Len(cfg.route)] = "anonymous"
    <3>1. PICK i \in DOMAIN cfg.route : cfg.route[i] = "anonymous"
      BY <2>3, <2>6 DEF Auth!AllowAnonymous
    <3>2. DOMAIN cfg.route = 1..Len(cfg.route) /\ Len(cfg.route) \in Nat
      BY <1>t DEF AuthTypes, AuthOK
    <3>3. i = Len(cfg.route)
      BY <2>3, <3>1, <3>2
    <3> QED BY <3>1, <3>3
  <2> QED BY <2>1, <2>4, <2>5, <2>6 DEF Auth!RouteGuarded, Auth!Decls
<1>3. CASE UNCHANGED <<cfg, done, refs, policy>>
  BY <1>3, <1>t DEF AuthBound, Auth!RouteGuarded, Auth!Decls, Auth!LastOf, Auth!Placed, Auth!Serving
<1> QED BY <1>1, <1>2, <1>3, AuthConfigStands

LEMMA AuthTakenStep == AuthOK /\ AuthInv /\ [Auth!Next]_Auth!vars => AuthTaken'
<1> SUFFICES ASSUME AuthOK, AuthInv, [Auth!Next]_Auth!vars PROVE AuthTaken'  OBVIOUS
<1>t. AuthTypes /\ AuthTaken  BY DEF AuthInv
<1>c. ASSUME NEW r, UNCHANGED policy, AuthFirst(r), req'[r].cred = req[r].cred, req'[r].by = req[r].by
      PROVE  AuthFirst(r)'
  <2>1. Auth!Claimants(req[r].cred)' = Auth!Claimants(req[r].cred)
    BY <1>c DEF Auth!Claimants, Auth!Placed, Auth!Claims
  <2> QED BY <1>c, <2>1 DEF AuthFirst
<1>s. ASSUME NEW r, UNCHANGED policy, req'[r].at = "idle" \/ req'[r] = req[r], AuthTook(r) PROVE AuthTook(r)'
  <2>1. CASE req'[r].at = "idle"
    BY <2>1 DEF AuthTook
  <2>2. CASE req'[r] = req[r]
    <3>1. AuthFirst(r) => AuthFirst(r)'
      BY <1>c, <1>s, <2>2
    <3> QED BY <1>s, <2>2, <3>1 DEF AuthTook, Auth!Good
  <2> QED BY <1>s, <2>1, <2>2
<1>q. \A r \in Requests : req[r].at \in AuthAts => req[r] \in AuthReqs
  BY <1>t DEF AuthTypes, Auth!Idle, AuthAts
<1>1. CASE (\E i \in Auth!Decls : Auth!Process(i)) \/ Auth!Resolve
  <2>1. ~Auth!Serving /\ UNCHANGED req
    BY <1>1 DEF Auth!Process, Auth!Resolve, Auth!Serving, Auth!Runtime
  <2>2. \A r \in Requests : req'[r].at = "idle"
    BY <2>1, <1>t DEF AuthTypes, Auth!Idle
  <2> QED BY <2>2 DEF AuthTaken, AuthTook
<1>2. ASSUME NEW r \in Requests, Auth!Arrive(r) PROVE AuthTaken'
  <2>1. Auth!Serving /\ UNCHANGED policy
    BY <1>2 DEF Auth!Arrive, Auth!At, Auth!Config
  <2>2. PICK c \in Auth!Credentials :
          LET k == IF Auth!Claimants(c) = {} THEN "none" ELSE policy.mechanisms[Auth!First(Auth!Claimants(c))] IN
          req' = [req EXCEPT ![r] = Auth!Begun(r, c, k)]
    BY <1>2 DEF Auth!Arrive
  <2> DEFINE C == Auth!Claimants(c)
             k == IF C = {} THEN "none" ELSE policy.mechanisms[Auth!First(C)]
  <2>3. C \subseteq Nat /\ C \subseteq Auth!Placed
    BY <2>1, <1>t DEF AuthTypes, Auth!Claimants
  <2>4. C # {} => Auth!First(C) \in C /\ (\A j \in C : Auth!First(C) <= j) /\ policy.mechanisms[Auth!First(C)] \in AuthKinds
    <3> HIDE DEF C
    <3>1. C # {} => Auth!First(C) \in C /\ \A j \in C : Auth!First(C) <= j
      BY <2>3, AuthFirstOf
    <3> QED BY <2>1, <2>3, <3>1, <1>t DEF AuthTypes
  <2>5. /\ req'[r] = Auth!Begun(r, c, k)
        /\ \A q \in Requests : q # r => req'[q] = req[q]
    BY <2>2, <1>t DEF AuthTypes
  <2>6. req'[r].cred = c /\ req'[r].by = k
    BY <2>5 DEF Auth!Begun
  <2>7. AuthFirst(r)'
    <3>1. Auth!Claimants(req[r].cred)' = C
      BY <2>1, <2>6 DEF Auth!Claimants, Auth!Placed, Auth!Claims
    <3> QED BY <2>1, <2>4, <2>6, <3>1 DEF AuthFirst
  <2>8. k \in AuthKinds \cup {"none"}
    BY <2>4
  <2>9. AuthTook(r)'
    <3> HIDE DEF k, C
    <3>1. /\ req'[r].at = (CASE k = "none" -> "done" [] k = "oidc" -> "resolve"
                             [] k = "introspection" -> "cached" [] OTHER -> "judge")
          /\ req'[r].out = IF k # "none" THEN "pending" ELSE IF policy.anonymous THEN "anonymous" ELSE "401"
      BY <2>5 DEF Auth!Begun
    <3>2. CASE k = "none"
      BY <3>1, <3>2, <2>1, <2>6, <2>7 DEF AuthTook
    <3>3. CASE k # "none"
      <4>1. req'[r].out = "pending" /\ (k = "oidc" <=> req'[r].at = "resolve") /\ (k = "introspection" <=> req'[r].at = "cached")
            /\ req'[r].at \in {"resolve", "cached", "judge"}
        BY <3>1, <3>3
      <4> QED BY <4>1, <3>3, <2>6, <2>7 DEF AuthTook
    <3> QED BY <3>2, <3>3
  <2> QED BY <1>s, <1>t, <2>1, <2>5, <2>9 DEF AuthTaken
<1>3. ASSUME NEW r \in Requests, Auth!Steps(r) \/ Auth!GiveUp(r) PROVE AuthTaken'
  <2>1. Auth!Serving /\ req[r].at \in AuthAts /\ UNCHANGED policy
    BY <1>3 DEF Auth!Steps, Auth!Judge, Auth!ResolveKeys, Auth!Parse, Auth!Lookup, Auth!Ask, Auth!Store, Auth!GiveUp, Auth!At, AuthAts, Auth!Config
  <2>2. req[r] \in AuthReqs /\ AuthTook(r) /\ req[r].at # "idle"
    BY <2>1, <1>q, <1>t DEF AuthTaken, AuthAts
  <2>m. ASSUME NEW x, req' = [req EXCEPT ![r] = x], x.cred = req[r].cred, x.by = req[r].by,
               /\ x.at \in {"resolve", "waiting", "parse"} => x.by = "oidc"
               /\ x.at \in {"cached", "ask", "store"} => x.by = "introspection"
               /\ x.at # "done" => x.by # "none" /\ x.out # "anonymous"
               /\ x.at \in {"done", "store"} /\ x.out = "admitted" => Auth!Good(x.by, x.cred)
               /\ x.out = "anonymous" => policy.anonymous /\ x.by = "none"
        PROVE  AuthTaken'
    <3>1. req'[r] = x /\ \A q \in Requests : q # r => req'[q] = req[q]
      BY <2>m, <1>t DEF AuthTypes
    <3>2. AuthFirst(r)'
      BY <2>m, <2>1, <2>2, <3>1, <1>c DEF AuthTook
    <3>3. AuthTook(r)'
      BY <2>m, <2>1, <3>1, <3>2 DEF AuthTook, Auth!Good
    <3> QED BY <1>s, <1>t, <2>1, <3>1, <3>3 DEF AuthTaken
  <2>a. ASSUME NEW o, Auth!Answers(r, o), o # "anonymous", o = "admitted" => Auth!Good(req[r].by, req[r].cred)
        PROVE  AuthTaken'
    <3> DEFINE x == [req[r] EXCEPT !.at = "done", !.out = o]
    <3>1. x.cred = req[r].cred /\ x.by = req[r].by /\ x.at = "done" /\ x.out = o
      BY <2>2 DEF AuthReqs
    <3>2. req' = [req EXCEPT ![r] = x]
      BY <2>a DEF Auth!Answers
    <3> HIDE DEF x
    <3> QED BY <2>a, <2>m, <3>1, <3>2
  <2>p. ASSUME NEW place, Auth!To(r, place), req[r].at \notin {"done", "judge"},
               /\ place \in {"resolve", "waiting", "parse"} => req[r].by = "oidc"
               /\ place \in {"cached", "ask"} => req[r].by = "introspection"
               /\ place # "store"
               /\ place = "done" => req[r].at = "store"
        PROVE  AuthTaken'
    <3> DEFINE x == [req[r] EXCEPT !.at = place]
    <3>1. x.cred = req[r].cred /\ x.by = req[r].by /\ x.at = place /\ x.out = req[r].out
      BY <2>2 DEF AuthReqs
    <3>2. req' = [req EXCEPT ![r] = x]
      BY <2>p DEF Auth!To
    <3>3. /\ req[r].out # "anonymous" /\ req[r].by # "none"
          /\ req[r].at = "store" /\ req[r].out = "admitted" => Auth!Good(req[r].by, req[r].cred)
      BY <2>p, <2>2 DEF AuthTook
    <3> HIDE DEF x
    <3> QED BY <2>p, <2>m, <3>1, <3>2, <3>3
  <2>3. CASE Auth!Judge(r)
    BY <2>3, <2>a DEF Auth!Judge
  <2>4. CASE Auth!ResolveKeys(r)
    <3>1. req[r].by = "oidc" /\ req[r].at = "resolve"
      BY <2>4, <2>2 DEF Auth!ResolveKeys, AuthTook, Auth!At
    <3>2. Auth!To(r, "parse") \/ Auth!To(r, "waiting") \/ Auth!Answers(r, "503")
      BY <2>4 DEF Auth!ResolveKeys
    <3> QED BY <3>1, <3>2, <2>a, <2>p
  <2>5. CASE Auth!Parse(r)
    <3>1. req[r].by = "oidc"
      BY <2>5, <2>2 DEF Auth!Parse, AuthTook, Auth!At
    <3>2. \E o \in {"401", "500", "403"} : Auth!Answers(r, o)
          \/ (Auth!Answers(r, "admitted") /\ req[r].cred.authz = "bearer good")
      BY <2>5 DEF Auth!Parse
    <3>3. req[r].cred.authz = "bearer good" => Auth!Good(req[r].by, req[r].cred)
      BY <3>1 DEF Auth!Good
    <3> QED BY <3>2, <3>3, <2>a
  <2>6. CASE Auth!Lookup(r)
    <3>1. req[r].by = "introspection" /\ req[r].at = "cached"
      BY <2>6, <2>2 DEF Auth!Lookup, AuthTook, Auth!At
    <3>2. Auth!To(r, "ask") \/ (Auth!Answers(r, cache.answer) /\ Auth!OnToken(r) /\ Auth!Fresh)
      BY <2>6 DEF Auth!Lookup
    <3>3. Auth!Fresh => cache.answer # "anonymous"
      BY <1>t DEF AuthTypes, Auth!Fresh
    <3>4. Auth!OnToken(r) => Auth!Good(req[r].by, req[r].cred)
      BY <3>1 DEF Auth!Good, Auth!OnToken
    <3> QED BY <3>1, <3>2, <3>3, <3>4, <2>a, <2>p
  <2>7. CASE Auth!Ask(r)
    <3>1. req[r].by = "introspection"
      BY <2>7, <2>2 DEF Auth!Ask, AuthTook, Auth!At
    <3>2. CASE Auth!Answers(r, "500")
      BY <3>2, <2>a
    <3>3. CASE req' = [req EXCEPT ![r].at = "store", ![r].out = Auth!Verdict(req[r].cred, revoked), ![r].stale = FALSE]
      <4> DEFINE x == [req[r] EXCEPT !.at = "store", !.out = Auth!Verdict(req[r].cred, revoked), !.stale = FALSE]
      <4>1. x.cred = req[r].cred /\ x.by = req[r].by /\ x.at = "store" /\ x.out = Auth!Verdict(req[r].cred, revoked)
        BY <2>2 DEF AuthReqs
      <4>2. req' = [req EXCEPT ![r] = x]
        BY <3>3
      <4>3. /\ Auth!Verdict(req[r].cred, revoked) # "anonymous"
            /\ Auth!Verdict(req[r].cred, revoked) = "admitted" => Auth!Good(req[r].by, req[r].cred)
        BY <3>1 DEF Auth!Verdict, Auth!Good
      <4> HIDE DEF x
      <4> QED BY <3>1, <4>1, <4>2, <4>3, <2>m
    <3> QED BY <2>7, <3>2, <3>3 DEF Auth!Ask
  <2>8. CASE Auth!Store(r)
    BY <2>8, <2>2, <2>p DEF Auth!Store, Auth!At
  <2>9. CASE Auth!GiveUp(r)
    BY <2>9, <2>a DEF Auth!GiveUp
  <2> QED BY <1>3, <2>3, <2>4, <2>5, <2>6, <2>7, <2>8, <2>9 DEF Auth!Steps
<1>4. CASE Auth!AttemptEnds
  <2>1. UNCHANGED policy /\ \A r \in Requests : req'[r] = IF req[r].at = "waiting" THEN [req[r] EXCEPT !.at = "resolve"] ELSE req[r]
    BY <1>4 DEF Auth!AttemptEnds, Auth!Config, Auth!Released, Auth!Waiters
  <2> SUFFICES ASSUME NEW r \in Requests PROVE AuthTook(r)'  BY DEF AuthTaken
  <2>2. AuthTook(r)  BY <1>t DEF AuthTaken
  <2>3. CASE req[r].at = "waiting"
    <3>1. req[r] \in AuthReqs  BY <1>q, <2>3 DEF AuthAts
    <3>2. /\ req'[r].cred = req[r].cred /\ req'[r].by = req[r].by /\ req'[r].at = "resolve" /\ req'[r].out = req[r].out
      BY <2>1, <2>3, <3>1 DEF AuthReqs
    <3>3. AuthFirst(r)'
      BY <2>1, <2>2, <2>3, <3>2, <1>c DEF AuthTook
    <3> QED BY <2>1, <2>2, <2>3, <3>2, <3>3 DEF AuthTook
  <2> QED BY <1>s, <2>1, <2>2, <2>3
<1>5. CASE Auth!Revoke
  <2>1. UNCHANGED policy /\ \A r \in Requests : req'[r] = IF req[r].at = "store" THEN [req[r] EXCEPT !.stale = TRUE] ELSE req[r]
    BY <1>5 DEF Auth!Revoke, Auth!Config
  <2> SUFFICES ASSUME NEW r \in Requests PROVE AuthTook(r)'  BY DEF AuthTaken
  <2>2. AuthTook(r)  BY <1>t DEF AuthTaken
  <2>3. CASE req[r].at = "store"
    <3>1. req[r] \in AuthReqs  BY <1>q, <2>3 DEF AuthAts
    <3>2. /\ req'[r].cred = req[r].cred /\ req'[r].by = req[r].by /\ req'[r].at = "store" /\ req'[r].out = req[r].out
      BY <2>1, <2>3, <3>1 DEF AuthReqs
    <3>3. AuthFirst(r)'
      BY <2>1, <2>2, <2>3, <3>2, <1>c DEF AuthTook
    <3> QED BY <2>1, <2>2, <2>3, <3>2, <3>3 DEF AuthTook, Auth!Good
  <2> QED BY <1>s, <2>1, <2>2, <2>3
<1>6. CASE Auth!Start \/ Auth!BackoffPasses \/ Auth!Stop \/ Auth!Rotate \/ Auth!Sweep \/ Auth!Tick \/ UNCHANGED Auth!vars
  <2>1. UNCHANGED <<policy, req>>
    BY <1>6 DEF Auth!Start, Auth!BackoffPasses, Auth!Stop, Auth!Rotate, Auth!Sweep, Auth!Tick, Auth!vars, Auth!Config
  <2> QED BY <1>s, <1>t, <2>1 DEF AuthTaken
<1> QED BY <1>1, <1>2, <1>3, <1>4, <1>5, <1>6 DEF Auth!Next

LEMMA AuthDroppedStep == AuthOK /\ AuthInv /\ [Auth!Next]_Auth!vars => AuthDropped'
<1> SUFFICES ASSUME AuthOK, AuthInv, [Auth!Next]_Auth!vars PROVE AuthDropped'  OBVIOUS
<1>t. AuthTypes /\ AuthDropped /\ TTL \in Nat /\ MaxTicks \in Nat  BY DEF AuthInv, AuthOK
<1>q. \A r \in Requests : req[r].at \in AuthAts => req[r] \in AuthReqs
  BY <1>t DEF AuthTypes, Auth!Idle, AuthAts
<1> DEFINE Marked == \A r \in Requests : req[r].at = "store" /\ revoked /\ ~req[r].stale => req[r].out # "admitted"
<1>m. ASSUME UNCHANGED revoked,
             \A r \in Requests : req'[r].at = "store" =>
               req[r].at = "store" /\ (req'[r].stale <=> req[r].stale) /\ req'[r].out = req[r].out
      PROVE  Marked'
  BY <1>m, <1>t DEF AuthDropped
<1> HIDE DEF Marked
<1>u. ASSUME UNCHANGED <<revoked, since, cache>>, Marked' PROVE AuthDropped'
  BY <1>u, <1>t DEF AuthDropped, Marked
<1>a. ASSUME NEW r \in Requests, req[r].at \in AuthAts, UNCHANGED revoked,
             \/ \E o : Auth!Answers(r, o)
             \/ \E place : Auth!To(r, place) /\ place # "store"
      PROVE  Marked'
  <2>1. req[r] \in AuthReqs  BY <1>a, <1>q
  <2>2. req'[r].at # "store" /\ \A q \in Requests : q # r => req'[q] = req[q]
    BY <1>a, <2>1, <1>t DEF Auth!Answers, Auth!To, AuthReqs, AuthTypes
  <2> QED BY <1>a, <1>m, <2>2
<1>1. CASE (\E i \in Auth!Decls : Auth!Process(i)) \/ Auth!Resolve
  <2>1. UNCHANGED <<revoked, since, cache, req>>
    BY <1>1 DEF Auth!Process, Auth!Resolve, Auth!Runtime
  <2> QED BY <1>m, <1>u, <2>1
<1>2. ASSUME NEW r \in Requests, Auth!Arrive(r) PROVE AuthDropped'
  <2>1. UNCHANGED <<revoked, since, cache>>
    BY <1>2 DEF Auth!Arrive
  <2>2. PICK c, k : req' = [req EXCEPT ![r] = Auth!Begun(r, c, k)]
    BY <1>2 DEF Auth!Arrive
  <2>3. Auth!Begun(r, c, k).at # "store"
    <3>1. Auth!Begun(r, c, k).at = (CASE k = "none" -> "done" [] k = "oidc" -> "resolve"
                             [] k = "introspection" -> "cached" [] OTHER -> "judge")
      BY DEF Auth!Begun
    <3> QED BY <3>1
  <2>4. \A q \in Requests : req'[q] = IF q = r THEN Auth!Begun(r, c, k) ELSE req[q]
    BY <2>2, <1>t DEF AuthTypes
  <2> QED BY <1>m, <1>u, <2>1, <2>3, <2>4
<1>3. ASSUME NEW r \in Requests, Auth!Judge(r) \/ Auth!ResolveKeys(r) \/ Auth!Parse(r) \/ Auth!Lookup(r) \/ Auth!GiveUp(r)
      PROVE  AuthDropped'
  <2>1. UNCHANGED <<revoked, since, cache>> /\ req[r].at \in AuthAts
    BY <1>3 DEF Auth!Judge, Auth!ResolveKeys, Auth!Parse, Auth!Lookup, Auth!GiveUp, Auth!At, AuthAts
  <2>2. (\E o : Auth!Answers(r, o)) \/ \E place : Auth!To(r, place) /\ place # "store"
    <3>1. CASE Auth!Judge(r)  BY <3>1 DEF Auth!Judge
    <3>2. CASE Auth!Parse(r)  BY <3>2 DEF Auth!Parse
    <3>3. CASE Auth!Lookup(r)
      <4>1. Auth!To(r, "ask") \/ \E o : Auth!Answers(r, o)
        BY <3>3 DEF Auth!Lookup
      <4> QED BY <4>1
    <3>4. CASE Auth!GiveUp(r)  BY <3>4 DEF Auth!GiveUp
    <3>5. CASE Auth!ResolveKeys(r)
      <4>1. Auth!To(r, "parse") \/ Auth!To(r, "waiting") \/ Auth!Answers(r, "503")
        BY <3>5 DEF Auth!ResolveKeys
      <4> QED BY <4>1
    <3> QED BY <1>3, <3>1, <3>2, <3>3, <3>4, <3>5
  <2> QED BY <1>a, <1>u, <2>1, <2>2
<1>4. ASSUME NEW r \in Requests, Auth!Ask(r) PROVE AuthDropped'
  <2>1. UNCHANGED <<revoked, since, cache>> /\ req[r].at \in AuthAts
    BY <1>4 DEF Auth!Ask, Auth!At, AuthAts
  <2>2. CASE Auth!Answers(r, "500")
    BY <1>a, <1>u, <2>1, <2>2
  <2>3. CASE req' = [req EXCEPT ![r].at = "store", ![r].out = Auth!Verdict(req[r].cred, revoked), ![r].stale = FALSE]
    <3>1. req[r] \in AuthReqs  BY <2>1, <1>q
    <3>2. req'[r].out = Auth!Verdict(req[r].cred, revoked) /\ \A q \in Requests : q # r => req'[q] = req[q]
      BY <2>3, <3>1, <1>t DEF AuthReqs, AuthTypes
    <3>3. revoked => req'[r].out # "admitted"
      BY <3>2 DEF Auth!Verdict
    <3>4. Marked'
      BY <2>1, <3>2, <3>3, <1>t DEF Marked, AuthDropped
    <3> QED BY <1>u, <2>1, <3>4
  <2> QED BY <1>4, <2>2, <2>3 DEF Auth!Ask
<1>5. ASSUME NEW r \in Requests, Auth!Store(r) PROVE AuthDropped'
  <2>1. UNCHANGED revoked /\ req[r].at = "store" /\ Auth!To(r, "done") /\ "store" \in AuthAts
    BY <1>5 DEF Auth!Store, Auth!At, AuthAts
  <2>2. Marked'
    BY <1>a, <2>1
  <2>3. req[r] \in AuthReqs  BY <1>q, <2>1
  <2>4. since' = IF req[r].stale THEN 0 ELSE since
    BY <1>5 DEF Auth!Store
  <2>5. cache' = cache \/ cache' = Auth!Stored(req[r].out)
    BY <1>5 DEF Auth!Store
  <2>6. ~revoked' => since' = 0
    BY <1>t, <2>1, <2>4 DEF AuthDropped
  <2>7. since \in Nat /\ since' \in Nat
    BY <1>t, <2>4 DEF AuthTypes
  <2>8. ASSUME revoked', cache'.known, cache'.answer = "admitted", cache'.age <= TTL PROVE since' <= cache'.age
    <3>1. CASE cache' = cache
      <4>1. cache.age \in Nat
        BY <1>t, <2>8, <3>1 DEF AuthTypes
      <4> QED BY <1>t, <2>1, <2>4, <2>7, <2>8, <3>1, <4>1 DEF AuthDropped
    <3>2. CASE cache' = Auth!Stored(req[r].out)
      <4>1. req[r].out = "admitted" /\ cache'.age = 0
        BY <2>8, <3>2 DEF Auth!Stored
      <4>2. req[r].stale
        BY <1>t, <2>1, <2>8, <4>1 DEF AuthDropped
      <4> QED BY <2>4, <4>1, <4>2
    <3> QED BY <2>5, <3>1, <3>2
  <2> QED BY <2>2, <2>6, <2>8 DEF AuthDropped, Marked
<1>6. CASE Auth!Start \/ Auth!BackoffPasses \/ Auth!Stop \/ Auth!Rotate \/ UNCHANGED Auth!vars
  <2>1. UNCHANGED <<revoked, since, cache, req>>
    BY <1>6 DEF Auth!Start, Auth!BackoffPasses, Auth!Stop, Auth!Rotate, Auth!vars
  <2> QED BY <1>m, <1>u, <2>1
<1>7. CASE Auth!AttemptEnds
  <2>1. UNCHANGED <<revoked, since, cache>> /\ \A r \in Requests : req'[r] = IF req[r].at = "waiting" THEN [req[r] EXCEPT !.at = "resolve"] ELSE req[r]
    BY <1>7 DEF Auth!AttemptEnds, Auth!Released, Auth!Waiters
  <2>2. \A r \in Requests : req[r].at = "waiting" => [req[r] EXCEPT !.at = "resolve"].at = "resolve"
    BY <1>q DEF AuthReqs, AuthAts
  <2> QED BY <1>m, <1>u, <2>1, <2>2
<1>8. CASE Auth!Sweep
  <2>1. UNCHANGED <<revoked, since, req>> /\ cache'.known = FALSE
    BY <1>8 DEF Auth!Sweep
  <2>2. Marked'  BY <1>m, <2>1
  <2> QED BY <1>t, <2>1, <2>2 DEF AuthDropped, Marked
<1>9. CASE Auth!Tick
  <2>1. UNCHANGED <<revoked, req>> /\ cache' = Auth!Aged
    BY <1>9 DEF Auth!Tick
  <2>2. Marked'  BY <1>m, <2>1
  <2>3. since' = IF ~revoked \/ Auth!Outstanding THEN 0 ELSE IF since < MaxTicks THEN since + 1 ELSE since
    BY <1>9 DEF Auth!Tick
  <2>4. since \in Nat  BY <1>t DEF AuthTypes
  <2>5. since' <= since + 1 /\ (~revoked => since' = 0)
    BY <1>t, <2>3, <2>4
  <2>6. ASSUME revoked', cache'.known, cache'.answer = "admitted", cache'.age <= TTL PROVE since' <= cache'.age
    <3>1. CASE cache.known /\ cache.age <= TTL
      <4>1. cache' = [cache EXCEPT !.age = @ + 1] /\ cache \in [known : {TRUE}, answer : AuthOuts \ {"anonymous"}, age : Nat]
        BY <2>1, <3>1, <1>t DEF Auth!Aged, AuthTypes
      <4>2. PICK o \in AuthOuts \ {"anonymous"}, n \in Nat : cache = [known |-> TRUE, answer |-> o, age |-> n]
        BY <4>1
      <4>3. cache' = [known |-> TRUE, answer |-> o, age |-> n + 1]
        BY <4>1, <4>2
      <4>4. since <= n
        BY <1>t, <2>1, <2>6, <3>1, <4>2, <4>3 DEF AuthDropped
      <4> QED BY <2>3, <2>4, <4>3, <4>4, <1>t
    <3>2. CASE ~(cache.known /\ cache.age <= TTL)
      BY <2>1, <2>6, <3>2 DEF Auth!Aged
    <3> QED BY <3>1, <3>2
  <2> QED BY <2>1, <2>2, <2>5, <2>6 DEF AuthDropped, Marked
<1>10. CASE Auth!Revoke
  <2>1. revoked' = TRUE /\ ~revoked /\ UNCHANGED <<cache, since>>
        /\ req' = [r \in Requests |-> IF req[r].at = "store" THEN [req[r] EXCEPT !.stale = TRUE] ELSE req[r]]
    BY <1>10 DEF Auth!Revoke
  <2>2. since = 0  BY <2>1, <1>t DEF AuthDropped
  <2>3. \A r \in Requests : req'[r].at = "store" => req'[r].stale
    <3>1. \A r \in Requests : req[r].at = "store" => [req[r] EXCEPT !.stale = TRUE].stale
      BY <1>q DEF AuthReqs, AuthAts
    <3> QED BY <2>1, <3>1
  <2>4. cache'.known => cache'.age \in Nat
    BY <2>1, <1>t DEF AuthTypes
  <2> QED BY <2>1, <2>2, <2>3, <2>4 DEF AuthDropped
<1> QED BY <1>1, <1>2, <1>3, <1>4, <1>5, <1>6, <1>7, <1>8, <1>9, <1>10 DEF Auth!Next, Auth!Steps

\* A request waits only for an attempt that is under way.
LEMMA AuthCoveredStep == AuthOK /\ AuthInv /\ [Auth!Next]_Auth!vars => Auth!WaitersCovered'
<1> SUFFICES ASSUME AuthOK, AuthInv, [Auth!Next]_Auth!vars, NEW w \in Requests, req'[w].at = "waiting"
             PROVE  oidc'.inflight
  BY DEF Auth!WaitersCovered, Auth!Waiters
<1>t. AuthTypes  BY DEF AuthInv
<1>c. req[w].at = "waiting" => oidc.inflight
  BY DEF AuthInv, Auth!WaitersCovered, Auth!Waiters
<1>q. \A r \in Requests : req[r].at \in AuthAts => req[r] \in AuthReqs
  BY <1>t DEF AuthTypes, Auth!Idle, AuthAts
<1>o. oidc \in [resolved : BOOLEAN, inflight : BOOLEAN, backoff : BOOLEAN, stopped : BOOLEAN]
  BY <1>t DEF AuthTypes
<1>a. ASSUME NEW r \in Requests, req[r].at \in AuthAts, UNCHANGED oidc,
             (\E o : Auth!Answers(r, o)) \/ \E place : Auth!To(r, place) /\ place # "waiting"
      PROVE  oidc'.inflight
  <2>1. req[r] \in AuthReqs  BY <1>a, <1>q
  <2>2. req'[r].at # "waiting" /\ \A q \in Requests : q # r => req'[q] = req[q]
    BY <1>a, <2>1, <1>t DEF Auth!Answers, Auth!To, AuthReqs, AuthTypes
  <2> QED BY <1>a, <1>c, <2>2
<1>1. ASSUME NEW r \in Requests, Auth!Judge(r) \/ Auth!Parse(r) \/ Auth!Lookup(r) \/ Auth!GiveUp(r) \/ Auth!Store(r)
      PROVE  oidc'.inflight
  <2>1. UNCHANGED oidc /\ req[r].at \in AuthAts
    BY <1>1 DEF Auth!Judge, Auth!Parse, Auth!Lookup, Auth!GiveUp, Auth!Store, Auth!At, AuthAts
  <2>2. (\E o : Auth!Answers(r, o)) \/ \E place : Auth!To(r, place) /\ place # "waiting"
    <3>1. CASE Auth!Judge(r)  BY <3>1 DEF Auth!Judge
    <3>2. CASE Auth!Parse(r)  BY <3>2 DEF Auth!Parse
    <3>3. CASE Auth!Lookup(r)
      <4>1. Auth!To(r, "ask") \/ \E o : Auth!Answers(r, o)
        BY <3>3 DEF Auth!Lookup
      <4> QED BY <4>1
    <3>4. CASE Auth!GiveUp(r)  BY <3>4 DEF Auth!GiveUp
    <3>5. CASE Auth!Store(r)
      <4>1. Auth!To(r, "done")
        BY <3>5 DEF Auth!Store
      <4> QED BY <4>1
    <3> QED BY <1>1, <3>1, <3>2, <3>3, <3>4, <3>5
  <2> QED BY <1>a, <2>1, <2>2
<1>2. ASSUME NEW r \in Requests, Auth!ResolveKeys(r) PROVE oidc'.inflight
  <2>1. req[r].at = "resolve" /\ req[r].at \in AuthAts
    BY <1>2 DEF Auth!ResolveKeys, Auth!At, AuthAts
  <2>2. CASE UNCHANGED oidc /\ oidc.inflight
    BY <2>2
  <2>3. CASE UNCHANGED oidc /\ (Auth!To(r, "parse") \/ Auth!Answers(r, "503"))
    BY <1>a, <2>1, <2>3
  <2>4. CASE oidc' = [oidc EXCEPT !.inflight = TRUE]
    BY <1>o, <2>4
  <2> QED BY <1>2, <2>2, <2>3, <2>4 DEF Auth!ResolveKeys
<1>3. ASSUME NEW r \in Requests, Auth!Ask(r) PROVE oidc'.inflight
  <2>1. UNCHANGED oidc /\ req[r].at \in AuthAts
    BY <1>3 DEF Auth!Ask, Auth!At, AuthAts
  <2>2. req[r] \in AuthReqs  BY <1>q, <2>1
  <2>3. req'[r].at # "waiting" /\ \A q \in Requests : q # r => req'[q] = req[q]
    BY <1>3, <2>2, <1>t DEF Auth!Ask, Auth!Answers, AuthReqs, AuthTypes
  <2> QED BY <1>c, <2>1, <2>3
<1>4. ASSUME NEW r \in Requests, Auth!Arrive(r) PROVE oidc'.inflight
  <2>1. UNCHANGED oidc
    BY <1>4 DEF Auth!Arrive
  <2>2. PICK c, k : req' = [req EXCEPT ![r] = Auth!Begun(r, c, k)]
    BY <1>4 DEF Auth!Arrive
  <2>3. Auth!Begun(r, c, k).at # "waiting"
    <3>1. Auth!Begun(r, c, k).at = (CASE k = "none" -> "done" [] k = "oidc" -> "resolve"
                             [] k = "introspection" -> "cached" [] OTHER -> "judge")
      BY DEF Auth!Begun
    <3> QED BY <3>1
  <2> QED BY <1>c, <1>t, <2>1, <2>2, <2>3 DEF AuthTypes
<1>5. CASE Auth!AttemptEnds
  <2>1. req'[w] = IF req[w].at = "waiting" THEN [req[w] EXCEPT !.at = "resolve"] ELSE req[w]
    BY <1>5 DEF Auth!AttemptEnds, Auth!Released, Auth!Waiters
  <2> QED BY <1>q, <2>1 DEF AuthReqs, AuthAts
<1>6. CASE Auth!Start \/ Auth!BackoffPasses \/ Auth!Stop
  <2>1. UNCHANGED req
    BY <1>6 DEF Auth!Start, Auth!BackoffPasses, Auth!Stop
  <2>2. oidc.inflight  BY <1>c, <2>1
  <2> QED BY <1>6, <1>o, <2>2 DEF Auth!Start, Auth!BackoffPasses, Auth!Stop
<1>7. CASE Auth!Revoke
  <2>1. UNCHANGED oidc /\ req'[w] = IF req[w].at = "store" THEN [req[w] EXCEPT !.stale = TRUE] ELSE req[w]
    BY <1>7 DEF Auth!Revoke
  <2>2. req[w].at = "store" => [req[w] EXCEPT !.stale = TRUE].at = "store"
    BY <1>q DEF AuthReqs, AuthAts
  <2> QED BY <1>c, <2>1, <2>2
<1>8. CASE (\E i \in Auth!Decls : Auth!Process(i)) \/ Auth!Resolve \/ Auth!Rotate \/ Auth!Sweep \/ Auth!Tick \/ UNCHANGED Auth!vars
  <2>1. UNCHANGED <<oidc, req>>
    BY <1>8 DEF Auth!Process, Auth!Resolve, Auth!Runtime, Auth!Rotate, Auth!Sweep, Auth!Tick, Auth!vars
  <2> QED BY <1>c, <2>1
<1> QED BY <1>1, <1>2, <1>3, <1>4, <1>5, <1>6, <1>7, <1>8 DEF Auth!Next, Auth!Steps

LEMMA AuthInvariant == AuthOK => (Auth!Spec => []AuthInv)
<1> SUFFICES ASSUME AuthOK PROVE Auth!Spec => []AuthInv  OBVIOUS
<1>1. AuthInv /\ [Auth!Next]_Auth!vars => AuthInv'
  BY AuthTypesStep, AuthBoundStep, AuthTakenStep, AuthDroppedStep, AuthCoveredStep DEF AuthInv
<1>2. Auth!Init => AuthInv
  BY AuthInit
<1> QED BY <1>1, <1>2, PTL DEF Auth!Spec

\* Types: only declarations are processed, and no request comes more often than
\* it may.
THEOREM AuthTypeCorrect == AuthOK => (Auth!Spec => []Auth!TypeOK)
<1> SUFFICES ASSUME AuthOK PROVE Auth!Spec => []Auth!TypeOK  OBVIOUS
<1>i. Auth!Spec => []AuthInv  BY AuthInvariant
<1>1. AuthInv => Auth!TypeOK
  <2> SUFFICES ASSUME AuthInv, NEW r \in Requests PROVE req[r].tries \in 0..MaxTries
    BY DEF Auth!TypeOK, AuthInv, AuthTypes
  <2>1. req[r] \in AuthReqs \/ req[r] = Auth!Idle
    BY DEF AuthInv, AuthTypes
  <2> QED BY <2>1 DEF AuthReqs, Auth!Idle, AuthOK
<1> QED BY <1>1, <1>i, PTL

\* A route is guarded by the enabled declaration of every name it lists.
THEOREM AuthRouteGuarded == AuthOK => (Auth!Spec => []Auth!RouteGuarded)
<1> SUFFICES ASSUME AuthOK PROVE Auth!Spec => []Auth!RouteGuarded  OBVIOUS
<1>i. Auth!Spec => []AuthInv  BY AuthInvariant
<1>1. AuthInv => Auth!RouteGuarded
  BY DEF AuthInv, AuthBound
<1> QED BY <1>1, <1>i, PTL

\* A request passes on the word of the first mechanism that recognises it.
THEOREM AuthAdmittedVerified == AuthOK => (Auth!Spec => []Auth!AdmittedVerified)
<1> SUFFICES ASSUME AuthOK PROVE Auth!Spec => []Auth!AdmittedVerified  OBVIOUS
<1>i. Auth!Spec => []AuthInv  BY AuthInvariant
<1>1. AuthInv => Auth!AdmittedVerified
  <2> SUFFICES ASSUME AuthInv, NEW r \in Requests, req[r].at = "done"
               PROVE  /\ req[r].out = "admitted" =>
                           /\ Auth!Good(req[r].by, req[r].cred)
                           /\ \A j \in Auth!Placed : Auth!Claims(policy.mechanisms[j], req[r].cred) =>
                                \E i \in Auth!Placed : policy.mechanisms[i] = req[r].by /\ i <= j
                      /\ req[r].out = "anonymous" =>
                           policy.anonymous /\ \A j \in Auth!Placed : ~Auth!Claims(policy.mechanisms[j], req[r].cred)
    BY DEF Auth!AdmittedVerified
  <2>1. AuthTook(r) /\ AuthFirst(r)
    BY DEF AuthInv, AuthTaken, AuthTook
  <2>2. Auth!Serving
    BY DEF AuthInv, AuthTypes, Auth!Idle
  <2>3. req[r].out = "anonymous" => policy.anonymous /\ req[r].by = "none"
    BY <2>1 DEF AuthTook
  <2>4. req[r].out = "admitted" => Auth!Good(req[r].by, req[r].cred)
    BY <2>1 DEF AuthTook
  <2> DEFINE C == Auth!Claimants(req[r].cred)
  <2>5. \A j \in Auth!Placed : policy.mechanisms[j] # "none"
    BY <2>2 DEF AuthInv, AuthTypes, AuthKinds
  <2>6. \A j : j \in C <=> j \in Auth!Placed /\ Auth!Claims(policy.mechanisms[j], req[r].cred)
    BY DEF Auth!Claimants
  <2>7. IF C = {} THEN req[r].by = "none"
        ELSE \E i \in C : req[r].by = policy.mechanisms[i] /\ \A j \in C : i <= j
    BY <2>1 DEF AuthFirst
  <2> HIDE DEF C
  <2>8. req[r].out = "anonymous" => \A j \in Auth!Placed : ~Auth!Claims(policy.mechanisms[j], req[r].cred)
    BY <2>3, <2>5, <2>6, <2>7
  <2>9. \A j \in Auth!Placed : Auth!Claims(policy.mechanisms[j], req[r].cred) =>
          \E i \in Auth!Placed : policy.mechanisms[i] = req[r].by /\ i <= j
    BY <2>6, <2>7
  <2> QED BY <2>3, <2>4, <2>8, <2>9
<1> QED BY <1>1, <1>i, PTL

\* A dropped token is served for at most cache_ttl.
THEOREM AuthRevocationLands == AuthOK => (Auth!Spec => []Auth!RevocationLands)
<1> SUFFICES ASSUME AuthOK PROVE Auth!Spec => []Auth!RevocationLands  OBVIOUS
<1>i. Auth!Spec => []AuthInv  BY AuthInvariant
<1>1. AuthInv => Auth!RevocationLands
  <2> SUFFICES ASSUME AuthInv, revoked, Auth!Fresh, cache.answer = "admitted" PROVE since <= TTL
    BY DEF Auth!RevocationLands
  <2>1. cache.known /\ cache.age < TTL /\ cache.age \in Nat /\ since \in Nat
    BY DEF Auth!Fresh, AuthInv, AuthTypes
  <2>2. since <= cache.age
    BY <2>1 DEF AuthInv, AuthDropped, AuthOK
  <2> QED BY <2>1, <2>2 DEF AuthOK
<1> QED BY <1>1, <1>i, PTL

\* No request waits on an attempt that is not under way.
THEOREM AuthWaitersCovered == AuthOK => (Auth!Spec => []Auth!WaitersCovered)
<1> SUFFICES ASSUME AuthOK PROVE Auth!Spec => []Auth!WaitersCovered  OBVIOUS
<1>i. Auth!Spec => []AuthInv  BY AuthInvariant
<1>1. AuthInv => Auth!WaitersCovered  BY DEF AuthInv
<1> QED BY <1>1, <1>i, PTL

-----------------------------------------------------------------------------
(* The HTTP server and the websocket Listener.                             *)

Server == INSTANCE ServerRuntime

ServerOK == QueueSize \in Nat

\* Where a request's handler is before it belongs to the Listener, and after.
ServerEarly == {"free", "action", "check", "upgrade", "cut"}
ServerLate == {"subscribe", "read", "cleanup", "unsubscribe", "untrack", "forsake"}
ServerCodes == {200, 204, 302, 500, 503}
ServerWords == {"cut", "not upgraded", "closed", "not unsubscribed"}
ServerOut == ServerCodes \cup ServerWords
ServerSlot == [at : ServerEarly \cup {"track"} \cup ServerLate] \cup [at : {"done"}, out : ServerOut]

ServerInv ==
  /\ Server!TypeOK
  /\ slot \in [Slots -> ServerSlot] /\ once \in [Slots -> {"no", "begun", "done"}] /\ snapshot \subseteq Slots
  /\ \A c \in Slots :
       /\ c \in tracked <=> slot[c].at \in ServerLate
       /\ c \in subs => slot[c].at \in {"read", "cleanup", "unsubscribe"} \/ Server!Forsaken(c)
       /\ c \in socket => slot[c].at \in {"track", "subscribe", "read", "cleanup"} /\ once[c] # "done"
       /\ c \in async => slot[c].at \in {"track", "subscribe", "read", "cleanup"} /\ once[c] # "done"
       /\ queue[c] # 0 => c \in async
       /\ c \in closers \cup snapshot \/ once[c] # "no" => slot[c].at \in ServerLate \cup {"done"}
       /\ slot[c].at \in {"unsubscribe", "untrack", "forsake"} => once[c] = "done"
  /\ ws = "clean" => \A c \in snapshot : slot[c].at = "done"

LEMMA ServerOuts ==
  /\ \A word \in {"no context", "fails", "response", "null", "not a body", "body"} : Server!StatusOf(word) \in ServerOut
  /\ 503 \in ServerOut /\ "cut" \in ServerOut /\ "not upgraded" \in ServerOut /\ "closed" \in ServerOut
  /\ "not unsubscribed" \in ServerOut
<1>1. 200 \in ServerCodes /\ 204 \in ServerCodes /\ 302 \in ServerCodes /\ 500 \in ServerCodes /\ 503 \in ServerCodes
  BY DEF ServerCodes
<1>2. "cut" \in ServerWords /\ "not upgraded" \in ServerWords /\ "closed" \in ServerWords
      /\ "not unsubscribed" \in ServerWords
  BY DEF ServerWords
<1> QED BY <1>1, <1>2 DEF Server!StatusOf, ServerOut

LEMMA ServerTo ==
  ASSUME slot \in [Slots -> ServerSlot], NEW c \in Slots, slot[c].at # "done",
         NEW a \in ServerEarly \cup {"track"} \cup ServerLate, Server!To(c, a)
  PROVE  slot' \in [Slots -> ServerSlot] /\ slot'[c].at = a /\ \A d \in Slots \ {c} : slot'[d] = slot[d]
<1> DEFINE s == slot[c]
<1>1. s \in [at : ServerEarly \cup {"track"} \cup ServerLate]  BY DEF ServerSlot
<1>2. slot' = [slot EXCEPT ![c] = [s EXCEPT !.at = a]]  BY DEF Server!To
<1> HIDE DEF s
<1>3. [s EXCEPT !.at = a] \in ServerSlot /\ [s EXCEPT !.at = a].at = a  BY <1>1 DEF ServerSlot
<1> QED BY <1>2, <1>3

LEMMA ServerEnds ==
  ASSUME slot \in [Slots -> ServerSlot], NEW c \in Slots, NEW out \in ServerOut, Server!Ends(c, out)
  PROVE  slot' \in [Slots -> ServerSlot] /\ slot'[c].at = "done" /\ \A d \in Slots \ {c} : slot'[d] = slot[d]
<1>1. [at |-> "done", out |-> out] \in ServerSlot  BY DEF ServerSlot
<1> QED BY <1>1 DEF Server!Ends

LEMMA ServerStep == ServerOK /\ ServerInv /\ [Server!Next]_(Server!vars) => ServerInv'
<1> SUFFICES ASSUME ServerOK, ServerInv, [Server!Next]_(Server!vars) PROVE ServerInv'  OBVIOUS
<1> USE DEF ServerInv, Server!Forsaken, Server!At
<1>t. slot \in [Slots -> ServerSlot]  OBVIOUS
<1>1. CASE UNCHANGED Server!vars
  BY <1>1 DEF Server!vars, Server!Conn, Server!Drains, Server!TypeOK
<1>2. CASE Server!Start \/ Server!Drain
  BY <1>2 DEF Server!Start, Server!Drain, Server!Conn, Server!Drains, Server!TypeOK
<1>3. CASE Server!DrainEnds
  <2>1. /\ slot' \in [Slots -> ServerSlot]
        /\ \A c \in Slots : slot'[c] = slot[c] \/ (slot[c].at \in {"action", "check", "upgrade"} /\ slot'[c].at = "cut")
    <3>1. CASE UNCHANGED slot  BY <3>1
    <3>2. CASE slot' = [c \in Slots |-> IF c \in Server!Visible THEN [slot[c] EXCEPT !.at = "cut"] ELSE slot[c]]
      <4>1. ASSUME NEW c \in Slots, slot[c].at \in {"action", "check", "upgrade"}
            PROVE  [slot[c] EXCEPT !.at = "cut"] \in ServerSlot /\ [slot[c] EXCEPT !.at = "cut"].at = "cut"
        <5> DEFINE s == slot[c]
        <5>1. s \in [at : ServerEarly \cup {"track"} \cup ServerLate]  BY <4>1 DEF ServerSlot
        <5> HIDE DEF s
        <5>2. [s EXCEPT !.at = "cut"] \in ServerSlot /\ [s EXCEPT !.at = "cut"].at = "cut"  BY <5>1 DEF ServerSlot, ServerEarly
        <5> QED BY <5>2 DEF s
      <4> QED BY <3>2, <4>1 DEF Server!Visible
    <3> QED BY <1>3, <3>1, <3>2 DEF Server!DrainEnds
  <2>2. UNCHANGED <<socket, async, queue, subs, tracked, once, closers, ws, snapshot, bounded>> /\ http' = "down"
    BY <1>3 DEF Server!DrainEnds, Server!Conn, Server!Drains
  <2>3. \A c \in Slots : slot'[c] = slot[c] \/ (slot[c].at \in {"action", "check", "upgrade"} /\ slot'[c].at = "cut")
    BY <2>1
  <2> DEFINE Holds(c) ==
        /\ c \in tracked <=> slot[c].at \in ServerLate
        /\ c \in subs => slot[c].at \in {"read", "cleanup", "unsubscribe"} \/ Server!Forsaken(c)
        /\ c \in socket => slot[c].at \in {"track", "subscribe", "read", "cleanup"} /\ once[c] # "done"
        /\ c \in async => slot[c].at \in {"track", "subscribe", "read", "cleanup"} /\ once[c] # "done"
        /\ queue[c] # 0 => c \in async
        /\ c \in closers \cup snapshot \/ once[c] # "no" => slot[c].at \in ServerLate \cup {"done"}
        /\ slot[c].at \in {"unsubscribe", "untrack", "forsake"} => once[c] = "done"
  <2>4. ASSUME NEW c \in Slots PROVE Holds(c)'
    <3>1. CASE slot'[c] = slot[c]  BY <2>2, <3>1
    <3>2. CASE slot[c].at \in {"action", "check", "upgrade"} /\ slot'[c].at = "cut"
      BY <2>2, <3>2 DEF ServerLate
    <3> QED BY <2>3, <3>1, <3>2
  <2>5. (ws = "clean" => \A c \in snapshot : slot[c].at = "done")'
    BY <2>2, <2>3
  <2>6. Server!TypeOK' /\ once' \in [Slots -> {"no", "begun", "done"}] /\ snapshot' \subseteq Slots
    BY <2>2 DEF Server!TypeOK
  <2> HIDE DEF Server!Forsaken, Server!At
  <2> QED BY <2>1, <2>4, <2>5, <2>6
<1>4. CASE Server!Shutdown \/ Server!Snapshot
  BY <1>4 DEF Server!Shutdown, Server!Snapshot, Server!Conn, Server!Drains, Server!TypeOK
<1>5. CASE Server!Tick \/ Server!Deadline
  BY <1>5 DEF Server!Tick, Server!Deadline, Server!Remaining, Server!Conn, Server!Drains, Server!TypeOK, ServerLate
<1>6. ASSUME NEW c \in Slots, Server!Request(c) \/ Server!Handler(c) \/ Server!Receive(c) \/ Server!PeerLeaves(c)
                              \/ Server!Write(c) \/ Server!PingDue(c)
      PROVE  ServerInv'
  <2>1. CASE Server!Request(c)
    <3>1. PICK place \in {"action", "check"} : Server!To(c, place)  BY <2>1 DEF Server!Request
    <3>2. slot[c].at = "free" /\ UNCHANGED <<http, Server!Conn, Server!Drains, bounded>>  BY <2>1 DEF Server!Request, Server!At
    <3>3. slot' \in [Slots -> ServerSlot] /\ slot'[c].at = place /\ \A d \in Slots \ {c} : slot'[d] = slot[d]
      BY <1>t, <3>1, <3>2, ServerTo DEF ServerEarly
    <3> QED BY <3>2, <3>3 DEF Server!Conn, Server!Drains, Server!TypeOK, ServerLate
  <2>2. CASE Server!Action(c) \/ Server!Cut(c)
    <3>1. \E out \in ServerOut : Server!Ends(c, out)
      BY <2>2, ServerOuts DEF Server!Action, Server!Cut
    <3>2. slot[c].at \in {"action", "cut"} /\ UNCHANGED <<http, Server!Conn, Server!Drains, bounded>>
      BY <2>2 DEF Server!Action, Server!Cut, Server!At
    <3>3. slot' \in [Slots -> ServerSlot] /\ slot'[c].at = "done" /\ \A d \in Slots \ {c} : slot'[d] = slot[d]
      BY <1>t, <3>1, ServerEnds
    <3> QED BY <3>2, <3>3 DEF Server!Conn, Server!Drains, Server!TypeOK, ServerLate
  <2>3. CASE Server!Check(c)
    <3>1. slot[c].at = "check" /\ UNCHANGED <<http, Server!Conn, Server!Drains, bounded>> /\ (Server!Ends(c, 503) \/ Server!To(c, "upgrade"))
      BY <2>3 DEF Server!Check, Server!At
    <3>2. slot' \in [Slots -> ServerSlot] /\ slot'[c].at \in {"done", "upgrade"} /\ \A d \in Slots \ {c} : slot'[d] = slot[d]
      BY <1>t, <3>1, ServerEnds, ServerTo, ServerOuts DEF ServerEarly
    <3> QED BY <3>1, <3>2 DEF Server!Conn, Server!Drains, Server!TypeOK, ServerLate
  <2>4. CASE Server!Upgrade(c)
    <3>1. slot[c].at = "upgrade" /\ UNCHANGED <<http, queue, subs, tracked, once, closers, ws, snapshot, bounded>>
          /\ ((Server!Ends(c, "not upgraded") /\ UNCHANGED <<socket, async>>)
              \/ (Server!To(c, "track") /\ socket' = socket \cup {c} /\ async' = async \cup {c}))
      BY <2>4 DEF Server!Upgrade, Server!At, Server!Drains
    <3>2. slot' \in [Slots -> ServerSlot] /\ \A d \in Slots \ {c} : slot'[d] = slot[d]
      BY <1>t, <3>1, ServerEnds, ServerTo, ServerOuts
    <3>3. (slot'[c].at = "done" /\ UNCHANGED <<socket, async>>) \/ (slot'[c].at = "track" /\ socket' = socket \cup {c} /\ async' = async \cup {c})
      BY <1>t, <3>1, ServerEnds, ServerTo, ServerOuts
    <3>4. slot[c].at = "upgrade" /\ UNCHANGED <<http, queue, subs, tracked, once, closers, ws, snapshot, bounded>>  BY <3>1
    <3>5. CASE slot'[c].at = "done" /\ UNCHANGED <<socket, async>>
      BY <3>2, <3>4, <3>5 DEF Server!TypeOK, ServerLate
    <3>6. CASE slot'[c].at = "track" /\ socket' = socket \cup {c} /\ async' = async \cup {c}
      <4>1. c \notin closers \cup snapshot \cup tracked \cup subs /\ once[c] = "no"
        BY <3>4 DEF ServerLate, Server!Forsaken, Server!At
      <4> QED BY <3>2, <3>4, <3>6 DEF Server!TypeOK, ServerLate
    <3> QED BY <3>3, <3>5, <3>6
  <2>5. CASE Server!Track(c)
    <3>1. slot[c].at = "track" /\ UNCHANGED <<http, socket, async, queue, subs, once, closers, ws, snapshot, bounded>>
          /\ tracked' = tracked \cup {c} /\ Server!To(c, "subscribe")
      BY <2>5 DEF Server!Track, Server!At, Server!Drains
    <3>2. slot' \in [Slots -> ServerSlot] /\ slot'[c].at = "subscribe" /\ \A d \in Slots \ {c} : slot'[d] = slot[d]
      BY <1>t, <3>1, ServerTo DEF ServerLate
    <3> QED BY <3>1, <3>2 DEF Server!TypeOK, ServerLate
  <2>6. CASE Server!Subscribe(c)
    <3>1. slot[c].at = "subscribe" /\ UNCHANGED <<http, socket, async, queue, tracked, once, closers, ws, snapshot, bounded>>
          /\ subs' \in {subs, subs \cup {c}} /\ Server!To(c, "read")
      BY <2>6 DEF Server!Subscribe, Server!At, Server!Drains
    <3>2. slot' \in [Slots -> ServerSlot] /\ slot'[c].at = "read" /\ \A d \in Slots \ {c} : slot'[d] = slot[d]
      BY <1>t, <3>1, ServerTo DEF ServerLate
    <3> QED BY <3>1, <3>2 DEF Server!TypeOK, ServerLate
  <2>7. CASE Server!ReadEnds(c)
    <3>1. slot[c].at = "read" /\ UNCHANGED <<http, Server!Conn, Server!Drains, bounded>> /\ Server!To(c, "cleanup")
      BY <2>7 DEF Server!ReadEnds, Server!At
    <3>2. slot' \in [Slots -> ServerSlot] /\ slot'[c].at = "cleanup" /\ \A d \in Slots \ {c} : slot'[d] = slot[d]
      BY <1>t, <3>1, ServerTo DEF ServerLate
    <3> QED BY <3>1, <3>2 DEF Server!Conn, Server!Drains, Server!TypeOK, ServerLate
  <2>8. CASE Server!CleanupBegins(c) \/ Server!SubscriberCloses(c) \/ Server!CleanupEnds(c)
    <3>1. CASE Server!CleanupBegins(c)
      BY <3>1 DEF Server!CleanupBegins, Server!Drains, Server!TypeOK, ServerLate
    <3>2. CASE Server!SubscriberCloses(c)
      BY <3>2 DEF Server!SubscriberCloses, Server!Drains, Server!TypeOK, ServerLate
    <3>3. CASE Server!CleanupEnds(c)
      BY <3>3 DEF Server!CleanupEnds, Server!Drains, Server!TypeOK, ServerLate
    <3> QED BY <2>8, <3>1, <3>2, <3>3
  <2>9. CASE Server!CleanupSeen(c)
    <3>1. once[c] = "done" /\ UNCHANGED <<http, socket, async, queue, subs, tracked, once, ws, snapshot, bounded>>
          /\ ((slot[c].at = "cleanup" /\ Server!To(c, "unsubscribe") /\ UNCHANGED closers) \/ (closers' = closers \ {c} /\ UNCHANGED slot))
      BY <2>9 DEF Server!CleanupSeen, Server!At, Server!Drains
    <3>2. CASE slot[c].at = "cleanup" /\ Server!To(c, "unsubscribe") /\ UNCHANGED closers
      <4>1. slot' \in [Slots -> ServerSlot] /\ slot'[c].at = "unsubscribe" /\ \A d \in Slots \ {c} : slot'[d] = slot[d]
        BY <1>t, <3>2, ServerTo DEF ServerLate
      <4> QED BY <3>1, <3>2, <4>1 DEF Server!TypeOK, ServerLate
    <3>3. CASE closers' = closers \ {c} /\ UNCHANGED slot
      BY <3>1, <3>3 DEF Server!TypeOK, ServerLate
    <3> QED BY <3>1, <3>2, <3>3
  <2>10. CASE Server!Unsubscribe(c)
    <3>1. slot[c].at = "unsubscribe" /\ UNCHANGED <<http, socket, async, queue, tracked, once, closers, ws, snapshot, bounded>>
          /\ ((subs' = subs \ {c} /\ Server!To(c, "untrack")) \/ (Server!To(c, "forsake") /\ UNCHANGED subs))
      BY <2>10 DEF Server!Unsubscribe, Server!Unsubscribed, Server!Drains
    <3>2. CASE subs' = subs \ {c} /\ Server!To(c, "untrack")
      <4>1. slot' \in [Slots -> ServerSlot] /\ slot'[c].at = "untrack" /\ \A d \in Slots \ {c} : slot'[d] = slot[d]
        BY <1>t, <3>1, <3>2, ServerTo DEF ServerLate
      <4> QED BY <3>1, <3>2, <4>1 DEF Server!TypeOK, ServerLate
    <3>3. CASE Server!To(c, "forsake") /\ UNCHANGED subs
      <4>1. slot' \in [Slots -> ServerSlot] /\ slot'[c].at = "forsake" /\ \A d \in Slots \ {c} : slot'[d] = slot[d]
        BY <1>t, <3>1, <3>3, ServerTo DEF ServerLate
      <4> QED BY <3>1, <3>3, <4>1 DEF Server!TypeOK, ServerLate
    <3> QED BY <3>1, <3>2, <3>3
  <2>11. CASE Server!Untrack(c)
    <3>1. tracked' = tracked \ {c} /\ UNCHANGED <<http, socket, async, queue, subs, once, closers, ws, snapshot, bounded>>
          /\ ((slot[c].at = "untrack" /\ Server!Ends(c, "closed")) \/ (slot[c].at = "forsake" /\ Server!Ends(c, "not unsubscribed")))
      BY <2>11 DEF Server!Untrack, Server!Drains
    <3>2. CASE slot[c].at = "untrack" /\ Server!Ends(c, "closed")
      <4>1. slot' \in [Slots -> ServerSlot] /\ slot'[c].at = "done" /\ \A d \in Slots \ {c} : slot'[d] = slot[d]
        BY <1>t, <3>2, ServerEnds, ServerOuts
      <4> QED BY <3>1, <3>2, <4>1 DEF Server!TypeOK, ServerLate
    <3>3. CASE slot[c].at = "forsake" /\ Server!Ends(c, "not unsubscribed")
      <4>1. slot' \in [Slots -> ServerSlot] /\ slot'[c].at = "done" /\ \A d \in Slots \ {c} : slot'[d] = slot[d]
        BY <1>t, <3>3, ServerEnds, ServerOuts
      <4>2. slot'[c].out = "not unsubscribed"  BY <1>t, <3>3 DEF Server!Ends
      <4> QED BY <3>1, <3>3, <4>1, <4>2 DEF Server!TypeOK, ServerLate
    <3> QED BY <3>1, <3>2, <3>3
  <2>12. CASE Server!Receive(c)
    <3>1. /\ queue' = [d \in Slots |-> IF d \in subs /\ Server!Takes(d) THEN queue[d] + 1 ELSE queue[d]]
          /\ UNCHANGED <<http, slot, socket, async, subs, tracked, once, closers, ws, snapshot, bounded>>
      BY <2>12 DEF Server!Receive, Server!Drains
    <3>2. queue' \in [Slots -> 0..QueueSize] /\ \A d \in Slots : queue'[d] # queue[d] => d \in async
      <4>1. queue \in [Slots -> 0..QueueSize]  BY DEF Server!TypeOK
      <4> HIDE DEF ServerInv
      <4> QED BY <3>1, <4>1 DEF ServerOK, Server!Takes
    <3> QED BY <3>1, <3>2 DEF Server!TypeOK
  <2>13. CASE Server!PingDue(c) \/ Server!Write(c)
    <3>1. /\ c \in async /\ socket' \subseteq socket
          /\ UNCHANGED <<http, slot, async, subs, tracked, once, closers, ws, snapshot, bounded>>
      BY <2>13 DEF Server!PingDue, Server!Write, Server!Takes, Server!Drains
    <3>2. queue' \in [Slots -> 0..QueueSize] /\ \A d \in Slots \ {c} : queue'[d] = queue[d]
      <4>1. queue \in [Slots -> 0..QueueSize]  BY DEF Server!TypeOK
      <4>2. \/ queue' = [queue EXCEPT ![c] = @ + 1] /\ queue[c] < QueueSize
            \/ queue' = [queue EXCEPT ![c] = @ - 1] /\ queue[c] > 0
        BY <2>13 DEF Server!PingDue, Server!Write, Server!Takes
      <4> HIDE DEF ServerInv
      <4> QED BY <4>1, <4>2 DEF ServerOK
    <3> QED BY <3>1, <3>2 DEF Server!TypeOK
  <2>14. CASE Server!PeerLeaves(c)
    BY <2>14 DEF Server!PeerLeaves, Server!Drains, Server!TypeOK
  <2> QED BY <1>6, <2>1, <2>2, <2>3, <2>4, <2>5, <2>6, <2>7, <2>8, <2>9, <2>10, <2>11, <2>12, <2>13, <2>14 DEF Server!Handler
<1> HIDE DEF ServerInv
<1> QED BY Zenon, <1>1, <1>2, <1>3, <1>4, <1>5, <1>6 DEF Server!Next

LEMMA ServerInit == ServerOK /\ Server!Init => ServerInv
<1> SUFFICES ASSUME ServerOK, Server!Init PROVE ServerInv  OBVIOUS
<1>1. /\ http = "off" /\ slot = [c \in Slots |-> [at |-> "free"]]
      /\ socket = {} /\ async = {} /\ queue = [c \in Slots |-> 0] /\ subs = {}
      /\ tracked = {} /\ once = [c \in Slots |-> "no"] /\ closers = {}
      /\ ws = "no" /\ snapshot = {} /\ bounded \in BOOLEAN
  BY Zenon DEF Server!Init
<1>2. slot \in [Slots -> ServerSlot] /\ \A c \in Slots : slot[c].at = "free"
  <2>1. [at |-> "free"] \in ServerSlot  BY DEF ServerSlot, ServerEarly
  <2> QED BY <1>1, <2>1
<1> QED BY <1>1, <1>2 DEF ServerInv, Server!TypeOK, ServerOK, ServerLate

LEMMA ServerInvariant == ServerOK => (Server!Spec => []ServerInv)
<1> SUFFICES ASSUME ServerOK PROVE Server!Spec => []ServerInv  OBVIOUS
<1> QED BY ServerInit, ServerStep, PTL DEF Server!Spec

\* Every variable keeps its type.
LEMMA ServerTypeCorrect == ServerOK => (Server!Spec => []Server!TypeOK)
<1>1. ServerInv => Server!TypeOK  BY DEF ServerInv
<1> QED BY <1>1, ServerInvariant, PTL

\* A handler that has returned leaves nothing of its connection behind but the
\* subscriptions UnsubscribeAll failed to end, which nothing can fill any more
\* (cleanup, ServeHTTP).
THEOREM ServerHandlerLeavesNothing == ServerOK => (Server!Spec => []Server!HandlerLeavesNothing)
<1>1. ServerInv => Server!HandlerLeavesNothing
  BY DEF ServerInv, Server!HandlerLeavesNothing, Server!Forsaken, Server!At, Server!TypeOK, ServerLate
<1> QED BY <1>1, ServerInvariant, PTL

\* When Shutdown returns without error, every connection it saw has its
\* subscriber stopped, its queue written out and its socket closed, and is
\* unsubscribed unless its UnsubscribeAll failed, which ServeHTTP only logs.
THEOREM ServerShutdownTrue == ServerOK => (Server!Spec => []Server!ShutdownTrue)
<1>1. ServerInv => Server!ShutdownTrue
  BY DEF ServerInv, Server!ShutdownTrue, Server!Forsaken, Server!At, Server!TypeOK
<1> QED BY <1>1, ServerInvariant, PTL

-----------------------------------------------------------------------------
(* Processing of client and server blocks.                                 *)

Connector == INSTANCE ConnectorBlocks WITH
  Kinds <- ConnectorKinds

ConnectorKnown ==
  {"kafka", "rabbitmq", "mqtt", "redis_stream", "redis_pubsub", "sqs_receiver", "sqs_sender", "sns_sender",
   "redis", "redis_kv", "otlp", "sql", "vws", "openai", "aws", "http", "server http", "server metrics",
   "server mcp", "server vws", "server websocket"}
ConnectorOK == ConnectorKinds \subseteq ConnectorKnown /\ MaxSenders \in Nat /\ MaxReceivers \in Nat

\* The steps that leave nothing in the lists of the configuration.
ConnectorChecks ==
  {"subscriber or action", "partitions need a queue", "key needs partitions", "subscriber", "transforms",
   "partition count", "partition key", "queue", "inflight", "ca_cert file", "ca_cert certificates",
   "cert and key", "key pair", "cert or self_signed", "key", "serial", "certificate", "encoding", "pair",
   "cert given", "password", "password type", "mechanism", "acks", "compression", "renamed", "decode",
   "brokers", "blocks", "unique senders", "unique receivers", "durations", "linger", "produce_mode",
   "topic transform", "group", "offset", "ack", "baggage", "subscriptions", "metrics", "tracing",
   "wire_format", "broker URL", "broker scheme", "tls and scheme", "timeouts", "auth", "reconnect",
   "key transform", "broker URLs", "client_id", "will topic", "will payload", "duplicate", "stream",
   "consumer name", "batch", "block_timeout", "group_create", "fields_mode", "reclaim", "dead_letter",
   "maxlen", "connection", "channel", "mappings", "aws", "queue_url", "wait_time", "visibility", "build",
   "topic", "address", "addresses", "master_name", "database", "passwords", "dial_timeout", "ttl",
   "trace exporter", "metric exporter", "headers", "record_baggage", "metric_interval", "cardinality",
   "on_zero", "timeout", "dialect", "base_url", "access key", "secret key", "session token", "endpoint",
   "load", "max_attempts", "initial_delay", "max_delay", "backoff_factor", "retry_on", "redirects",
   "auth lifetime", "auth failures", "auth backoff", "cookies", "pattern", "method", "base directory",
   "route auth", "mux", "action or handler", "handler", "real_ip", "shutdown_timeout", "external_url",
   "auth routes", "auth mux", "health", "exporter", "param type", "param default", "param enum",
   "resource action", "resource URI", "tool action", "prompt action", "bus", "ping_interval", "write_timeout",
   "outbound_transforms", "inbound_transforms"}
ConnectorListed == {"startable", "drainable", "stoppable", "inflight"}
ConnectorHeld == {"startable", "drainable", "stoppable", "pool", "meter"}

\* Nothing that can be refused comes after something that is held.
ConnectorSorted(s) ==
  \A i, j \in 1..Len(s) : i < j /\ s[i] \in ConnectorHeld => s[j] \in Connector!Effects
ConnectorSimple(s) ==
  /\ s \in Seq(ConnectorChecks \cup ConnectorListed)
  /\ \A i, j \in 1..Len(s) : i < j /\ s[i] \in ConnectorListed \ {"inflight"} => s[j] \in ConnectorListed

LEMMA ConnectorEach == ASSUME NEW n \in Nat, NEW S, NEW s \in Seq(S) PROVE Connector!Each(n, s) \in Seq(S)
<1>1. n * Len(s) \in Nat  OBVIOUS
<1>2. \A i \in 1..(n * Len(s)) : ((i - 1) % Len(s)) + 1 \in 1..Len(s)
  <2> SUFFICES ASSUME NEW i \in 1..(n * Len(s)) PROVE ((i - 1) % Len(s)) + 1 \in 1..Len(s)  OBVIOUS
  <2>1. Len(s) > 0  OBVIOUS
  <2> QED BY <2>1
<1> QED BY <1>1, <1>2 DEF Connector!Each

LEMMA ConnectorParts ==
  ASSUME NEW S
  PROVE  /\ \A s, t \in Seq(S) : s \o t \in Seq(S)
         /\ \A s \in Seq(S) : \A cond : Connector!When(cond, s) \in Seq(S)
         /\ \A n \in Nat : \A s \in Seq(S) : Connector!Each(n, s) \in Seq(S)
BY ConnectorEach DEF Connector!When

LEMMA ConnectorApart ==
  /\ "startable" \notin ConnectorChecks /\ "drainable" \notin ConnectorChecks /\ "stoppable" \notin ConnectorChecks
  /\ "pool" \notin ConnectorChecks /\ "meter" \notin ConnectorChecks /\ "tracer" \notin ConnectorChecks
  /\ "runtime metrics" \notin ConnectorChecks
BY DEF ConnectorChecks

LEMMA ConnectorPlain == ASSUME NEW s \in Seq(ConnectorChecks) PROVE ConnectorSimple(s)
<1>1. \A x \in ConnectorChecks : x \notin ConnectorListed \ {"inflight"}  BY ConnectorApart DEF ConnectorListed
<1>2. \A i \in 1..Len(s) : s[i] \in ConnectorChecks  OBVIOUS
<1>3. s \in Seq(ConnectorChecks \cup ConnectorListed)  OBVIOUS
<1> QED BY <1>1, <1>2, <1>3 DEF ConnectorSimple

LEMMA ConnectorThen ==
  ASSUME NEW s \in Seq(ConnectorChecks), NEW t \in Seq(ConnectorListed)
  PROVE  ConnectorSimple(s \o t)
<1>1. \A x \in ConnectorChecks : x \notin ConnectorListed \ {"inflight"}  BY ConnectorApart DEF ConnectorListed
<1>2. \A i \in 1..Len(s \o t) : IF i <= Len(s) THEN (s \o t)[i] \in ConnectorChecks ELSE (s \o t)[i] \in ConnectorListed
  OBVIOUS
<1>3. s \o t \in Seq(ConnectorChecks \cup ConnectorListed) /\ Len(s) \in Nat /\ Len(s \o t) \in Nat  OBVIOUS
<1> QED BY <1>1, <1>2, <1>3 DEF ConnectorSimple

LEMMA ConnectorShared ==
  /\ Connector!TlsClient \in Seq(ConnectorChecks)
  /\ \A b : Connector!TlsServer(b) \in Seq(ConnectorChecks)
  /\ \A b : Connector!Source(b) \in Seq(ConnectorChecks)
  /\ \A b : b.receivers \in Nat => Connector!Register(b) \in Seq(ConnectorListed)
<1>1. <<"ca_cert file", "ca_cert certificates">> \in Seq(ConnectorChecks)  BY DEF ConnectorChecks
<1>2. <<"cert and key", "key pair">> \in Seq(ConnectorChecks)  BY DEF ConnectorChecks
<1>3. <<"cert or self_signed", "key", "serial", "certificate", "encoding", "pair">> \in Seq(ConnectorChecks)  BY
    DEF ConnectorChecks
<1>4. <<"cert given">> \in Seq(ConnectorChecks)  BY DEF ConnectorChecks
<1>5. <<"subscriber or action", "partitions need a queue", "key needs partitions", "subscriber", "transforms">>
    \in Seq(ConnectorChecks)  BY DEF ConnectorChecks
<1>6. <<"partition count", "partition key", "queue">> \in Seq(ConnectorChecks)  BY DEF ConnectorChecks
<1>7. Connector!CertPool \in Seq(ConnectorChecks) /\ Connector!KeyPair \in Seq(ConnectorChecks) /\ Connector!SelfSigned \in Seq(ConnectorChecks)
  BY <1>1, <1>2, <1>3, <1>4, <1>5, <1>6 DEF Connector!CertPool, Connector!KeyPair, Connector!SelfSigned
<1>8. \A b : Connector!TlsServer(b) \in Seq(ConnectorChecks) /\ Connector!Source(b) \in Seq(ConnectorChecks)
  BY Zenon, <1>1, <1>2, <1>3, <1>4, <1>5, <1>6, <1>7, ConnectorParts DEF Connector!TlsServer, Connector!Source
<1>9. <<"startable">> \in Seq(ConnectorListed) /\ <<"drainable">> \in Seq(ConnectorListed) /\ <<"stoppable">> \in Seq(ConnectorListed)
      /\ <<"inflight">> \in Seq(ConnectorListed)
  BY DEF ConnectorListed
<1>10. ASSUME NEW b, b.receivers \in Nat PROVE Connector!Register(b) \in Seq(ConnectorListed)
  BY Zenon, <1>10, <1>9, ConnectorParts DEF Connector!Register
<1> QED BY <1>7, <1>8, <1>10 DEF Connector!TlsClient

LEMMA ConnectorKafka == ASSUME NEW b, b.senders \in Nat, b.receivers \in Nat PROVE ConnectorSimple(Connector!Kafka(b))
<1>1. <<"password", "password type", "mechanism">> \in Seq(ConnectorChecks)  BY DEF ConnectorChecks
<1>2. <<"acks", "compression">> \in Seq(ConnectorChecks)  BY DEF ConnectorChecks
<1>3. <<"renamed", "decode", "brokers", "blocks", "unique senders", "unique receivers">> \in
    Seq(ConnectorChecks)  BY DEF ConnectorChecks
<1>4. <<"durations">> \in Seq(ConnectorChecks)  BY DEF ConnectorChecks
<1>5. <<"linger">> \in Seq(ConnectorChecks)  BY DEF ConnectorChecks
<1>6. <<"produce_mode", "topic transform">> \in Seq(ConnectorChecks)  BY DEF ConnectorChecks
<1>7. <<"group", "offset", "ack", "baggage">> \in Seq(ConnectorChecks)  BY DEF ConnectorChecks
<1>8. <<"subscriptions">> \in Seq(ConnectorChecks)  BY DEF ConnectorChecks
<1>9. <<"metrics", "tracing">> \in Seq(ConnectorChecks)  BY DEF ConnectorChecks
<1>10. <<"wire_format">> \in Seq(ConnectorChecks)  BY DEF ConnectorChecks
<1>11. Connector!KafkaSasl \in Seq(ConnectorChecks)
  BY Zenon, <1>1, <1>2, <1>3, <1>4, <1>5, <1>6, <1>7, <1>8, <1>9, <1>10, ConnectorShared, ConnectorParts DEF
     Connector!KafkaSasl
<1>12. Connector!KafkaAcks \in Seq(ConnectorChecks)
  BY Zenon, <1>1, <1>2, <1>3, <1>4, <1>5, <1>6, <1>7, <1>8, <1>9, <1>10, <1>11, ConnectorShared, ConnectorParts
     DEF Connector!KafkaAcks
<1>13. Connector!KafkaConnection(b) \in Seq(ConnectorChecks)
  BY Zenon, <1>1, <1>2, <1>3, <1>4, <1>5, <1>6, <1>7, <1>8, <1>9, <1>10, <1>11, <1>12, ConnectorShared,
     ConnectorParts DEF Connector!KafkaConnection
<1>14. Connector!KafkaSender \in Seq(ConnectorChecks)
  BY Zenon, <1>1, <1>2, <1>3, <1>4, <1>5, <1>6, <1>7, <1>8, <1>9, <1>10, <1>11, <1>12, <1>13, ConnectorShared,
     ConnectorParts DEF Connector!KafkaSender
<1>15. Connector!KafkaReceiver(b) \in Seq(ConnectorChecks)
  BY Zenon, <1>1, <1>2, <1>3, <1>4, <1>5, <1>6, <1>7, <1>8, <1>9, <1>10, <1>11, <1>12, <1>13, <1>14,
     ConnectorShared, ConnectorParts DEF Connector!KafkaReceiver
<1>16. Connector!KafkaConnection(b) \o Connector!Each(b.senders, Connector!KafkaSender) \o <<"metrics",
    "tracing">> \o Connector!Each(b.receivers, Connector!KafkaReceiver(b)) \o <<"wire_format">> \in
    Seq(ConnectorChecks)
  BY Zenon, <1>1, <1>2, <1>3, <1>4, <1>5, <1>6, <1>7, <1>8, <1>9, <1>10, <1>11, <1>12, <1>13, <1>14, <1>15,
     ConnectorShared, ConnectorParts
<1> QED BY <1>16, ConnectorShared, ConnectorThen DEF Connector!Kafka

LEMMA ConnectorRabbit == ASSUME NEW b, b.senders \in Nat, b.receivers \in Nat PROVE ConnectorSimple(Connector!Rabbit(b))
<1>1. <<"broker URL", "broker scheme">> \in Seq(ConnectorChecks)  BY DEF ConnectorChecks
<1>2. <<"unique senders", "unique receivers">> \in Seq(ConnectorChecks)  BY DEF ConnectorChecks
<1>3. <<"tls and scheme">> \in Seq(ConnectorChecks)  BY DEF ConnectorChecks
<1>4. <<"renamed", "decode", "brokers">> \in Seq(ConnectorChecks)  BY DEF ConnectorChecks
<1>5. <<"timeouts", "auth", "reconnect", "metrics", "tracing", "wire_format">> \in Seq(ConnectorChecks)  BY DEF
    ConnectorChecks
<1>6. <<"topic transform">> \in Seq(ConnectorChecks)  BY DEF ConnectorChecks
<1>7. <<"ack", "key transform", "baggage">> \in Seq(ConnectorChecks)  BY DEF ConnectorChecks
<1>8. Connector!RabbitBrokers \in Seq(ConnectorChecks)
  BY Zenon, <1>1, <1>2, <1>3, <1>4, <1>5, <1>6, <1>7, ConnectorShared, ConnectorParts DEF
     Connector!RabbitBrokers
<1>9. Connector!RabbitNames \in Seq(ConnectorChecks)
  BY Zenon, <1>1, <1>2, <1>3, <1>4, <1>5, <1>6, <1>7, <1>8, ConnectorShared, ConnectorParts DEF
     Connector!RabbitNames
<1>10. Connector!RabbitTls \in Seq(ConnectorChecks)
  BY Zenon, <1>1, <1>2, <1>3, <1>4, <1>5, <1>6, <1>7, <1>8, <1>9, ConnectorShared, ConnectorParts DEF
     Connector!RabbitTls
<1>11. Connector!RabbitConnection \in Seq(ConnectorChecks)
  BY Zenon, <1>1, <1>2, <1>3, <1>4, <1>5, <1>6, <1>7, <1>8, <1>9, <1>10, ConnectorShared, ConnectorParts DEF
     Connector!RabbitConnection
<1>12. Connector!RabbitSender \in Seq(ConnectorChecks)
  BY Zenon, <1>1, <1>2, <1>3, <1>4, <1>5, <1>6, <1>7, <1>8, <1>9, <1>10, <1>11, ConnectorShared, ConnectorParts
     DEF Connector!RabbitSender
<1>13. Connector!RabbitReceiver(b) \in Seq(ConnectorChecks)
  BY Zenon, <1>1, <1>2, <1>3, <1>4, <1>5, <1>6, <1>7, <1>8, <1>9, <1>10, <1>11, <1>12, ConnectorShared,
     ConnectorParts DEF Connector!RabbitReceiver
<1>14. Connector!RabbitConnection \o Connector!Each(b.senders, Connector!RabbitSender) \o
    Connector!Each(b.receivers, Connector!RabbitReceiver(b)) \in Seq(ConnectorChecks)
  BY Zenon, <1>1, <1>2, <1>3, <1>4, <1>5, <1>6, <1>7, <1>8, <1>9, <1>10, <1>11, <1>12, <1>13, ConnectorShared,
     ConnectorParts
<1> QED BY <1>14, ConnectorShared, ConnectorThen DEF Connector!Rabbit

LEMMA ConnectorMqtt == ASSUME NEW b, b.senders \in Nat, b.receivers \in Nat PROVE ConnectorSimple(Connector!Mqtt(b))
<1>1. <<"decode", "brokers", "blocks", "unique senders", "unique receivers", "broker URLs", "client_id">> \in
    Seq(ConnectorChecks)  BY DEF ConnectorChecks
<1>2. <<"durations", "auth">> \in Seq(ConnectorChecks)  BY DEF ConnectorChecks
<1>3. <<"will topic", "will payload", "reconnect", "metrics", "tracing", "wire_format">> \in
    Seq(ConnectorChecks)  BY DEF ConnectorChecks
<1>4. <<"topic transform">> \in Seq(ConnectorChecks)  BY DEF ConnectorChecks
<1>5. <<"baggage">> \in Seq(ConnectorChecks)  BY DEF ConnectorChecks
<1>6. <<"subscriptions">> \in Seq(ConnectorChecks)  BY DEF ConnectorChecks
<1>7. Connector!MqttConnection \in Seq(ConnectorChecks)
  BY Zenon, <1>1, <1>2, <1>3, <1>4, <1>5, <1>6, ConnectorShared, ConnectorParts DEF Connector!MqttConnection
<1>8. Connector!MqttSession \in Seq(ConnectorChecks)
  BY Zenon, <1>1, <1>2, <1>3, <1>4, <1>5, <1>6, <1>7, ConnectorShared, ConnectorParts DEF Connector!MqttSession
<1>9. Connector!MqttSender \in Seq(ConnectorChecks)
  BY Zenon, <1>1, <1>2, <1>3, <1>4, <1>5, <1>6, <1>7, <1>8, ConnectorShared, ConnectorParts DEF
     Connector!MqttSender
<1>10. Connector!MqttReceiver(b) \in Seq(ConnectorChecks)
  BY Zenon, <1>1, <1>2, <1>3, <1>4, <1>5, <1>6, <1>7, <1>8, <1>9, ConnectorShared, ConnectorParts DEF
     Connector!MqttReceiver
<1>11. Connector!MqttConnection \o Connector!MqttSession \o Connector!Each(b.senders, Connector!MqttSender) \o
    Connector!Each(b.receivers, Connector!MqttReceiver(b)) \in Seq(ConnectorChecks)
  BY Zenon, <1>1, <1>2, <1>3, <1>4, <1>5, <1>6, <1>7, <1>8, <1>9, <1>10, ConnectorShared, ConnectorParts
<1>12. <<"startable", "stoppable">> \in Seq(ConnectorListed)  BY DEF ConnectorListed
<1> QED BY <1>11, <1>12, ConnectorThen DEF Connector!Mqtt

LEMMA ConnectorRedisStream == ASSUME NEW b, b.senders \in Nat, b.receivers \in Nat PROVE ConnectorSimple(Connector!RedisStream(b))
<1>1. <<"duplicate", "transforms", "maxlen", "fields_mode">> \in Seq(ConnectorChecks)  BY DEF ConnectorChecks
<1>2. <<"duplicate", "baggage", "ack">> \in Seq(ConnectorChecks)  BY DEF ConnectorChecks
<1>3. <<"stream", "group", "consumer name", "batch", "block_timeout", "group_create", "fields_mode", "reclaim",
    "dead_letter", "inflight">> \in Seq(ConnectorChecks)  BY DEF ConnectorChecks
<1>4. <<"renamed", "decode", "connection", "blocks", "metrics", "tracing", "wire_format">> \in
    Seq(ConnectorChecks)  BY DEF ConnectorChecks
<1>5. Connector!RedisProducer \in Seq(ConnectorChecks)
  BY Zenon, <1>1, <1>2, <1>3, <1>4, ConnectorShared, ConnectorParts DEF Connector!RedisProducer
<1>6. Connector!RedisConsumer(b) \in Seq(ConnectorChecks)
  BY Zenon, <1>1, <1>2, <1>3, <1>4, <1>5, ConnectorShared, ConnectorParts DEF Connector!RedisConsumer
<1>7. <<"renamed", "decode", "connection", "blocks", "metrics", "tracing", "wire_format">> \o
    Connector!Each(b.senders, Connector!RedisProducer) \o Connector!Each(b.receivers,
    Connector!RedisConsumer(b)) \in Seq(ConnectorChecks)
  BY Zenon, <1>1, <1>2, <1>3, <1>4, <1>5, <1>6, ConnectorShared, ConnectorParts
<1>8. <<"startable", "drainable", "stoppable">> \in Seq(ConnectorListed)  BY DEF ConnectorListed
<1>9. Connector!When(b.receivers > 0, <<"startable", "drainable", "stoppable">>) \in Seq(ConnectorListed)  BY <1>8 DEF Connector!When
<1> QED BY <1>7, <1>9, ConnectorThen DEF Connector!RedisStream

LEMMA ConnectorRedisPubsub == ASSUME NEW b, b.senders \in Nat, b.receivers \in Nat PROVE ConnectorSimple(Connector!RedisPubsub(b))
<1>1. <<"duplicate", "transforms", "mappings">> \in Seq(ConnectorChecks)  BY DEF ConnectorChecks
<1>2. <<"duplicate">> \in Seq(ConnectorChecks)  BY DEF ConnectorChecks
<1>3. <<"subscriptions", "channel">> \in Seq(ConnectorChecks)  BY DEF ConnectorChecks
<1>4. <<"decode", "connection", "blocks", "metrics", "tracing", "wire_format">> \in Seq(ConnectorChecks)  BY DEF
    ConnectorChecks
<1>5. Connector!RedisPublisher \in Seq(ConnectorChecks)
  BY Zenon, <1>1, <1>2, <1>3, <1>4, ConnectorShared, ConnectorParts DEF Connector!RedisPublisher
<1>6. Connector!RedisSubscriber(b) \in Seq(ConnectorChecks)
  BY Zenon, <1>1, <1>2, <1>3, <1>4, <1>5, ConnectorShared, ConnectorParts DEF Connector!RedisSubscriber
<1>7. <<"decode", "connection", "blocks", "metrics", "tracing", "wire_format">> \o Connector!Each(b.senders,
    Connector!RedisPublisher) \o Connector!Each(b.receivers, Connector!RedisSubscriber(b)) \in
    Seq(ConnectorChecks)
  BY Zenon, <1>1, <1>2, <1>3, <1>4, <1>5, <1>6, ConnectorShared, ConnectorParts
<1>8. <<"startable", "stoppable">> \in Seq(ConnectorListed)  BY DEF ConnectorListed
<1>9. Connector!When(b.receivers > 0, <<"startable", "stoppable">>) \in Seq(ConnectorListed)  BY <1>8 DEF Connector!When
<1> QED BY <1>7, <1>9, ConnectorThen DEF Connector!RedisPubsub

LEMMA ConnectorSqsReceiver == ASSUME NEW b, b.senders \in Nat, b.receivers \in Nat PROVE ConnectorSimple(Connector!SqsReceiver(b))
<1>1. <<"renamed", "decode", "aws", "queue_url", "metrics", "tracing", "baggage", "ack">> \in
    Seq(ConnectorChecks)  BY DEF ConnectorChecks
<1>2. <<"wire_format", "wait_time", "visibility", "build">> \in Seq(ConnectorChecks)  BY DEF ConnectorChecks
<1>3. <<"renamed", "decode", "aws", "queue_url", "metrics", "tracing", "baggage", "ack">> \o Connector!Source(b)
    \o <<"wire_format", "wait_time", "visibility", "build">> \in Seq(ConnectorChecks)
  BY Zenon, <1>1, <1>2, ConnectorShared, ConnectorParts
<1> QED BY <1>3, ConnectorShared, ConnectorThen DEF Connector!SqsReceiver

LEMMA ConnectorSqsSender == ASSUME NEW b, b.senders \in Nat, b.receivers \in Nat PROVE ConnectorSimple(Connector!SqsSender)
BY DEF ConnectorSimple, ConnectorChecks, ConnectorListed, Connector!Effects, Connector!SqsSender

LEMMA ConnectorSnsSender == ASSUME NEW b, b.senders \in Nat, b.receivers \in Nat PROVE ConnectorSimple(Connector!SnsSender)
BY DEF ConnectorSimple, ConnectorChecks, ConnectorListed, Connector!Effects, Connector!SnsSender

LEMMA ConnectorRedisKV == ASSUME NEW b, b.senders \in Nat, b.receivers \in Nat PROVE ConnectorSimple(Connector!RedisKV)
<1>1. <<"decode", "connection", "wire_format", "ttl", "metrics">> \in Seq(ConnectorChecks)  BY DEF
    ConnectorChecks
<1>2. <<"decode", "connection", "wire_format", "ttl", "metrics">> \in Seq(ConnectorChecks)
  BY Zenon, <1>1, ConnectorShared, ConnectorParts
<1> QED BY <1>2, ConnectorPlain DEF Connector!RedisKV

LEMMA ConnectorSql == ASSUME NEW b, b.senders \in Nat, b.receivers \in Nat PROVE ConnectorSimple(Connector!Sql(b))
<1>1. <<"duplicate", "cardinality", "on_zero", "timeout">> \in Seq(ConnectorChecks)  BY DEF ConnectorChecks
<1>2. <<"decode", "dialect", "durations">> \in Seq(ConnectorChecks)  BY DEF ConnectorChecks
<1>3. Connector!SqlQuery \in Seq(ConnectorChecks)
  BY Zenon, <1>1, <1>2, ConnectorShared, ConnectorParts DEF Connector!SqlQuery
<1>4. <<"decode", "dialect", "durations">> \o Connector!Each(b.receivers, Connector!SqlQuery) \in
    Seq(ConnectorChecks)
  BY Zenon, <1>1, <1>2, <1>3, ConnectorShared, ConnectorParts
<1>5. <<"startable", "stoppable">> \in Seq(ConnectorListed)  BY DEF ConnectorListed
<1> QED BY <1>4, <1>5, ConnectorThen DEF Connector!Sql

LEMMA ConnectorVwsClient == ASSUME NEW b, b.senders \in Nat, b.receivers \in Nat PROVE ConnectorSimple(Connector!VwsClient)
<1>1. <<"decode", "duplicate", "dial_timeout", "reconnect">> \in Seq(ConnectorChecks)  BY DEF ConnectorChecks
<1>2. <<"decode", "duplicate", "dial_timeout", "reconnect">> \in Seq(ConnectorChecks)
  BY Zenon, <1>1, ConnectorShared, ConnectorParts
<1> QED BY <1>2, ConnectorPlain DEF Connector!VwsClient

LEMMA ConnectorOpenAI == ASSUME NEW b, b.senders \in Nat, b.receivers \in Nat PROVE ConnectorSimple(Connector!OpenAI)
<1>1. <<"decode", "base_url", "tracing", "metrics", "timeout">> \in Seq(ConnectorChecks)  BY DEF ConnectorChecks
<1>2. <<"decode", "base_url", "tracing", "metrics", "timeout">> \in Seq(ConnectorChecks)
  BY Zenon, <1>1, ConnectorShared, ConnectorParts
<1> QED BY <1>2, ConnectorPlain DEF Connector!OpenAI

LEMMA ConnectorAws == ASSUME NEW b, b.senders \in Nat, b.receivers \in Nat PROVE ConnectorSimple(Connector!Aws)
<1>1. <<"access key", "secret key", "session token", "endpoint", "load">> \in Seq(ConnectorChecks)  BY DEF
    ConnectorChecks
<1>2. <<"decode">> \in Seq(ConnectorChecks)  BY DEF ConnectorChecks
<1>3. Connector!AwsConfig \in Seq(ConnectorChecks)
  BY Zenon, <1>1, <1>2, ConnectorShared, ConnectorParts DEF Connector!AwsConfig
<1>4. <<"decode">> \o Connector!AwsConfig \in Seq(ConnectorChecks)
  BY Zenon, <1>1, <1>2, <1>3, ConnectorShared, ConnectorParts
<1> QED BY <1>4, ConnectorPlain DEF Connector!Aws

LEMMA ConnectorHttp == ASSUME NEW b, b.senders \in Nat, b.receivers \in Nat PROVE ConnectorSimple(Connector!Http)
<1>1. <<"max_attempts", "initial_delay", "max_delay", "backoff_factor", "retry_on">> \in Seq(ConnectorChecks)
    BY DEF ConnectorChecks
<1>2. <<"decode", "base_url", "headers">> \in Seq(ConnectorChecks)  BY DEF ConnectorChecks
<1>3. <<"redirects", "timeout">> \in Seq(ConnectorChecks)  BY DEF ConnectorChecks
<1>4. <<"auth lifetime", "auth failures", "auth backoff", "cookies", "tracing", "metrics">> \in
    Seq(ConnectorChecks)  BY DEF ConnectorChecks
<1>5. Connector!HttpRetry \in Seq(ConnectorChecks)
  BY Zenon, <1>1, <1>2, <1>3, <1>4, ConnectorShared, ConnectorParts DEF Connector!HttpRetry
<1>6. <<"decode", "base_url", "headers">> \o Connector!TlsClient \o <<"redirects", "timeout">> \o
    Connector!HttpRetry \o <<"auth lifetime", "auth failures", "auth backoff", "cookies", "tracing", "metrics">>
    \in Seq(ConnectorChecks)
  BY Zenon, <1>1, <1>2, <1>3, <1>4, <1>5, ConnectorShared, ConnectorParts
<1> QED BY <1>6, ConnectorPlain DEF Connector!Http

LEMMA ConnectorHttpServer == ASSUME NEW b, b.senders \in Nat, b.receivers \in Nat PROVE ConnectorSimple(Connector!HttpServer(b))
<1>1. <<"pattern", "method", "base directory", "route auth", "mux">> \in Seq(ConnectorChecks)  BY DEF
    ConnectorChecks
<1>2. <<"action or handler", "route auth", "handler", "mux">> \in Seq(ConnectorChecks)  BY DEF ConnectorChecks
<1>3. <<"decode", "auth", "baggage", "duplicate", "tracing", "metrics", "real_ip", "shutdown_timeout",
    "external_url">> \in Seq(ConnectorChecks)  BY DEF ConnectorChecks
<1>4. <<"auth routes", "auth mux", "health">> \in Seq(ConnectorChecks)  BY DEF ConnectorChecks
<1>5. Connector!FilesRoute \in Seq(ConnectorChecks)
  BY Zenon, <1>1, <1>2, <1>3, <1>4, ConnectorShared, ConnectorParts DEF Connector!FilesRoute
<1>6. Connector!HandleRoute \in Seq(ConnectorChecks)
  BY Zenon, <1>1, <1>2, <1>3, <1>4, <1>5, ConnectorShared, ConnectorParts DEF Connector!HandleRoute
<1>7. <<"decode", "auth", "baggage", "duplicate", "tracing", "metrics", "real_ip", "shutdown_timeout",
    "external_url">> \o Connector!Each(b.senders, Connector!FilesRoute) \o Connector!Each(b.receivers,
    Connector!HandleRoute) \o <<"auth routes", "auth mux", "health">> \o Connector!TlsServer(b) \in
    Seq(ConnectorChecks)
  BY Zenon, <1>1, <1>2, <1>3, <1>4, <1>5, <1>6, ConnectorShared, ConnectorParts
<1>8. <<"startable", "drainable">> \in Seq(ConnectorListed)  BY DEF ConnectorListed
<1> QED BY <1>7, <1>8, ConnectorThen DEF Connector!HttpServer

LEMMA ConnectorMcpServer == ASSUME NEW b, b.senders \in Nat, b.receivers \in Nat PROVE ConnectorSimple(Connector!McpServer)
<1>1. <<"resource action", "resource URI">> \in Seq(ConnectorChecks)  BY DEF ConnectorChecks
<1>2. <<"param type", "param default", "param enum">> \in Seq(ConnectorChecks)  BY DEF ConnectorChecks
<1>3. <<"tool action">> \in Seq(ConnectorChecks)  BY DEF ConnectorChecks
<1>4. <<"prompt action">> \in Seq(ConnectorChecks)  BY DEF ConnectorChecks
<1>5. <<"decode">> \in Seq(ConnectorChecks)  BY DEF ConnectorChecks
<1>6. <<"tracing", "metrics", "build">> \in Seq(ConnectorChecks)  BY DEF ConnectorChecks
<1>7. Connector!McpResources \in Seq(ConnectorChecks)
  BY Zenon, <1>1, <1>2, <1>3, <1>4, <1>5, <1>6, ConnectorShared, ConnectorParts DEF Connector!McpResources
<1>8. Connector!McpParams \in Seq(ConnectorChecks)
  BY Zenon, <1>1, <1>2, <1>3, <1>4, <1>5, <1>6, <1>7, ConnectorShared, ConnectorParts DEF Connector!McpParams
<1>9. Connector!McpTools \in Seq(ConnectorChecks)
  BY Zenon, <1>1, <1>2, <1>3, <1>4, <1>5, <1>6, <1>7, <1>8, ConnectorShared, ConnectorParts DEF
     Connector!McpTools
<1>10. Connector!McpPrompts \in Seq(ConnectorChecks)
  BY Zenon, <1>1, <1>2, <1>3, <1>4, <1>5, <1>6, <1>7, <1>8, <1>9, ConnectorShared, ConnectorParts DEF
     Connector!McpPrompts
<1>11. <<"decode">> \o Connector!McpResources \o Connector!McpTools \o Connector!McpPrompts \o <<"tracing",
    "metrics", "build">> \in Seq(ConnectorChecks)
  BY Zenon, <1>1, <1>2, <1>3, <1>4, <1>5, <1>6, <1>7, <1>8, <1>9, <1>10, ConnectorShared, ConnectorParts
<1> QED BY <1>11, ConnectorPlain DEF Connector!McpServer

LEMMA ConnectorVwsServer == ASSUME NEW b, b.senders \in Nat, b.receivers \in Nat PROVE ConnectorSimple(Connector!VwsServer)
BY DEF ConnectorSimple, ConnectorChecks, ConnectorListed, Connector!Effects, Connector!VwsServer

LEMMA ConnectorWebsocketServer == ASSUME NEW b, b.senders \in Nat, b.receivers \in Nat PROVE ConnectorSimple(Connector!WebsocketServer)
BY DEF ConnectorSimple, ConnectorChecks, ConnectorListed, Connector!Effects, Connector!WebsocketServer

LEMMA ConnectorWiden == ASSUME NEW S, NEW T, S \subseteq T, NEW s \in Seq(S) PROVE s \in Seq(T) /\ \A i \in 1..Len(s) : s[i] \in S
OBVIOUS

LEMMA ConnectorJoin ==
  ASSUME NEW S, NEW T, NEW s \in Seq(S), NEW t \in Seq(T)
  PROVE  /\ s \o t \in Seq(S \cup T) /\ Len(s) \in Nat /\ Len(t) \in Nat /\ Len(s \o t) = Len(s) + Len(t)
         /\ \A k \in 1..Len(t) : (s \o t)[Len(s) + k] = t[k]
OBVIOUS

LEMMA ConnectorAt ==
  ASSUME NEW S, NEW T, NEW s \in Seq(S), NEW t \in Seq(T), NEW k \in 1..Len(t)
  PROVE  (s \o t)[Len(s) + k] = t[k] /\ Len(s) \in Nat /\ Len(s \o t) = Len(s) + Len(t)
OBVIOUS

LEMMA ConnectorBefore ==
  ASSUME NEW V, NEW s \in Seq(V), V \cap ConnectorHeld = {}, NEW T, NEW t \in Seq(T), ConnectorSorted(t)
  PROVE  ConnectorSorted(s \o t)
<1> SUFFICES ASSUME NEW i \in 1..Len(s \o t), NEW j \in 1..Len(s \o t), i < j, (s \o t)[i] \in ConnectorHeld
             PROVE  (s \o t)[j] \in Connector!Effects
  BY DEF ConnectorSorted
<1>1. Len(s) \in Nat /\ Len(t) \in Nat /\ Len(s \o t) = Len(s) + Len(t)  OBVIOUS
<1>2. i > Len(s)  OBVIOUS
<1>3. i - Len(s) \in 1..Len(t) /\ j - Len(s) \in 1..Len(t) /\ (s \o t)[i] = t[i - Len(s)] /\ (s \o t)[j] = t[j - Len(s)]
  BY <1>1, <1>2
<1> QED BY <1>1, <1>3 DEF ConnectorSorted

LEMMA ConnectorAfter ==
  ASSUME NEW V, NEW s \in Seq(V), ConnectorSorted(s), NEW t \in Seq(Connector!Effects)
  PROVE  ConnectorSorted(s \o t)
<1> SUFFICES ASSUME NEW i \in 1..Len(s \o t), NEW j \in 1..Len(s \o t), i < j, (s \o t)[i] \in ConnectorHeld
             PROVE  (s \o t)[j] \in Connector!Effects
  BY DEF ConnectorSorted
<1>1. Len(s) \in Nat /\ Len(t) \in Nat /\ Len(s \o t) = Len(s) + Len(t)  OBVIOUS
<1>2. CASE j > Len(s)
  <2>1. j - Len(s) \in 1..Len(t) /\ (s \o t)[j] = t[j - Len(s)]  BY <1>1, <1>2
  <2> QED BY <2>1
<1>3. CASE j <= Len(s)
  <2>1. i \in 1..Len(s) /\ j \in 1..Len(s) /\ (s \o t)[i] = s[i] /\ (s \o t)[j] = s[j]  BY <1>1, <1>3
  <2> QED BY <2>1 DEF ConnectorSorted
<1> QED BY <1>1, <1>2, <1>3

\* What the order of a processor's steps says.
ConnectorOrder(s) ==
  /\ s \in Seq(ConnectorChecks \cup Connector!Effects) /\ ConnectorSorted(s)
  /\ (\E i \in 1..Len(s) : s[i] \in {"pool", "meter", "tracer"}) => \E j \in 1..Len(s) : s[j] = "stoppable"

LEMMA ConnectorSimply == ASSUME NEW s, ConnectorSimple(s) PROVE ConnectorOrder(s) /\ \A i \in 1..Len(s) : s[i] # "runtime metrics"
<1>1. s \in Seq(ConnectorChecks \cup ConnectorListed) /\ \A i \in 1..Len(s) : s[i] \in ConnectorChecks \cup ConnectorListed
  BY DEF ConnectorSimple
<1>2. \A x \in ConnectorChecks \cup ConnectorListed : x \notin {"pool", "meter", "tracer", "runtime metrics"}
  BY ConnectorApart DEF ConnectorListed
<1>3. ConnectorListed \subseteq Connector!Effects  BY DEF ConnectorListed, Connector!Effects
<1>4. ConnectorSorted(s)
  <2>1. \A x \in ConnectorChecks \cup ConnectorListed : x \in ConnectorHeld => x \in ConnectorListed \ {"inflight"}
    BY <1>2, ConnectorApart DEF ConnectorHeld, ConnectorListed
  <2> QED BY <1>1, <1>3, <2>1 DEF ConnectorSorted, ConnectorSimple
<1>5. s \in Seq(ConnectorChecks \cup Connector!Effects)  BY <1>1, <1>3
<1> QED BY <1>1, <1>2, <1>4, <1>5 DEF ConnectorOrder

LEMMA ConnectorRedis == ConnectorOrder(Connector!Redis) /\ \A i \in 1..Len(Connector!Redis) : Connector!Redis[i] # "runtime metrics"
<1> DEFINE s == <<"decode">> \o Connector!RedisMode \o Connector!TlsClient
           t == <<"passwords", "dial_timeout", "pool", "startable", "stoppable">>
           T == {"passwords", "dial_timeout", "pool", "startable", "stoppable"}
<1>1. <<"decode">> \in Seq(ConnectorChecks)  BY DEF ConnectorChecks
<1>2. Connector!RedisMode \in Seq(ConnectorChecks)  BY DEF ConnectorChecks, Connector!RedisMode
<1>3. s \in Seq(ConnectorChecks)  BY Zenon, <1>1, <1>2, ConnectorShared, ConnectorParts
<1>4. t \in Seq(T) /\ Len(t) = 5 /\ t[1] = "passwords" /\ t[2] = "dial_timeout" /\ t[3] = "pool" /\ t[4] = "startable" /\ t[5] = "stoppable"
  OBVIOUS
<1>5. T \subseteq ConnectorChecks \cup Connector!Effects  BY DEF ConnectorChecks, Connector!Effects
<1>r. "runtime metrics" \notin T  OBVIOUS
<1>6. Connector!Redis = s \o t  BY DEF Connector!Redis
<1> HIDE DEF s, t, T
<1>7. ConnectorSorted(t)
  <2>1. t[1] \notin ConnectorHeld /\ t[2] \notin ConnectorHeld  BY <1>4 DEF ConnectorHeld
  <2>2. t[3] \in Connector!Effects /\ t[4] \in Connector!Effects /\ t[5] \in Connector!Effects  BY <1>4 DEF Connector!Effects
  <2>3. \A i \in 1..5 : i = 1 \/ i = 2 \/ i >= 3  OBVIOUS
  <2>4. \A i \in 1..5 : i >= 3 => t[i] \in Connector!Effects
    <3>1. \A i \in 1..5 : i >= 3 => i = 3 \/ i = 4 \/ i = 5  OBVIOUS
    <3> QED BY <2>2, <3>1
  <2> QED BY <1>4, <2>1, <2>3, <2>4 DEF ConnectorSorted
<1>8. ConnectorSorted(s \o t)
  <2>1. ConnectorChecks \cap ConnectorHeld = {}  BY ConnectorApart DEF ConnectorHeld
  <2> QED BY <1>3, <1>4, <1>7, <2>1, ConnectorBefore
<1>9. Len(s) \in Nat /\ Len(s \o t) = Len(s) + 5 /\ (s \o t)[Len(s) + 5] = "stoppable"
  <2>1. t \in Seq(T) /\ 5 \in 1..Len(t)  BY <1>4
  <2>2. (s \o t)[Len(s) + 5] = t[5] /\ Len(s) \in Nat /\ Len(s \o t) = Len(s) + Len(t)  BY Zenon, <1>3, <2>1, ConnectorAt
  <2> QED BY <2>2, <1>4
<1>10. s \o t \in Seq(ConnectorChecks \cup T)  BY <1>3, <1>4, ConnectorJoin
<1>11. \A i \in 1..Len(s \o t) : (s \o t)[i] # "runtime metrics"
  <2>1. \A x \in ConnectorChecks \cup T : x # "runtime metrics"  BY <1>r, ConnectorApart
  <2>2. \A i \in 1..Len(s \o t) : (s \o t)[i] \in ConnectorChecks \cup T  BY <1>10, ConnectorWiden
  <2> QED BY <2>1, <2>2
<1>12. s \o t \in Seq(ConnectorChecks \cup Connector!Effects)
  <2>1. ConnectorChecks \cup T \subseteq ConnectorChecks \cup Connector!Effects  BY <1>5
  <2> QED BY <1>10, <2>1, ConnectorWiden
<1>13. \E j \in 1..Len(s \o t) : (s \o t)[j] = "stoppable"
  <2>1. Len(s) + 5 \in 1..Len(s \o t)  BY <1>9
  <2> QED BY <1>9, <2>1
<1> QED BY <1>6, <1>8, <1>11, <1>12, <1>13 DEF ConnectorOrder

LEMMA ConnectorOtlp == ConnectorOrder(Connector!Otlp) /\ \A i \in 1..Len(Connector!Otlp) : Connector!Otlp[i] # "runtime metrics"
<1> DEFINE a == <<"decode", "headers", "record_baggage", "metric_interval">>
           s == Connector!TlsClient
           t == <<"trace exporter", "tracer", "metric exporter", "meter">>
           T == {"trace exporter", "tracer", "metric exporter", "meter"}
           u == <<"startable", "stoppable">>
<1>1. a \in Seq(ConnectorChecks)  BY DEF ConnectorChecks
<1>2. s \in Seq(ConnectorChecks)  BY ConnectorShared
<1>3. u \in Seq({"startable", "stoppable"}) /\ Len(u) = 2 /\ u[2] = "stoppable"  OBVIOUS
<1>4. t \in Seq(T) /\ Len(t) = 4 /\ t[1] = "trace exporter" /\ t[2] = "tracer" /\ t[3] = "metric exporter" /\ t[4] = "meter"
  OBVIOUS
<1>5. T \subseteq ConnectorChecks \cup Connector!Effects /\ {"startable", "stoppable"} \subseteq Connector!Effects
  BY DEF ConnectorChecks, Connector!Effects
<1>r. "runtime metrics" \notin T \cup {"startable", "stoppable"}  OBVIOUS
<1>6. Connector!Otlp = (a \o (s \o t)) \o u  BY DEF Connector!Otlp, Connector!OtlpProviders
<1> HIDE DEF a, s, t, T, u
<1>7. ConnectorSorted(t)
  <2>1. \A i \in 1..4 : i = 1 \/ i = 2 \/ i = 3 \/ i = 4  OBVIOUS
  <2>2. t[1] \notin ConnectorHeld /\ t[2] \notin ConnectorHeld /\ t[3] \notin ConnectorHeld  BY <1>4 DEF ConnectorHeld
  <2>3. \A i, j \in 1..4 : i < j => t[i] \notin ConnectorHeld  BY <2>1, <2>2
  <2> QED BY <1>4, <2>3 DEF ConnectorSorted
<1>c. ConnectorChecks \cap ConnectorHeld = {}  BY ConnectorApart DEF ConnectorHeld
<1>8. ConnectorSorted(s \o t) /\ s \o t \in Seq(ConnectorChecks \cup T)
  <2>1. ConnectorSorted(s \o t)  BY <1>2, <1>4, <1>7, <1>c, ConnectorBefore
  <2> QED BY <1>2, <1>4, <2>1, ConnectorJoin
<1>9. ConnectorSorted(a \o (s \o t)) /\ a \o (s \o t) \in Seq(ConnectorChecks \cup T)
  <2> DEFINE v == s \o t
  <2>1. v \in Seq(ConnectorChecks \cup T) /\ ConnectorSorted(v)  BY <1>8
  <2> HIDE DEF v
  <2>2. ConnectorSorted(a \o v)  BY <1>1, <1>c, <2>1, ConnectorBefore
  <2>3. a \o v \in Seq(ConnectorChecks \cup (ConnectorChecks \cup T))  BY <1>1, <2>1, ConnectorJoin
  <2>4. ConnectorChecks \cup (ConnectorChecks \cup T) = ConnectorChecks \cup T  OBVIOUS
  <2> QED BY <2>2, <2>3, <2>4 DEF v
<1>u. u \in Seq(Connector!Effects)  BY <1>3, <1>5
<1> DEFINE w == a \o (s \o t)
<1>10. w \in Seq(ConnectorChecks \cup T) /\ ConnectorSorted(w)  BY <1>9
<1>11. Connector!Otlp = w \o u  BY <1>6
<1> HIDE DEF w
<1>12. ConnectorSorted(w \o u)  BY <1>10, <1>u, ConnectorAfter
<1>13. Len(w) \in Nat /\ Len(w \o u) = Len(w) + 2 /\ (w \o u)[Len(w) + 2] = "stoppable"
  <2>1. \A k \in 1..Len(u) : (w \o u)[Len(w) + k] = u[k]  BY <1>10, <1>3, ConnectorJoin
  <2>2. 2 \in 1..Len(u)  BY <1>10, <1>3
  <2> QED BY <2>1, <2>2, <1>10, <1>3, ConnectorJoin
<1>14. w \o u \in Seq(ConnectorChecks \cup T \cup {"startable", "stoppable"})  BY <1>10, <1>3, ConnectorJoin
<1>15. \A i \in 1..Len(w \o u) : (w \o u)[i] # "runtime metrics"
  <2>1. \A x \in ConnectorChecks \cup T \cup {"startable", "stoppable"} : x # "runtime metrics"  BY <1>r, ConnectorApart
  <2>2. \A i \in 1..Len(w \o u) : (w \o u)[i] \in ConnectorChecks \cup T \cup {"startable", "stoppable"}  BY <1>14, ConnectorWiden
  <2> QED BY <2>1, <2>2
<1>16. w \o u \in Seq(ConnectorChecks \cup Connector!Effects)
  <2>1. ConnectorChecks \cup T \cup {"startable", "stoppable"} \subseteq ConnectorChecks \cup Connector!Effects  BY <1>5
  <2> QED BY <1>14, <2>1, ConnectorWiden
<1>17. \E j \in 1..Len(w \o u) : (w \o u)[j] = "stoppable"
  <2>1. Len(w) + 2 \in 1..Len(w \o u)  BY <1>13
  <2> QED BY <1>13, <2>1
<1> QED BY <1>11, <1>12, <1>15, <1>16, <1>17 DEF ConnectorOrder

LEMMA ConnectorMetrics == ASSUME NEW b PROVE ConnectorOrder(Connector!MetricsServer(b))
<1> DEFINE C == ConnectorChecks \cup {"runtime metrics"}
           t == Connector!When(b.senders > 0, <<"startable", "drainable">>)
           s == <<"decode">> \o Connector!TlsServer(b) \o <<"auth", "tracing", "shutdown_timeout", "exporter", "runtime metrics">>
           L == {"startable", "drainable"}
<1>1. <<"decode">> \in Seq(C)  BY DEF ConnectorChecks
<1>2. <<"auth", "tracing", "shutdown_timeout", "exporter", "runtime metrics">> \in Seq(C)  BY DEF ConnectorChecks
<1>3. Connector!TlsServer(b) \in Seq(C)
  <2>1. Connector!TlsServer(b) \in Seq(ConnectorChecks)  BY ConnectorShared
  <2>2. ConnectorChecks \subseteq C  OBVIOUS
  <2> HIDE DEF C
  <2> QED BY <2>1, <2>2, ConnectorWiden
<1>4. s \in Seq(C)
  <2> HIDE DEF C
  <2> QED BY Zenon, <1>1, <1>2, <1>3, ConnectorParts DEF s
<1>5. t \in Seq(L)
  <2>1. <<"startable", "drainable">> \in Seq(L)  OBVIOUS
  <2> QED BY Zenon, <2>1, ConnectorParts
<1>6. Connector!MetricsServer(b) = s \o t  BY DEF Connector!MetricsServer
<1>7. L \subseteq Connector!Effects /\ C \subseteq ConnectorChecks \cup Connector!Effects  BY DEF Connector!Effects
<1>8. C \cap ConnectorHeld = {}  BY ConnectorApart DEF ConnectorHeld
<1>9. \A x \in C \cup L : x \notin {"pool", "meter", "tracer"}  BY ConnectorApart
<1> HIDE DEF s, t, C, L
<1>10. ConnectorSorted(t)  BY <1>5, <1>7 DEF ConnectorSorted
<1>11. ConnectorSorted(s \o t)  BY <1>4, <1>5, <1>8, <1>10, ConnectorBefore
<1>12. s \o t \in Seq(C \cup L)  BY <1>4, <1>5, ConnectorJoin
<1>13. s \o t \in Seq(ConnectorChecks \cup Connector!Effects)
  <2>1. C \cup L \subseteq ConnectorChecks \cup Connector!Effects  BY <1>7
  <2> QED BY <1>12, <2>1, ConnectorWiden
<1>14. \A i \in 1..Len(s \o t) : (s \o t)[i] \notin {"pool", "meter", "tracer"}
  <2>1. \A i \in 1..Len(s \o t) : (s \o t)[i] \in C \cup L  BY <1>12, ConnectorWiden
  <2> QED BY <1>9, <2>1
<1> QED BY <1>6, <1>11, <1>13, <1>14 DEF ConnectorOrder

LEMMA ConnectorSteps ==
  ASSUME ConnectorOK, NEW b \in Connector!Blocks
  PROVE  /\ ConnectorOrder(Connector!Steps(b))
         /\ b.kind # "server metrics" => \A i \in 1..Len(Connector!Steps(b)) : Connector!Steps(b)[i] # "runtime metrics"
<1>1. b.senders \in Nat /\ b.receivers \in Nat /\ b.kind \in ConnectorKnown
  <2>1. b \in [kind : ConnectorKinds, senders : 0..MaxSenders, receivers : 0..MaxReceivers, queue : BOOLEAN, selfSigned : BOOLEAN]
    BY DEF Connector!Blocks
  <2> HIDE DEF ConnectorKnown
  <2> QED BY <2>1 DEF ConnectorOK
<1>2. CASE b.kind = "kafka"
  <2>1. Connector!Steps(b) = Connector!Kafka(b)  BY <1>2 DEF Connector!Steps
  <2> QED BY <1>1, <1>2, <2>1, ConnectorKafka, ConnectorSimply
<1>3. CASE b.kind = "rabbitmq"
  <2>1. Connector!Steps(b) = Connector!Rabbit(b)  BY <1>3 DEF Connector!Steps
  <2> QED BY <1>1, <1>3, <2>1, ConnectorRabbit, ConnectorSimply
<1>4. CASE b.kind = "mqtt"
  <2>1. Connector!Steps(b) = Connector!Mqtt(b)  BY <1>4 DEF Connector!Steps
  <2> QED BY <1>1, <1>4, <2>1, ConnectorMqtt, ConnectorSimply
<1>5. CASE b.kind = "redis_stream"
  <2>1. Connector!Steps(b) = Connector!RedisStream(b)  BY <1>5 DEF Connector!Steps
  <2> QED BY <1>1, <1>5, <2>1, ConnectorRedisStream, ConnectorSimply
<1>6. CASE b.kind = "redis_pubsub"
  <2>1. Connector!Steps(b) = Connector!RedisPubsub(b)  BY <1>6 DEF Connector!Steps
  <2> QED BY <1>1, <1>6, <2>1, ConnectorRedisPubsub, ConnectorSimply
<1>7. CASE b.kind = "sqs_receiver"
  <2>1. Connector!Steps(b) = Connector!SqsReceiver(b)  BY <1>7 DEF Connector!Steps
  <2> QED BY <1>1, <1>7, <2>1, ConnectorSqsReceiver, ConnectorSimply
<1>8. CASE b.kind = "sqs_sender"
  <2>1. Connector!Steps(b) = Connector!SqsSender  BY <1>8 DEF Connector!Steps
  <2> QED BY <1>1, <1>8, <2>1, ConnectorSqsSender, ConnectorSimply
<1>9. CASE b.kind = "sns_sender"
  <2>1. Connector!Steps(b) = Connector!SnsSender  BY <1>9 DEF Connector!Steps
  <2> QED BY <1>1, <1>9, <2>1, ConnectorSnsSender, ConnectorSimply
<1>10. CASE b.kind = "redis_kv"
  <2>1. Connector!Steps(b) = Connector!RedisKV  BY <1>10 DEF Connector!Steps
  <2> QED BY <1>1, <1>10, <2>1, ConnectorRedisKV, ConnectorSimply
<1>11. CASE b.kind = "sql"
  <2>1. Connector!Steps(b) = Connector!Sql(b)  BY <1>11 DEF Connector!Steps
  <2> QED BY <1>1, <1>11, <2>1, ConnectorSql, ConnectorSimply
<1>12. CASE b.kind = "vws"
  <2>1. Connector!Steps(b) = Connector!VwsClient  BY <1>12 DEF Connector!Steps
  <2> QED BY <1>1, <1>12, <2>1, ConnectorVwsClient, ConnectorSimply
<1>13. CASE b.kind = "openai"
  <2>1. Connector!Steps(b) = Connector!OpenAI  BY <1>13 DEF Connector!Steps
  <2> QED BY <1>1, <1>13, <2>1, ConnectorOpenAI, ConnectorSimply
<1>14. CASE b.kind = "aws"
  <2>1. Connector!Steps(b) = Connector!Aws  BY <1>14 DEF Connector!Steps
  <2> QED BY <1>1, <1>14, <2>1, ConnectorAws, ConnectorSimply
<1>15. CASE b.kind = "http"
  <2>1. Connector!Steps(b) = Connector!Http  BY <1>15 DEF Connector!Steps
  <2> QED BY <1>1, <1>15, <2>1, ConnectorHttp, ConnectorSimply
<1>16. CASE b.kind = "server http"
  <2>1. Connector!Steps(b) = Connector!HttpServer(b)  BY <1>16 DEF Connector!Steps
  <2> QED BY <1>1, <1>16, <2>1, ConnectorHttpServer, ConnectorSimply
<1>17. CASE b.kind = "server mcp"
  <2>1. Connector!Steps(b) = Connector!McpServer  BY <1>17 DEF Connector!Steps
  <2> QED BY <1>1, <1>17, <2>1, ConnectorMcpServer, ConnectorSimply
<1>18. CASE b.kind = "server vws"
  <2>1. Connector!Steps(b) = Connector!VwsServer  BY <1>18 DEF Connector!Steps
  <2> QED BY <1>1, <1>18, <2>1, ConnectorVwsServer, ConnectorSimply
<1>19. CASE b.kind = "server websocket"
  <2>1. Connector!Steps(b) = Connector!WebsocketServer  BY <1>19 DEF Connector!Steps
  <2> QED BY <1>1, <1>19, <2>1, ConnectorWebsocketServer, ConnectorSimply
<1>20. CASE b.kind = "redis"
  <2>1. Connector!Steps(b) = Connector!Redis  BY <1>20 DEF Connector!Steps
  <2> QED BY <1>1, <1>20, <2>1, ConnectorRedis
<1>21. CASE b.kind = "otlp"
  <2>1. Connector!Steps(b) = Connector!Otlp  BY <1>21 DEF Connector!Steps
  <2> QED BY <1>1, <1>21, <2>1, ConnectorOtlp
<1>22. CASE b.kind = "server metrics"
  <2>1. Connector!Steps(b) = Connector!MetricsServer(b)  BY <1>22 DEF Connector!Steps
  <2> QED BY <1>1, <1>22, <2>1, ConnectorMetrics
<1> QED BY <1>1, <1>2, <1>3, <1>4, <1>5, <1>6, <1>7, <1>8, <1>9, <1>10, <1>11, <1>12, <1>13, <1>14, <1>15,
     <1>16, <1>17, <1>18, <1>19, <1>20, <1>21, <1>22 DEF ConnectorKnown

\* The states, with s the steps of the block.
ConnectorNow(s, p, l, ph) ==
  /\ p \in 1..(Len(s) + 1) /\ l \in [Connector!Effects -> Nat]
  /\ ph \in {"processing", "refused", "accepted", "built", "discarded"}
  /\ ph # "discarded" => \A e \in Connector!Effects : l[e] > 0 <=> \E i \in 1..(p - 1) : s[i] = e
  /\ ph = "refused" => p <= Len(s) /\ s[p] \notin Connector!Effects
  /\ ph \in {"accepted", "built"} => p = Len(s) + 1
ConnectorInv ==
  /\ block \in Connector!Blocks
  /\ ConnectorNow(Connector!Steps(block), pc, left, phase)
  /\ Connector!DiscardReleases

LEMMA ConnectorRefused == ConnectorOK /\ ConnectorInv => Connector!RefusedUnlisted
<1> SUFFICES ASSUME ConnectorOK, ConnectorInv, phase = "refused" PROVE left["startable"] = 0 /\ left["drainable"] = 0 /\ left["stoppable"] = 0
  BY DEF Connector!RefusedUnlisted
<1> DEFINE s == Connector!Steps(block)
<1>1. ConnectorOrder(s) /\ ConnectorNow(s, pc, left, phase)  BY ConnectorSteps DEF ConnectorInv
<1>2. \A e \in {"startable", "drainable", "stoppable"} : e \in Connector!Effects /\ e \in ConnectorHeld
  BY DEF Connector!Effects, ConnectorHeld
<1> HIDE DEF s
<1>3. \A e \in {"startable", "drainable", "stoppable"} : ~(left[e] > 0) /\ left[e] \in Nat
  <2>1. \A i \in 1..(pc - 1) : s[i] \notin ConnectorHeld
    BY <1>1 DEF ConnectorNow, ConnectorOrder, ConnectorSorted
  <2> QED BY <1>1, <1>2, <2>1 DEF ConnectorNow
<1> QED BY <1>3

LEMMA ConnectorStep == ConnectorOK /\ ConnectorInv /\ [Connector!Next]_(Connector!vars) => ConnectorInv'
<1> SUFFICES ASSUME ConnectorOK, ConnectorInv, [Connector!Next]_(Connector!vars) PROVE ConnectorInv'  OBVIOUS
<1> DEFINE s == Connector!Steps(block)
<1>1. ConnectorOrder(s) /\ ConnectorNow(s, pc, left, phase) /\ block \in Connector!Blocks /\ Connector!DiscardReleases
  BY ConnectorSteps DEF ConnectorInv
<1>2. block' = block
  BY DEF Connector!Next, Connector!vars, Connector!Pass, Connector!Refuse, Connector!Accept, Connector!Built, Connector!Discard
<1>3. SUFFICES ConnectorNow(s, pc', left', phase') /\ Connector!DiscardReleases'
  BY <1>1, <1>2 DEF ConnectorInv
<1>4. Connector!Steps(block') = s  BY <1>2
<1>5. CASE UNCHANGED Connector!vars
  <2>1. pc' = pc /\ left' = left /\ phase' = phase  BY <1>5 DEF Connector!vars
  <2>2. Connector!DiscardReleases'  BY <1>1, <1>2, <2>1 DEF Connector!DiscardReleases
  <2> QED BY <1>1, <2>1, <2>2
<1>6. CASE Connector!Pass
  <2> DEFINE x == s[pc]
  <2>1. /\ phase = "processing" /\ pc <= Len(s) /\ pc' = pc + 1 /\ phase' = phase
        /\ left' = IF x \in Connector!Effects THEN [left EXCEPT ![x] = @ + 1] ELSE left
    BY <1>6 DEF Connector!Pass, Connector!Taking
  <2> HIDE DEF s
  <2>2. pc \in 1..Len(s) /\ left \in [Connector!Effects -> Nat] /\ Len(s) \in Nat
        /\ \A e \in Connector!Effects : left[e] > 0 <=> \E i \in 1..(pc - 1) : s[i] = e
    BY <1>1, <2>1 DEF ConnectorNow, ConnectorOrder
  <2>3. x = s[pc]  OBVIOUS
  <2> HIDE DEF x
  <2>4. /\ left' \in [Connector!Effects -> Nat]
        /\ \A e \in Connector!Effects : left'[e] > 0 <=> left[e] > 0 \/ x = e
    BY <2>1, <2>2
  <2>5. \A i : i \in 1..(pc' - 1) <=> i \in 1..(pc - 1) \/ i = pc  BY <2>1, <2>2
  <2>6. \A e \in Connector!Effects : left'[e] > 0 <=> \E i \in 1..(pc' - 1) : s[i] = e
    BY <2>2, <2>3, <2>4, <2>5
  <2>7. Connector!DiscardReleases'  BY <2>1 DEF Connector!DiscardReleases
  <2>8. pc' \in 1..(Len(s) + 1)  BY <2>1, <2>2
  <2> QED BY <2>1, <2>4, <2>6, <2>7, <2>8 DEF ConnectorNow
<1>7. CASE Connector!Refuse \/ Connector!Accept \/ Connector!Built
  <2>1. /\ pc' = pc /\ left' = left /\ phase # "discarded"
        /\ \/ phase' = "refused" /\ pc <= Len(s) /\ s[pc] \notin Connector!Effects
           \/ phase' = "accepted" /\ pc > Len(s)
           \/ phase' = "built" /\ phase = "accepted"
    BY <1>7 DEF Connector!Refuse, Connector!Accept, Connector!Built, Connector!Taking
  <2> HIDE DEF s
  <2>2. Connector!DiscardReleases'  BY <2>1 DEF Connector!DiscardReleases
  <2>3. Len(s) \in Nat  BY <1>1 DEF ConnectorOrder
  <2> QED BY <1>1, <2>1, <2>2, <2>3 DEF ConnectorNow
<1>8. CASE Connector!Discard
  <2>1. phase \in {"refused", "accepted"} /\ phase' = "discarded" /\ left' = Connector!Released(left) /\ pc' = pc
    BY <1>8 DEF Connector!Discard
  <2>l. left \in [Connector!Effects -> Nat]  BY <1>1 DEF ConnectorNow
  <2>2. Connector!Released(left) \in [Connector!Effects -> Nat]
    <3>1. "drainable" \in Connector!Effects /\ "startable" \in Connector!Effects  BY DEF Connector!Effects
    <3> HIDE DEF s
    <3> QED BY <2>l, <3>1 DEF Connector!Released
  <2>3. ConnectorNow(s, pc', left', phase')
    <3> HIDE DEF s
    <3> QED BY <1>1, <2>1, <2>2 DEF ConnectorNow
  <2>4. CASE left["stoppable"] # 0
    <3>1. \A e \in Connector!Effects \ {"queue"} : left'[e] = 0  BY <2>1, <2>4 DEF Connector!Released
    <3>2. \A e \in Connector!Effects \ {"queue"} : ~(left'[e] > 0)  BY <3>1
    <3>3. Connector!DiscardReleases'  BY <3>2 DEF Connector!DiscardReleases
    <3> QED BY <2>3, <3>3
  <2>5. CASE left["stoppable"] = 0
    <3>1. /\ left'["drainable"] = 0 /\ left'["startable"] = 0
          /\ \A e \in Connector!Effects \ {"drainable", "startable"} : left'[e] = left[e]
      <4>1. left' = [left EXCEPT !["drainable"] = 0, !["startable"] = 0]  BY <2>1, <2>5 DEF Connector!Released
      <4>2. "drainable" \in Connector!Effects /\ "startable" \in Connector!Effects  BY DEF Connector!Effects
      <4> HIDE DEF s
      <4> QED BY <2>l, <4>1, <4>2
    <3>2. block.kind # "server metrics" => \A i \in 1..Len(s) : s[i] # "runtime metrics"
      BY <1>1, ConnectorSteps
    <3> HIDE DEF s
    <3>3. /\ \A e \in Connector!Effects : left[e] > 0 <=> \E i \in 1..(pc - 1) : s[i] = e
          /\ pc \in 1..(Len(s) + 1) /\ Len(s) \in Nat
      BY <1>1, <2>1 DEF ConnectorNow, ConnectorOrder
    <3>e. {"stoppable", "tracer", "pool", "meter", "runtime metrics"} \subseteq Connector!Effects  BY DEF Connector!Effects
    <3> DEFINE Had(e) == \E i \in 1..(pc - 1) : s[i] = e
    <3>h. \A e \in Connector!Effects : left[e] > 0 <=> Had(e)  BY <3>3
    <3>i. \A e : Had(e) => \E i \in 1..Len(s) : s[i] = e  BY <3>3
    <3>s. left["stoppable"] > 0 <=> Had("stoppable")  BY Zenon, <3>h, <3>e
    <3>r. left["runtime metrics"] > 0 <=> Had("runtime metrics")  BY Zenon, <3>h, <3>e
    <3>p. (left["pool"] > 0 <=> Had("pool")) /\ (left["meter"] > 0 <=> Had("meter")) /\ (left["tracer"] > 0 <=> Had("tracer"))
      BY Zenon, <3>h, <3>e
    <3>4. ~\E i \in 1..(pc - 1) : s[i] = "stoppable"
      BY <2>5, <3>s
    <3>5. left["runtime metrics"] > 0 => block.kind = "server metrics"
      BY <3>2, <3>r, <3>i
    <3>6. left["tracer"] > 0 \/ left["pool"] > 0 \/ left["meter"] > 0 => pc <= Len(s)
      <4>1. SUFFICES ASSUME left["tracer"] > 0 \/ left["pool"] > 0 \/ left["meter"] > 0 PROVE pc <= Len(s)  OBVIOUS
      <4>2. \E i \in 1..Len(s) : s[i] \in {"pool", "meter", "tracer"}  BY <3>p, <3>i, <4>1
      <4>3. PICK j \in 1..Len(s) : s[j] = "stoppable"  BY <1>1, <4>2 DEF ConnectorOrder
      <4> QED BY <3>3, <3>4, <4>3
    <3>7. ~(left["pool"] > 0) /\ ~(left["meter"] > 0)
      <4>1. SUFFICES ASSUME left["pool"] > 0 \/ left["meter"] > 0 PROVE FALSE  OBVIOUS
      <4>2. phase = "refused" /\ pc \in 1..Len(s) /\ s[pc] \notin Connector!Effects
        BY <1>1, <2>1, <3>3, <3>6, <4>1 DEF ConnectorNow
      <4>3. \E i \in 1..(pc - 1) : s[i] \in ConnectorHeld
        BY <3>p, <4>1 DEF ConnectorHeld
      <4> QED BY <1>1, <4>2, <4>3 DEF ConnectorOrder, ConnectorSorted
    <3>8. Connector!DiscardReleases'
      <4> SUFFICES ASSUME NEW e \in Connector!Effects \ {"queue"}, left'[e] > 0
                   PROVE  e = "inflight" \/ (pc' <= Len(Connector!Steps(block')) /\ e = "tracer") \/ block'.kind = "server metrics"
        BY DEF Connector!DiscardReleases
      <4>1. e \notin {"drainable", "startable", "stoppable", "pool", "meter"} /\ left[e] > 0
        <5>1. e # "drainable" /\ e # "startable"  BY <3>1
        <5>2. left'[e] = left[e]  BY <3>1, <5>1
        <5>3. e # "stoppable"  BY <2>5, <5>2
        <5>4. e # "pool" /\ e # "meter"  BY <3>7, <5>2
        <5> QED BY <5>1, <5>2, <5>3, <5>4
      <4>2. e \in {"inflight", "tracer", "runtime metrics"}  BY <4>1 DEF Connector!Effects
      <4> QED BY <1>2, <1>4, <2>1, <3>5, <3>6, <4>1, <4>2
    <3> QED BY <2>3, <3>8
  <2> QED BY <2>4, <2>5
<1> QED BY <1>5, <1>6, <1>7, <1>8 DEF Connector!Next

LEMMA ConnectorInvariant == ConnectorOK => (Connector!Spec => []ConnectorInv)
<1> SUFFICES ASSUME ConnectorOK PROVE Connector!Spec => []ConnectorInv  OBVIOUS
<1>1. Connector!Init => ConnectorInv
  <2> SUFFICES ASSUME Connector!Init PROVE ConnectorInv  OBVIOUS
  <2> DEFINE s == Connector!Steps(block)
  <2>1. block \in Connector!Blocks /\ pc = 1 /\ left = [e \in Connector!Effects |-> 0] /\ phase = "processing"
    BY DEF Connector!Init
  <2>2. ConnectorOrder(s)  BY <2>1, ConnectorSteps
  <2>3. ConnectorNow(s, pc, left, phase)
    <3> HIDE DEF s
    <3> QED BY <2>1, <2>2 DEF ConnectorNow, ConnectorOrder
  <2> QED BY <2>1, <2>3 DEF ConnectorInv, Connector!DiscardReleases
<1> QED BY <1>1, ConnectorStep, PTL DEF Connector!Spec

\* Every variable keeps its type.
LEMMA ConnectorTypeCorrect == ConnectorOK => (Connector!Spec => []Connector!TypeOK)
<1>1. ConnectorInv => Connector!TypeOK  BY DEF ConnectorInv, ConnectorNow, Connector!TypeOK
<1> QED BY <1>1, ConnectorInvariant, PTL

\* A refused block is in none of the lists that serve and Discard walk,
\* whichever of its checks turned it down.
THEOREM ConnectorRefusedUnlisted == ConnectorOK => (Connector!Spec => []Connector!RefusedUnlisted)
<1> SUFFICES ASSUME ConnectorOK PROVE Connector!Spec => []Connector!RefusedUnlisted  OBVIOUS
<1> QED BY ConnectorRefused, ConnectorInvariant, PTL

\* Discard leaves only queues, the telemetry of a block refused half-way, and
\* what a server "metrics" registers.
THEOREM ConnectorDiscardReleases == ConnectorOK => (Connector!Spec => []Connector!DiscardReleases)
<1>1. ConnectorInv => Connector!DiscardReleases  BY DEF ConnectorInv
<1> QED BY <1>1, ConnectorInvariant, PTL

-----------------------------------------------------------------------------
(* Messaging clients between Start and Stop.                               *)

Client == INSTANCE ClientRuntime WITH
  Kinds <- ClientKinds, MaxEvents <- ClientEvents

ClientOK ==
  /\ ClientKinds \subseteq {"kafka", "rabbitmq", "mqtt", "redis_stream", "redis_pubsub", "sqs_receiver"}
  /\ MaxSenders \in Nat /\ MaxReceivers \in Nat /\ MaxInFlight \in Nat

ClientFirst == {"open", "wire", "build", "run", "new client"}

\* What the steps of Start come to, by their positions.
ClientOrdered(s, kind) ==
  /\ Len(s) \in Nat
  /\ kind \notin Client!EarlyFields => \E i \in 1..Len(s) : s[i] = "publish"
  /\ \A i \in 1..Len(s) : /\ s[i] = "connect later" => kind \in Client!Pushes /\ i = Len(s)
                          /\ s[i] \in {"open", "run"} => kind \notin Client!Pushes

ClientPublished == \A i \in 1..(pc - 1) : i <= Len(Client!StartSteps) /\ Client!StartSteps[i] = "publish" => published

\* The connection the callbacks that are still to run will end at.
ClientHeard ==
  client.kind \in Client!Pushes =>
    /\ hooks # <<>> => hooks[Len(hooks)] = open
    /\ hooks = <<>> => (reported = "ready") = open

\* Start has taken its last step.
ClientLaunched == pc > Len(Client!StartSteps)

ClientInv ==
  /\ client \in Client!Clients /\ pc \in Nat \ {0} /\ published \in BOOLEAN /\ open \in BOOLEAN
  /\ inflight \in [Client!Receivers -> Nat] /\ hooks \in Seq(BOOLEAN)
  /\ phase \in {"off", "starting", "up", "failed", "draining", "stopping", "stopped"}
  /\ client.kind \in Client!EarlyFields => published
  /\ ClientPublished
  /\ phase \in {"up", "draining"} => published
  /\ phase \in {"failed", "stopped"} => running = {} /\ ~open
  /\ connecting => client.kind \in Client!Pushes /\ phase \in {"starting", "up", "draining", "stopping"}
  /\ client.kind \in Client!Pushes /\ (open \/ connecting \/ flips # 0) => ClientLaunched
  /\ client.kind \in Client!Pushes /\ (connecting \/ ~ClientLaunched) =>
       running = {} /\ \A r \in Client!Receivers : inflight[r] = 0
  /\ drained # "no" => phase \in {"draining", "stopping", "stopped"}
  /\ drained = "clean" => \A r \in running : inflight[r] = 0
  /\ (client.kind = "mqtt" => phase \notin {"stopping", "stopped"}) => ClientHeard
  /\ client.kind \notin Client!Pushes => hooks = <<>>

ClientEventInv ==
  /\ event.at = "answered" =>
       /\ event = [at |-> "answered", n |-> event.n, answer |-> event.answer, took |-> event.took]
       /\ event.answer = "ok" => published /\ client.senders > 0 /\ event.took = client.senders
  /\ event.at = "acknowledged" => event.took = client.senders /\ ~client.async

LEMMA ClientEach == ASSUME NEW n \in Nat, NEW S, NEW s \in Seq(S) PROVE Client!Each(n, s) \in Seq(S)
<1>1. n * Len(s) \in Nat  OBVIOUS
<1>2. \A i \in 1..(n * Len(s)) : ((i - 1) % Len(s)) + 1 \in 1..Len(s)
  <2> SUFFICES ASSUME NEW i \in 1..(n * Len(s)) PROVE ((i - 1) % Len(s)) + 1 \in 1..Len(s)  OBVIOUS
  <2>1. Len(s) > 0  OBVIOUS
  <2> QED BY <2>1
<1> QED BY <1>1, <1>2 DEF Client!Each

\* A Start that builds first and connects last.
LEMMA ClientSimple ==
  ASSUME NEW m \in Nat, NEW q, \A i \in 1..m : q[i] \in ClientFirst
  PROVE  /\ Len(q) = m + 1 /\ q[m + 1] = "publish" => ClientOrdered(q, "kafka")
         /\ Len(q) = m + 2 /\ q[m + 1] = "publish" /\ q[m + 2] = "connect later"
            /\ (\A i \in 1..m : q[i] \notin {"open", "run"}) =>
               ClientOrdered(q, "rabbitmq") /\ ClientOrdered(q, "mqtt")
<1>1. \A i \in 1..m : q[i] # "connect later" /\ q[i] # "publish"
  BY DEF ClientFirst
<1>2. \A i : (i \in 1..(m + 1) => i \in 1..m \/ i = m + 1) /\ (i \in 1..(m + 2) => i \in 1..m \/ i = m + 1 \/ i = m + 2)
  OBVIOUS
<1>3. m + 1 \in Nat /\ m + 2 \in Nat /\ m + 1 \in 1..(m + 1) /\ m + 1 \in 1..(m + 2) /\ m + 2 \in 1..(m + 2)  OBVIOUS
<1> DEFINE F == 1..m
           One == 1..(m + 1)
           Two == 1..(m + 2)
           n == m + 1
           k == m + 2
<1> HIDE DEF F, One, Two, n, k
<1>4. ASSUME Len(q) = n, q[n] = "publish" PROVE ClientOrdered(q, "kafka")
  <2>1. \A i \in 1..Len(q) : q[i] # "connect later"
    BY <1>1, <1>2, <1>4 DEF n
  <2>2. Len(q) \in Nat /\ n \in 1..Len(q)  BY <1>3, <1>4 DEF n
  <2> QED BY <1>4, <2>1, <2>2 DEF ClientOrdered, Client!EarlyFields, Client!Pushes
<1>5. ASSUME Len(q) = k, q[n] = "publish", \A i \in 1..m : q[i] \notin {"open", "run"}, q[k] = "connect later"
      PROVE  ClientOrdered(q, "rabbitmq") /\ ClientOrdered(q, "mqtt")
  <2>1. \A i \in 1..Len(q) : q[i] \notin {"open", "run"} /\ (q[i] = "connect later" => i = Len(q))
    BY <1>1, <1>2, <1>5 DEF n, k
  <2>2. Len(q) \in Nat /\ n \in 1..Len(q)  BY <1>3, <1>5 DEF n, k
  <2> QED BY <1>5, <2>1, <2>2 DEF ClientOrdered, Client!EarlyFields, Client!Pushes
<1> QED BY <1>4, <1>5 DEF n, k

LEMMA ClientStart ==
  ASSUME ClientOK, client \in Client!Clients
  PROVE  ClientOrdered(Client!StartSteps, client.kind)
<1>1. client.kind \in {"kafka", "rabbitmq", "mqtt", "redis_stream", "redis_pubsub", "sqs_receiver"}
      /\ client.senders \in Nat /\ client.receivers \in Nat
  <2>1. client \in [kind : ClientKinds, senders : 0..MaxSenders, receivers : 0..MaxReceivers, async : BOOLEAN]
    BY Zenon DEF Client!Clients
  <2>2. client.kind \in ClientKinds /\ client.senders \in 0..MaxSenders /\ client.receivers \in 0..MaxReceivers  BY <2>1
  <2>3. client.kind \in {"kafka", "rabbitmq", "mqtt", "redis_stream", "redis_pubsub", "sqs_receiver"}  BY Zenon, <2>2 DEF ClientOK
  <2> QED BY <2>2, <2>3 DEF ClientOK
<1>2. <<"open">> \in Seq(ClientFirst) /\ <<>> \in Seq(ClientFirst) /\ <<"build", "run">> \in Seq(ClientFirst)
  BY DEF ClientFirst
<1> DEFINE Rest == ClientFirst \ {"open", "run"}
<1>3. <<"wire">> \in Seq(Rest) /\ <<"build">> \in Seq(Rest) /\ <<"run">> \in Seq(ClientFirst) /\ <<"new client">> \in Seq(Rest)
  BY DEF ClientFirst
<1>4. \A s, t \in Seq(Rest) : s \o t \in Seq(Rest) OBVIOUS
<1>5. \A s, t \in Seq(ClientFirst) : s \o t \in Seq(ClientFirst) OBVIOUS
<1>6. \A s \in Seq(Rest) : s \in Seq(ClientFirst) /\ \A i \in 1..Len(s) : s[i] \in ClientFirst /\ s[i] \notin {"open", "run"}  OBVIOUS
<1> HIDE DEF Rest
<1>7. /\ Client!Each(client.senders, <<"wire">>) \in Seq(Rest)
      /\ Client!Each(client.receivers, <<"build">>) \in Seq(Rest)
      /\ Client!Each(client.receivers, <<"run">>) \in Seq(ClientFirst)
      /\ Client!Each(client.receivers, <<"build", "run">>) \in Seq(ClientFirst)
  BY <1>1, <1>2, <1>3, ClientEach
<1>8. CASE client.kind = "kafka"
  <2> DEFINE p == (IF client.senders > 0 THEN <<"open">> ELSE <<>>)
                    \o Client!Each(client.senders, <<"wire">>) \o Client!Each(client.receivers, <<"build", "run">>)
  <2>0. (IF client.senders > 0 THEN <<"open">> ELSE <<>>) \in Seq(ClientFirst)  BY <1>2
  <2>1. p \in Seq(ClientFirst)  BY Zenon, <1>5, <1>6, <1>7, <2>0
  <2>2. Client!StartSteps = p \o <<"publish">>  BY <1>8, Zenon DEF Client!StartSteps, Client!KafkaStart
  <2>3. \A i \in 1..Len(p) : p[i] \in ClientFirst  BY <2>1
  <2> DEFINE q == p \o <<"publish">>
  <2>4. /\ Len(p) \in Nat /\ Len(q) = Len(p) + 1 /\ q[Len(p) + 1] = "publish"
        /\ \A i \in 1..Len(p) : q[i] = p[i]
    BY Zenon, <2>1, OneMore
  <2> HIDE DEF p, q
  <2>5. ClientOrdered(q, "kafka")  BY <2>3, <2>4, ClientSimple
  <2> QED BY <1>8, <2>2, <2>5 DEF q
<1> DEFINE later == "connect later"
<1> HIDE DEF later
<1>9. ASSUME NEW p \in Seq(Rest), Client!StartSteps = p \o <<"publish", later>>, client.kind \in {"rabbitmq", "mqtt"}
      PROVE  ClientOrdered(Client!StartSteps, client.kind)
  <2>1. \A i \in 1..Len(p) : p[i] \in ClientFirst /\ p[i] \notin {"open", "run"}  BY <1>6
  <2> DEFINE q == p \o <<"publish", later>>
  <2>2. /\ Len(p) \in Nat /\ Len(q) = Len(p) + 2 /\ q[Len(p) + 1] = "publish" /\ q[Len(p) + 2] = later
        /\ \A i \in 1..Len(p) : q[i] = p[i]
    BY TwoMore
  <2>3. q = Client!StartSteps  BY <1>9
  <2> HIDE DEF q
  <2>4. ClientOrdered(q, "rabbitmq") /\ ClientOrdered(q, "mqtt")  BY <2>1, <2>2, ClientSimple DEF later
  <2> QED BY <1>9, <2>3, <2>4
<1>10. CASE client.kind \in {"rabbitmq", "mqtt"}
  <2>1. CASE client.kind = "rabbitmq"
    <3> DEFINE p == Client!Each(client.senders, <<"wire">>) \o Client!Each(client.receivers, <<"build">>)
    <3>1. p \in Seq(Rest)  BY Zenon, <1>4, <1>7
    <3>2. Client!StartSteps = p \o <<"publish", later>>  BY <2>1 DEF Client!StartSteps, Client!RabbitStart, later
    <3> QED BY <2>1, <3>1, <3>2, <1>9
  <2>2. CASE client.kind = "mqtt"
    <3> DEFINE p == <<"new client">> \o Client!Each(client.senders, <<"wire">>) \o Client!Each(client.receivers, <<"build">>)
    <3>1. p \in Seq(Rest)  BY Zenon, <1>3, <1>4, <1>7
    <3>2. Client!StartSteps = p \o <<"publish", later>>  BY <2>2 DEF Client!StartSteps, Client!MqttStart, later
    <3> QED BY <2>2, <3>1, <3>2, <1>9
  <2> QED BY <1>10, <2>1, <2>2
<1>11. CASE client.kind \in {"redis_stream", "redis_pubsub", "sqs_receiver"}
  <2>1. Client!StartSteps \in Seq(ClientFirst)
    BY <1>3, <1>7, <1>11 DEF Client!StartSteps, Client!SqsStart, Client!RedisStart
  <2>2. \A i \in 1..Len(Client!StartSteps) : Client!StartSteps[i] \in ClientFirst  BY <2>1
  <2>3. Len(Client!StartSteps) \in Nat  BY <2>1
  <2> QED BY <1>11, <2>2, <2>3 DEF ClientOrdered, ClientFirst, Client!EarlyFields, Client!Pushes
<1> QED BY <1>1, <1>8, <1>10, <1>11

LEMMA ClientWithin ==
  \A n, k \in Nat : k > 0 /\ k <= n => k \in 1..n /\ ~(k > n)
OBVIOUS
LEMMA ClientPassed ==
  \A n, k \in Nat : \A i \in 1..n : k > n => i \in 1..(k - 1) /\ i <= n
OBVIOUS

LEMMA ClientSame == ASSUME client' = client
  PROVE  Client!StartSteps' = Client!StartSteps /\ Client!Receivers' = Client!Receivers
BY DEF Client!StartSteps, Client!KafkaStart, Client!RabbitStart, Client!MqttStart, Client!SqsStart,
       Client!RedisStart, Client!Receivers, Client!Each

LEMMA ClientInit == ClientOK /\ Client!Init => ClientInv /\ ClientEventInv
<1> SUFFICES ASSUME ClientOK, Client!Init PROVE ClientInv /\ ClientEventInv  OBVIOUS
<1>1. /\ client \in Client!Clients /\ phase = "off" /\ pc = 1 /\ open = FALSE /\ connecting = FALSE
      /\ running = {} /\ published = (client.kind \in Client!EarlyFields) /\ drained = "no"
      /\ reported = "unset" /\ hooks = <<>> /\ inflight = [r \in Client!Receivers |-> 0] /\ event = [at |-> "none", n |-> 0]
  BY Zenon DEF Client!Init
<1>2. ClientPublished  BY <1>1 DEF ClientPublished
<1>3. ClientHeard  BY <1>1 DEF ClientHeard
<1>4. ClientEventInv  BY <1>1 DEF ClientEventInv
<1>5. published \in BOOLEAN /\ (client.kind \in Client!EarlyFields => published)
  <2>1. published = (client.kind \in Client!EarlyFields)  BY <1>1
  <2> HIDE <1>1
  <2> DEFINE P == client.kind \in Client!EarlyFields
  <2>2. P \in BOOLEAN  OBVIOUS
  <2> QED BY <2>1, <2>2
<1>6. inflight \in [Client!Receivers -> Nat] /\ hooks \in Seq(BOOLEAN)  BY <1>1
<1>7. pc \in Nat \ {0} /\ open \in BOOLEAN /\ client \in Client!Clients
  <2>1. pc = 1 /\ open = FALSE /\ client \in Client!Clients  BY Zenon, <1>1
  <2>2. 1 \in Nat \ {0} /\ FALSE \in BOOLEAN  OBVIOUS
  <2> QED BY Zenon, <2>1, <2>2
<1>8. phase = "off" /\ ~connecting /\ ~open /\ drained = "no" /\ hooks = <<>> /\ running = {}  BY <1>1
<1>9. flips = 0 /\ \A r \in Client!Receivers : inflight[r] = 0  BY <1>1, Zenon DEF Client!Init
<1> HIDE <1>1
<1> QED BY <1>2, <1>3, <1>4, <1>5, <1>6, <1>7, <1>8, <1>9 DEF ClientInv

\* A callback that is queued tells where the connection ends.
LEMMA ClientNotified ==
  ASSUME client.kind \in Client!Pushes, client' = client, hooks \in Seq(BOOLEAN), NEW u \in BOOLEAN,
         hooks' = Append(hooks, u), open' = u
  PROVE  hooks' \in Seq(BOOLEAN) /\ ClientHeard'
<1>1. hooks' \in Seq(BOOLEAN) /\ Len(hooks') = Len(hooks) + 1 /\ Len(hooks) \in Nat /\ hooks'[Len(hooks')] = u  OBVIOUS
<1>2. hooks' # <<>>  BY <1>1
<1> QED BY <1>1, <1>2 DEF ClientHeard

LEMMA ClientHeardSame == ASSUME ClientHeard, UNCHANGED <<client, hooks, open, reported>> PROVE ClientHeard'
BY DEF ClientHeard

\* What Start publishes is there once its last step is taken.
LEMMA ClientLast == ASSUME ClientOK, ClientInv, ClientLaunched PROVE published
<1>n. Len(Client!StartSteps) \in Nat /\ ClientOrdered(Client!StartSteps, client.kind)
  BY ClientStart DEF ClientOrdered, ClientInv
<1>1. CASE client.kind \in Client!EarlyFields  BY <1>1 DEF ClientInv
<1>2. CASE client.kind \notin Client!EarlyFields
  <2>1. PICK i \in 1..Len(Client!StartSteps) : Client!StartSteps[i] = "publish"  BY <1>2, <1>n DEF ClientOrdered
  <2>2. pc \in Nat /\ pc > Len(Client!StartSteps)  BY DEF ClientInv, ClientLaunched
  <2>3. i \in 1..(pc - 1) /\ i <= Len(Client!StartSteps)  BY Zenon, <1>n, <2>1, <2>2, ClientPassed
  <2> QED BY <2>1, <2>3 DEF ClientPublished, ClientInv
<1> QED BY <1>1, <1>2

\* The connection Stop closes is told of, unless it is mqtt's.
LEMMA ClientClosed ==
  ASSUME client' = client, open' = FALSE, open \in BOOLEAN, hooks \in Seq(BOOLEAN), UNCHANGED reported,
         Client!NotifyClosed, client.kind # "mqtt" => ClientHeard,
         client.kind \notin Client!Pushes => hooks = <<>>
  PROVE  /\ hooks' \in Seq(BOOLEAN)
         /\ client.kind # "mqtt" => ClientHeard'
         /\ client.kind \notin Client!Pushes => hooks' = <<>>
<1>1. CASE client.kind \notin Client!Pushes
  <2>1. hooks' = hooks  BY <1>1 DEF Client!NotifyClosed, Client!Notify
  <2> QED BY <1>1, <2>1 DEF ClientHeard
<1>2. CASE client.kind \in Client!Pushes /\ open /\ Client!Notify(FALSE)
  <2>1. hooks' = Append(hooks, FALSE)  BY <1>2 DEF Client!Notify
  <2> QED BY <1>2, <2>1, ClientNotified
<1>3. CASE client.kind \in Client!Pushes /\ (~open \/ client.kind # "rabbitmq") /\ UNCHANGED hooks
  <2>1. client.kind # "mqtt" => open' = open  BY <1>3 DEF Client!Pushes
  <2> QED BY <1>3, <2>1, ClientHeardSame
<1> QED BY <1>1, <1>2, <1>3 DEF Client!NotifyClosed

LEMMA ClientStep == ClientOK /\ ClientInv /\ [Client!Next]_(Client!vars) => ClientInv'
<1> SUFFICES ASSUME ClientOK, ClientInv, [Client!Next]_(Client!vars) PROVE ClientInv'  OBVIOUS
<1>l. ClientLaunched => published  BY ClientLast
<1> USE DEF ClientInv
<1>c. client' = client
  BY DEF Client!Next, Client!Start, Client!StartStep, Client!Started, Client!StartFails, Client!ConnectLater,
     Client!Flip, Client!Hook, Client!Deliver, Client!Settle, Client!Drain, Client!DrainReturns, Client!Stop,
     Client!StopEnds, Client!OnEvent, Client!ReadDisposition, Client!NextEvent, Client!vars
<1>s. Client!StartSteps' = Client!StartSteps /\ Client!Receivers' = Client!Receivers  BY <1>c, ClientSame
<1>o. ClientOrdered(Client!StartSteps, client.kind)  BY ClientStart
<1>n. Len(Client!StartSteps) \in Nat  BY <1>o DEF ClientOrdered
<1>q. pc \in Nat /\ pc > 0  OBVIOUS
<1>p. ASSUME UNCHANGED <<pc, published>> PROVE ClientPublished' /\ (ClientLaunched' <=> ClientLaunched)
  BY <1>p, <1>s DEF ClientPublished, ClientLaunched
<1>k. client.kind = "mqtt" => client.kind \in Client!Pushes /\ client.kind \notin Client!Drains
  BY DEF Client!Pushes, Client!Drains
<1>1. CASE UNCHANGED Client!vars
  <2>1. UNCHANGED <<client, pc, published, open, connecting, running, inflight, phase, drained, reported, hooks, flips>>
    BY <1>1 DEF Client!vars
  <2> QED BY <2>1, <1>p, <1>s, ClientHeardSame
<1>2. CASE Client!Start
  <2>1. UNCHANGED <<client, pc, published, open, connecting, running, inflight, drained, reported, hooks, flips>>
        /\ phase = "off" /\ phase' = "starting"
    BY <1>2 DEF Client!Start
  <2> QED BY <2>1, <1>p, <1>s, ClientHeardSame
<1>3. CASE Client!StartStep
  <2> DEFINE st == Client!StartSteps[pc]
  <2>1. /\ phase = "starting" /\ phase' = phase /\ pc <= Len(Client!StartSteps) /\ pc' = pc + 1
        /\ open' = (open \/ st = "open") /\ connecting' = (connecting \/ st = "connect later")
        /\ published' = (published \/ st = "publish")
        /\ st # "run" => running' = running
        /\ UNCHANGED <<inflight, drained, reported, hooks, flips>>
    BY <1>3 DEF Client!StartStep, Client!Step, Client!Publishes
  <2>2. pc \in 1..Len(Client!StartSteps)  BY Zenon, <2>1, <1>n, <1>q, ClientWithin
  <2>3. /\ st = "connect later" => client.kind \in Client!Pushes /\ pc = Len(Client!StartSteps)
        /\ st \in {"open", "run"} => client.kind \notin Client!Pushes
    BY <2>2, <1>o DEF ClientOrdered
  <2>m. Len(Client!StartSteps) \in Nat /\ pc \in Nat /\ pc <= Len(Client!StartSteps) /\ pc > 0  BY <2>1, <1>n, <1>q
  <2>l. ~ClientLaunched  BY Zenon, <2>m, ClientWithin DEF ClientLaunched
  <2>4. ~connecting /\ (client.kind \in Client!Pushes => ~open /\ flips = 0 /\ running = {} /\ \A r \in Client!Receivers : inflight[r] = 0)
    BY <2>l
  <2>5. ClientPublished'
    <3> SUFFICES ASSUME NEW i \in 1..(pc' - 1), i <= Len(Client!StartSteps), Client!StartSteps[i] = "publish"
                 PROVE  published'
      BY <1>s DEF ClientPublished
    <3>1. CASE i \in 1..(pc - 1)
      <4>1. published  BY <3>1 DEF ClientPublished
      <4> QED BY <4>1, <2>1
    <3>2. CASE i = pc  BY <3>2, <2>1
    <3>3. i \in 1..(pc - 1) \/ i = pc  BY Zenon, <2>1, <1>q, Numbers
    <3> QED BY <3>1, <3>2, <3>3
  <2>6. ClientHeard'
    <3>1. CASE client.kind \in Client!Pushes
      <4>1. UNCHANGED <<hooks, reported, open>>  BY <3>1, <2>1, <2>3
      <4> QED BY <4>1, <1>c, <2>1, ClientHeardSame
    <3>2. CASE client.kind \notin Client!Pushes  BY <3>2, <1>c DEF ClientHeard
    <3> QED BY <3>1, <3>2
  <2>7. connecting' => client.kind \in Client!Pushes /\ ClientLaunched'
    <3> SUFFICES ASSUME connecting' PROVE client.kind \in Client!Pushes /\ pc' > Len(Client!StartSteps)
      BY <1>s DEF ClientLaunched
    <3>1. st = "connect later"  BY <2>1, <2>4
    <3>2. client.kind \in Client!Pushes /\ pc = Len(Client!StartSteps)  BY <3>1, <2>3
    <3>3. pc' = pc + 1  BY <2>1
    <3> HIDE DEF st
    <3> QED BY <3>2, <3>3, <2>m
  <2>8. pc' \in Nat \ {0}  BY Zenon, <2>1, <1>q, Numbers
  <2>9. published' \in BOOLEAN /\ open' \in BOOLEAN /\ (published => published')
    BY <2>1, Zenon
  <2>10. client.kind \in Client!Pushes => ~open' /\ flips' = 0 /\ running' = {} /\ \A r \in Client!Receivers : inflight'[r] = 0
    BY <2>1, <2>3, <2>4
  <2>11. drained = "no"  BY <2>1
  <2> HIDE DEF st
  <2> QED BY <2>1, <2>5, <2>6, <2>7, <2>8, <2>9, <2>10, <2>11, <1>c, <1>s
<1>4. CASE Client!Started
  <2>1. /\ UNCHANGED <<client, pc, published, open, connecting, running, inflight, drained, reported, hooks, flips>>
        /\ phase = "starting" /\ phase' = "up" /\ pc > Len(Client!StartSteps)
    BY <1>4 DEF Client!Started
  <2>2. published  BY <2>1, <1>l DEF ClientLaunched
  <2> QED BY <2>1, <2>2, <1>p, <1>s, ClientHeardSame
<1>5. CASE Client!StartFails
  <2>1. /\ UNCHANGED <<client, pc, published, connecting, inflight, drained, reported, hooks, flips>>
        /\ phase = "starting" /\ phase' = "failed" /\ open' = FALSE /\ running' = {} /\ pc <= Len(Client!StartSteps)
    BY <1>5 DEF Client!StartFails, Client!FailureStops
  <2>l. ~ClientLaunched  BY Zenon, <2>1, <1>n, <1>q, ClientWithin DEF ClientLaunched
  <2>2. ~connecting /\ (client.kind \in Client!Pushes => ~open /\ \A r \in Client!Receivers : inflight[r] = 0)  BY <2>l
  <2>3. ClientHeard'  BY <2>1, <2>2 DEF ClientHeard
  <2> QED BY <2>1, <2>2, <2>3, <1>p, <1>s
<1>6. CASE Client!ConnectLater
  <2>1. /\ connecting /\ connecting' = FALSE
        /\ \/ open' = TRUE /\ Client!Notify(TRUE)
           \/ UNCHANGED <<open, running, hooks>>
        /\ UNCHANGED <<client, pc, published, inflight, phase, drained, reported, flips>>
        /\ running' \in {running, Client!Receivers}
    BY <1>6 DEF Client!ConnectLater
  <2>2. /\ client.kind \in Client!Pushes /\ phase \in {"starting", "up", "draining", "stopping"} /\ ClientLaunched
        /\ running = {} /\ \A r \in Client!Receivers : inflight[r] = 0
    BY <2>1
  <2>3. hooks' \in Seq(BOOLEAN) /\ ((client.kind = "mqtt" => phase \notin {"stopping", "stopped"}) => ClientHeard')
    <3>1. CASE open' = TRUE /\ Client!Notify(TRUE)
      <4>1. hooks' = Append(hooks, TRUE)  BY <3>1, <2>2 DEF Client!Notify
      <4> QED BY <4>1, <3>1, <2>2, <1>c, ClientNotified
    <3>2. CASE UNCHANGED <<open, running, hooks>>  BY <3>2, <2>1, ClientHeardSame
    <3> QED BY <3>1, <3>2, <2>1
  <2>4. open' \in BOOLEAN  BY <2>1
  <2> QED BY <2>1, <2>2, <2>3, <2>4, <1>p, <1>s
<1>7. CASE Client!Flip
  <2>1. /\ client.kind \in Client!Pushes /\ phase \in {"starting", "up", "draining", "stopping"}
        /\ open \/ flips # 0
        /\ open' = ~open /\ Client!Notify(~open)
        /\ UNCHANGED <<client, pc, published, connecting, running, inflight, phase, drained, reported>>
    BY <1>7 DEF Client!Flip
  <2>2. hooks' = Append(hooks, ~open)  BY <2>1 DEF Client!Notify
  <2>3. ClientHeard' /\ hooks' \in Seq(BOOLEAN)  BY <2>1, <2>2, ClientNotified
  <2>4. ClientLaunched  BY <2>1
  <2>5. open' \in BOOLEAN  BY <2>1
  <2> QED BY <2>1, <2>3, <2>4, <2>5, <1>p, <1>s
<1>8. CASE Client!Hook
  <2>1. /\ hooks # <<>> /\ reported' = (IF Head(hooks) THEN "ready" ELSE "not connected") /\ hooks' = Tail(hooks)
        /\ UNCHANGED <<client, pc, published, connecting, running, inflight, phase, drained, open, flips>>
    BY <1>8 DEF Client!Hook
  <2>2. client.kind \in Client!Pushes  BY <2>1
  <2>3. /\ hooks' \in Seq(BOOLEAN) /\ Len(hooks) \in Nat /\ Len(hooks) > 0
        /\ Len(hooks) = 1 => hooks' = <<>> /\ Head(hooks) = hooks[Len(hooks)]
        /\ Len(hooks) > 1 => hooks' # <<>> /\ hooks'[Len(hooks')] = hooks[Len(hooks)]
    BY Zenon, <2>1, TailOf
  <2>4. ASSUME ClientHeard PROVE ClientHeard'
    <3>1. hooks[Len(hooks)] = open  BY <2>1, <2>2, <2>4 DEF ClientHeard
    <3>2. CASE Len(hooks) = 1
      <4>1. hooks' = <<>> /\ Head(hooks) = open  BY <3>1, <3>2, <2>3
      <4>2. reported' = (IF open THEN "ready" ELSE "not connected")  BY <4>1, <2>1
      <4>3. (reported' = "ready") = open  BY <4>2
      <4> QED BY <4>1, <4>3, <2>1, <2>2 DEF ClientHeard
    <3>3. CASE Len(hooks) > 1
      <4>1. hooks' # <<>> /\ hooks'[Len(hooks')] = open  BY <3>1, <3>3, <2>3
      <4> QED BY <4>1, <2>1, <2>2 DEF ClientHeard
    <3>4. Len(hooks) = 1 \/ Len(hooks) > 1  BY Zenon, <2>3, Numbers
    <3> QED BY <3>2, <3>3, <3>4
  <2> QED BY <2>1, <2>2, <2>3, <2>4, <1>p, <1>s
<1>9. ASSUME NEW r \in Client!Receivers, Client!Deliver(r) \/ Client!Settle(r) PROVE ClientInv'
  <2>1. /\ UNCHANGED <<client, pc, published, open, connecting, running, phase, drained, reported, hooks, flips>>
        /\ inflight' \in [Client!Receivers -> Nat]
    BY <1>9 DEF Client!Deliver, Client!Settle
  <2>2. drained = "clean" => \A q \in running : inflight'[q] = 0
    <3>1. CASE Client!Settle(r)
      BY <3>1 DEF Client!Settle
    <3>2. CASE Client!Deliver(r)
      BY <3>2 DEF Client!Deliver
    <3> QED BY <1>9, <3>1, <3>2
  <2>3. ASSUME running = {}, \A q \in Client!Receivers : inflight[q] = 0 PROVE FALSE
    <3>1. ~Client!Deliver(r)  BY <2>3 DEF Client!Deliver
    <3>2. ~Client!Settle(r)  BY <2>3 DEF Client!Settle
    <3> QED BY <1>9, <3>1, <3>2
  <2> QED BY <2>1, <2>2, <2>3, <1>p, <1>s, ClientHeardSame
<1>10. CASE Client!Drain
  <2>1. /\ UNCHANGED <<client, pc, published, open, connecting, running, inflight, drained, reported, hooks, flips>>
        /\ phase = "up" /\ phase' = "draining"
    BY <1>10 DEF Client!Drain
  <2> QED BY <2>1, <1>p, <1>s, ClientHeardSame
<1>11. CASE Client!DrainReturns
  <2>1. /\ UNCHANGED <<client, pc, published, open, connecting, running, inflight, phase, reported, hooks, flips>>
        /\ phase = "draining" /\ drained' = (IF Client!AllDrained THEN "clean" ELSE "late")
    BY <1>11 DEF Client!DrainReturns
  <2> QED BY <2>1, <1>p, <1>s, ClientHeardSame DEF Client!AllDrained
<1>12. CASE Client!Stop
  <2>1. /\ UNCHANGED <<client, pc, published, connecting, inflight, drained, reported, flips>>
        /\ phase \in {"up", "failed", "draining"}
        /\ phase' = (IF client.kind \in Client!Pushes /\ published THEN "stopping" ELSE "stopped")
        /\ IF published THEN open' = FALSE /\ running' = {} /\ Client!NotifyClosed
                        ELSE UNCHANGED <<open, running, hooks>>
    BY <1>12 DEF Client!Stop
  <2>2. phase' \in {"stopping", "stopped"} /\ running' = {} /\ ~open' /\ open' \in BOOLEAN  BY <2>1
  <2>3. connecting => phase' = "stopping"  BY <2>1, <1>l
  <2>4. hooks' \in Seq(BOOLEAN) /\ (client.kind # "mqtt" => ClientHeard') /\ (client.kind \notin Client!Pushes => hooks' = <<>>)
    <3>1. CASE published
      <4>1. /\ UNCHANGED <<client, reported>> /\ open' = FALSE /\ Client!NotifyClosed
            /\ (client.kind # "mqtt" => ClientHeard) /\ (client.kind \notin Client!Pushes => hooks = <<>>)
            /\ open \in BOOLEAN /\ hooks \in Seq(BOOLEAN)
        BY <2>1, <3>1
      <4> HIDE DEF ClientInv
      <4> QED BY <4>1, ClientClosed
    <3>2. CASE ~published  BY <2>1, <3>2, ClientHeardSame
    <3> QED BY <3>1, <3>2
  <2> QED BY <2>1, <2>2, <2>3, <2>4, <1>p, <1>s
<1>13. CASE Client!StopEnds
  <2>1. /\ UNCHANGED <<client, pc, published, inflight, drained, reported, flips>> /\ Client!NotifyClosed
        /\ phase = "stopping" /\ phase' = "stopped" /\ connecting' = FALSE /\ open' = FALSE /\ running' = {}
    BY <1>13 DEF Client!StopEnds, Client!CancelConnection
  <2>2. hooks' \in Seq(BOOLEAN) /\ (client.kind # "mqtt" => ClientHeard') /\ (client.kind \notin Client!Pushes => hooks' = <<>>)
    <3>1. /\ UNCHANGED <<client, reported>> /\ open' = FALSE /\ Client!NotifyClosed
          /\ (client.kind # "mqtt" => ClientHeard) /\ (client.kind \notin Client!Pushes => hooks = <<>>)
          /\ open \in BOOLEAN /\ hooks \in Seq(BOOLEAN)
      BY <2>1
    <3> HIDE DEF ClientInv
    <3> QED BY <3>1, ClientClosed
  <2> QED BY <2>1, <2>2, <1>p, <1>s
<1>14. CASE Client!OnEvent \/ Client!ReadDisposition \/ Client!NextEvent
  <2>1. UNCHANGED <<client, pc, published, open, connecting, running, inflight, phase, drained, reported, hooks, flips>>
    BY <1>14 DEF Client!OnEvent, Client!ReadDisposition, Client!NextEvent
  <2> QED BY <2>1, <1>p, <1>s, ClientHeardSame
<1> QED BY <1>1, <1>2, <1>3, <1>4, <1>5, <1>6, <1>7, <1>8, <1>9, <1>10, <1>11, <1>12, <1>13, <1>14 DEF Client!Next

\* What was published stays so, whatever an event is told meanwhile.
LEMMA ClientEventStep ==
  ClientInv /\ ClientEventInv /\ [Client!Next]_(Client!vars) => ClientEventInv'
<1> SUFFICES ASSUME ClientInv, ClientEventInv, [Client!Next]_(Client!vars) PROVE ClientEventInv'  OBVIOUS
<1>1. CASE Client!OnEvent
  <2>1. PICK f \in 0..client.senders :
           event' = [at |-> "answered", n |-> event.n + 1, answer |-> Client!Answer(f),
                     took |-> IF Client!Senders = 0 THEN 0 ELSE Client!Senders - f]
    BY <1>1 DEF Client!OnEvent
  <2>2. UNCHANGED <<client, published>>  BY <1>1 DEF Client!OnEvent
  <2>3. client.senders \in Nat  BY DEF ClientInv, Client!Clients
  <2>4. Client!Answer(f) = "ok" => published /\ client.senders > 0 /\ Client!Senders = client.senders /\ f = 0
    BY <2>3 DEF Client!Answer, Client!Senders
  <2>5. event'.at = "answered" /\ event'.answer = Client!Answer(f)
        /\ event'.took = (IF Client!Senders = 0 THEN 0 ELSE Client!Senders - f) /\ event'.n = event.n + 1
    BY <2>1
  <2> QED BY <2>1, <2>2, <2>3, <2>4, <2>5 DEF ClientEventInv
<1>2. CASE Client!ReadDisposition
  <2>1. /\ event.at = "answered" /\ UNCHANGED <<client, published>>
        /\ event' = [event EXCEPT !.at = IF event.answer = "ok" /\ Client!Disposition = "handled" THEN "acknowledged" ELSE "left"]
    BY <1>2 DEF Client!ReadDisposition
  <2> DEFINE e == event
             a == IF event.answer = "ok" /\ Client!Disposition = "handled" THEN "acknowledged" ELSE "left"
  <2>2. e = [at |-> "answered", n |-> e.n, answer |-> e.answer, took |-> e.took]  BY <2>1 DEF ClientEventInv
  <2>3. event' = [e EXCEPT !.at = a]  BY <2>1
  <2>4. a \in {"acknowledged", "left"} /\ (a = "acknowledged" => e.answer = "ok" /\ Client!Disposition = "handled")  OBVIOUS
  <2> HIDE DEF a
  <2>5. event'.at = a /\ event'.took = event.took  BY <2>2, <2>3
  <2>6. ASSUME a = "acknowledged" PROVE event.took = client.senders /\ ~client.async
    <3>1. published /\ client.senders > 0 /\ event.took = client.senders  BY <2>1, <2>4, <2>6 DEF ClientEventInv
    <3> QED BY <3>1, <2>4, <2>6 DEF Client!Disposition, Client!Senders
  <2> QED BY <2>1, <2>4, <2>5, <2>6 DEF ClientEventInv
<1>3. CASE Client!NextEvent
  <2>1. event' = [at |-> "none", n |-> event.n]  BY <1>3 DEF Client!NextEvent
  <2>2. event'.at = "none"  BY <2>1
  <2> QED BY <2>2 DEF ClientEventInv
<1>4. CASE UNCHANGED event
  <2>1. UNCHANGED client
    BY DEF Client!Next, Client!Start, Client!StartStep, Client!Started, Client!StartFails, Client!ConnectLater,
     Client!Flip, Client!Hook, Client!Deliver, Client!Settle, Client!Drain, Client!DrainReturns, Client!Stop,
     Client!StopEnds, Client!OnEvent, Client!ReadDisposition, Client!NextEvent, Client!vars
  <2>2. published => published'
    BY DEF Client!Next, Client!Start, Client!StartStep, Client!Started, Client!StartFails, Client!ConnectLater,
     Client!Flip, Client!Hook, Client!Deliver, Client!Settle, Client!Drain, Client!DrainReturns, Client!Stop,
     Client!StopEnds, Client!OnEvent, Client!ReadDisposition, Client!NextEvent, Client!vars, Client!Publishes
  <2> QED BY <2>1, <2>2, <1>4 DEF ClientEventInv
<1> QED BY <1>1, <1>2, <1>3, <1>4
    DEF Client!Next, Client!Start, Client!StartStep, Client!Started, Client!StartFails, Client!ConnectLater,
     Client!Flip, Client!Hook, Client!Deliver, Client!Settle, Client!Drain, Client!DrainReturns, Client!Stop,
     Client!StopEnds, Client!vars

LEMMA ClientInvariance == ClientOK => (Client!Spec => [](ClientInv /\ ClientEventInv))
<1> SUFFICES ASSUME ClientOK PROVE Client!Spec => [](ClientInv /\ ClientEventInv)  OBVIOUS
<1> QED BY ClientInit, ClientStep, ClientEventStep, PTL DEF Client!Spec

\* After Start failed and after Stop nothing delivers and nothing is connected,
\* whichever step failed and whatever connected late (Start, Stop).
THEOREM ClientNothingRunsAfter == ClientOK => (Client!Spec => []Client!NothingRunsAfter)
<1> SUFFICES ASSUME ClientOK PROVE Client!Spec => []Client!NothingRunsAfter  OBVIOUS
<1>1. ClientInv => Client!NothingRunsAfter  BY DEF ClientInv, Client!NothingRunsAfter
<1> QED BY <1>1, ClientInvariance, PTL

\* Once Start has returned quiesce counts every unsettled delivery (Unsettled).
THEOREM ClientCountsHonest == ClientOK => (Client!Spec => []Client!CountsHonest)
<1> SUFFICES ASSUME ClientOK PROVE Client!Spec => []Client!CountsHonest  OBVIOUS
<1>1. ClientInv => Client!CountsHonest  BY DEF ClientInv, Client!CountsHonest, Client!Unsettled
<1> QED BY <1>1, ClientInvariance, PTL

\* A drain that reports clean left nothing unsettled on any receiver (Drain).
THEOREM ClientCleanDrain == ClientOK => (Client!Spec => []Client!CleanDrain)
<1> SUFFICES ASSUME ClientOK PROVE Client!Spec => []Client!CleanDrain  OBVIOUS
<1>1. ClientInv => Client!CleanDrain  BY DEF ClientInv, Client!CleanDrain
<1> QED BY <1>1, ClientInvariance, PTL

\* What is acknowledged upstream was taken by every sender, and none of them
\* settles it later, although the fields are published in between (OnEvent,
\* DeliveryDisposition).
THEOREM ClientAckedMeansSent == ClientOK => (Client!Spec => []Client!AckedMeansSent)
<1> SUFFICES ASSUME ClientOK PROVE Client!Spec => []Client!AckedMeansSent  OBVIOUS
<1>1. ClientEventInv => Client!AckedMeansSent  BY DEF ClientEventInv, Client!AckedMeansSent
<1> QED BY <1>1, ClientInvariance, PTL

\* With no callback outstanding the monitor was told what Ready answers, of a
\* connection that is made late, lost, or never made as well, and to the end of
\* Stop where the library promises it (makeLifecycleHook, reportDisconnected).
THEOREM ClientReportCurrent == ClientOK => (Client!Spec => []Client!ReportCurrent)
<1> SUFFICES ASSUME ClientOK PROVE Client!Spec => []Client!ReportCurrent  OBVIOUS
<1>1. ClientInv => Client!ReportCurrent
  <2> SUFFICES ASSUME ClientInv PROVE Client!ReportCurrent  OBVIOUS
  <2>1. client.kind \in Client!Pushes /\ open => published  BY ClientLast DEF ClientInv
  <2>2. published \in BOOLEAN /\ open \in BOOLEAN  BY DEF ClientInv
  <2>3. client.kind \in Client!Pushes => Client!Ready = open  BY <2>1, <2>2 DEF Client!Ready
  <2> QED BY <2>3 DEF ClientInv, ClientHeard, Client!ReportCurrent
<1> QED BY <1>1, ClientInvariance, PTL

-----------------------------------------------------------------------------
(* Git blocks.                                                             *)

Git == INSTANCE GitFetch WITH
  Blocks <- GitBlocks

\* What a block may hold: destinations that exist, auth attributes that do,
\* and none without an auth block; "other" is nobody's file but the user's.
GitOK ==
  /\ MaxCrashes \in Nat
  /\ \A b \in GitBlocks :
       /\ b.fetches \in Seq([from : Seq(STRING), absolute : BOOLEAN, into : Dirs, overwrite : BOOLEAN])
       /\ b.auth \subseteq Git!Http \cup Git!Ssh
       /\ b.hasAuth \in BOOLEAN /\ b.disabled \in BOOLEAN
       /\ ~b.hasAuth => b.auth = {}
  /\ \A p \in DOMAIN Tree : "other" \notin Tree[p]

\* A directory holds a function of its files.
GitFiles(fs) == fs = [f \in DOMAIN fs |-> fs[f]]
GitDest(x) ==
  \/ x \in {Git!Missing, Git!Plain}
  \/ x = Git!Dir(x.files) /\ GitFiles(x.files)
GitTypes ==
  /\ block \in GitBlocks
  /\ phase \in {"off", "clone", "cloning", "next", "prepare", "clear", "copy", "done", "refused"}
  /\ temps \in Nat /\ crashes \in 0..MaxCrashes
  /\ at \in 0..Len(block.fetches)
  /\ phase \in {"prepare", "clear", "copy"} => at > 0
  /\ disk = [d \in Dirs |-> disk[d]]
  /\ \A d \in Dirs : GitDest(disk[d])

GitTemps ==
  /\ Git!TempsRemoved
  /\ phase \in {"cloning", "next", "prepare", "clear", "copy"} => temps > 0

\* Past the clone the block is a valid one, and the method is one it gives.
GitCloned ==
  /\ phase \in {"clone", "cloning", "next", "prepare", "clear", "copy"} =>
       ~block.disabled /\ Git!Valid
  /\ phase \in {"next", "prepare", "clear", "copy"} =>
       \E home \in BOOLEAN : method = Git!AuthMethod(home) /\ method # "refused"

\* While a destination is written, it holds nothing but what was copied.
GitCopying ==
  /\ phase \in {"clear", "copy"} =>
       /\ disk[Git!Fetch.into].kind = "dir"
       /\ Git!Clean(Git!Fetch.from) \in DOMAIN Tree
       /\ todo \subseteq Git!Copies(Git!Fetch)
  /\ phase = "clear" => Git!Fetch.overwrite /\ todo = Git!Copies(Git!Fetch)
  /\ phase = "copy" =>
       LET fs == disk[Git!Fetch.into].files IN
       /\ Git!Copies(Git!Fetch) \ todo \subseteq DOMAIN fs
       /\ DOMAIN fs \subseteq Git!Copies(Git!Fetch)
       /\ \A f \in DOMAIN fs : fs[f] = IF f \in todo THEN "cut" ELSE "whole"

\* What has been fetched stands, if nothing is fetched over it.
GitHas(f) == Git!FilesOf(f.into) = [g \in Git!Copies(f) |-> "whole"]
GitFetched(n) == \A i \in 1..n : GitHas(block.fetches[i])
GitStands ==
  Git!Own =>
    /\ phase = "next" => GitFetched(at)
    /\ phase \in {"prepare", "clear", "copy"} => GitFetched(at - 1)
    /\ phase = "done" /\ ~block.disabled => GitFetched(Len(block.fetches))

GitInv == GitTypes /\ GitTemps /\ GitCloned /\ GitCopying /\ GitStands

LEMMA GitInit == GitOK /\ Git!Init => GitInv
<1> SUFFICES ASSUME GitOK, Git!Init PROVE GitInv  OBVIOUS
<1>1. GitTypes
  <2>1. \A d \in Dirs : disk[d] \in {Git!Missing, Git!Plain, Git!Dir(Git!NoFiles), Git!Dir([f \in {"other"} |-> "foreign"])}
    BY DEF Git!Init
  <2>2. \A d \in Dirs : GitDest(disk[d])
    BY <2>1 DEF GitDest, Git!Dir, GitFiles, Git!NoFiles
  <2>3. block.fetches \in Seq([from : Seq(STRING), absolute : BOOLEAN, into : Dirs, overwrite : BOOLEAN])
    BY DEF Git!Init, GitOK
  <2> QED  BY <2>2, <2>3 DEF GitTypes, Git!Init, GitOK
<1>2. GitTemps /\ GitCloned /\ GitCopying /\ GitStands
  BY DEF Git!Init, GitTemps, Git!TempsRemoved, GitCloned, GitCopying, GitStands
<1> QED  BY <1>1, <1>2 DEF GitInv

LEMMA GitShape ==
  ASSUME GitOK, GitTypes
  PROVE  /\ block.fetches \in Seq([from : Seq(STRING), absolute : BOOLEAN, into : Dirs, overwrite : BOOLEAN])
         /\ Len(block.fetches) \in Nat /\ DOMAIN block.fetches = 1..Len(block.fetches)
         /\ \A i \in 1..Len(block.fetches) : block.fetches[i].into \in Dirs
         /\ phase \in {"prepare", "clear", "copy"} =>
              at \in 1..Len(block.fetches) /\ Git!Fetch = block.fetches[at] /\ Git!Fetch.into \in Dirs
<1> DEFINE F == [from : Seq(STRING), absolute : BOOLEAN, into : Dirs, overwrite : BOOLEAN]
<1>1. block.fetches \in Seq(F)
  BY DEF GitOK, GitTypes
<1>2. \A f \in F : f.into \in Dirs
  OBVIOUS
<1> HIDE DEF F
<1>3. \A i \in 1..Len(block.fetches) : block.fetches[i] \in F
  BY <1>1
<1>4. Len(block.fetches) \in Nat /\ DOMAIN block.fetches = 1..Len(block.fetches)
  BY <1>1
<1>5. phase \in {"prepare", "clear", "copy"} => at \in 1..Len(block.fetches)
  BY <1>4 DEF GitTypes
<1> QED  BY <1>1, <1>2, <1>3, <1>4, <1>5 DEF Git!Fetch, F

\* Writing a directory.
LEMMA GitPut ==
  ASSUME GitTypes, NEW D \in Dirs, NEW gs, GitFiles(gs), disk' = [disk EXCEPT ![D] = Git!Dir(gs)]
  PROVE  /\ disk' = [d \in Dirs |-> disk'[d]]
         /\ \A d \in Dirs : GitDest(disk'[d])
         /\ \A d \in Dirs : disk'[d] = IF d = D THEN Git!Dir(gs) ELSE disk[d]
         /\ disk'[D].files = gs /\ disk'[D].kind = "dir"
<1>1. \A d \in Dirs : disk'[d] = IF d = D THEN Git!Dir(gs) ELSE disk[d]
  BY DEF GitTypes
<1>2. Git!Dir(gs).files = gs /\ Git!Dir(gs).kind = "dir"
  BY DEF Git!Dir
<1>3. disk' = [d \in Dirs |-> disk'[d]]
  BY DEF GitTypes
<1>4. \A d \in Dirs : GitDest(disk'[d])
  BY <1>1, <1>2 DEF GitTypes, GitDest
<1> QED  BY <1>1, <1>2, <1>3, <1>4

\* Removing a file, and writing one.
LEMMA GitWithout ==
  ASSUME GitTypes, NEW D \in Dirs, disk[D].kind = "dir", NEW f
  PROVE  Git!Without(D, f) = [disk EXCEPT ![D] = Git!Dir([g \in DOMAIN disk[D].files \ {f} |-> disk[D].files[g]])]
<1> DEFINE F == disk[D].files
           wo == [g \in DOMAIN F \ {f} |-> F[g]]
<1>1. disk[D] = [kind |-> "dir", files |-> F]
  BY DEF GitTypes, GitDest, Git!Missing, Git!Plain, Git!Dir
<1>2. Git!Without(D, f) = [disk EXCEPT ![D] = [disk[D] EXCEPT !.files = wo]]
  BY DEF Git!Without
<1> HIDE DEF F, wo
<1>3. [disk[D] EXCEPT !.files = wo] = [kind |-> "dir", files |-> wo]
  BY <1>1
<1> QED  BY <1>2, <1>3 DEF Git!Dir, F, wo

GitWritten(D, f, v) == [g \in DOMAIN disk[D].files \cup {f} |-> IF g = f THEN v ELSE disk[D].files[g]]
LEMMA GitWith ==
  ASSUME GitTypes, NEW D \in Dirs, disk[D].kind = "dir", NEW f, NEW v
  PROVE  Git!With(D, f, v) = [disk EXCEPT ![D] = Git!Dir(GitWritten(D, f, v))]
<1> DEFINE F == disk[D].files
           wi == GitWritten(D, f, v)
<1>1. disk[D] = [kind |-> "dir", files |-> F]
  BY DEF GitTypes, GitDest, Git!Missing, Git!Plain, Git!Dir
<1>2. Git!With(D, f, v) = [disk EXCEPT ![D] = [disk[D] EXCEPT !.files = wi]]
  BY DEF Git!With, GitWritten
<1> HIDE DEF F, wi
<1>3. [disk[D] EXCEPT !.files = wi] = [kind |-> "dir", files |-> wi]
  BY <1>1
<1> QED  BY <1>2, <1>3 DEF Git!Dir, wi

LEMMA GitTypesStep == GitOK /\ GitInv /\ [Git!Next]_Git!vars => GitTypes'
<1> SUFFICES ASSUME GitOK, GitInv, [Git!Next]_Git!vars PROVE GitTypes'  OBVIOUS
<1>q. MaxCrashes \in Nat  BY DEF GitOK
<1>l. Len(block.fetches) \in Nat  BY GitShape DEF GitInv
<1>p. ASSUME NEW D \in Dirs, NEW gs, GitFiles(gs), disk' = [disk EXCEPT ![D] = Git!Dir(gs)],
             UNCHANGED <<block, crashes, at, temps>>, phase \in {"prepare", "clear", "copy"},
             phase' \in {"copy", phase}
      PROVE  GitTypes'
  <2>1. GitTypes  BY DEF GitInv
  <2>2. (disk' = [d \in Dirs |-> disk'[d]]) /\ \A d \in Dirs : GitDest(disk'[d])
    BY <1>p, <2>1, GitPut
  <2> QED BY <2>1, <2>2, <1>p DEF GitTypes
<1>1. CASE Git!Validate
  BY <1>1 DEF Git!Validate, GitInv, GitTypes
<1>2. CASE Git!MakeTemp
  BY <1>2 DEF Git!MakeTemp, GitInv, GitTypes
<1>3. CASE Git!Clone
  BY <1>3, <1>l DEF Git!Clone, Git!Leaves, GitInv, GitTypes, GitTemps
<1>4. CASE Git!NextFetch
  BY <1>4, <1>l DEF Git!NextFetch, Git!Leaves, GitInv, GitTypes, GitTemps
<1>5. CASE Git!Prepare
  <2>1. Git!Fetch.into \in Dirs
    BY <1>5, GitShape DEF GitInv, Git!Prepare
  <2>2. CASE disk' = disk
    BY <1>5, <2>2 DEF Git!Prepare, Git!Leaves, GitInv, GitTypes, GitTemps, Git!Reuse
  <2>3. CASE disk' = [disk EXCEPT ![Git!Fetch.into] = Git!Dir(Git!NoFiles)] /\ phase' = "copy" /\ UNCHANGED temps
    <3>1. GitFiles(Git!NoFiles)
      BY DEF Git!NoFiles, GitFiles
    <3> QED BY <2>1, <2>3, <3>1, <1>5, <1>p DEF Git!Prepare
  <2> QED BY <1>5, <2>2, <2>3 DEF Git!Prepare, Git!Leaves
<1>6. CASE Git!Clear
  <2>1. Git!Fetch.into \in Dirs /\ disk[Git!Fetch.into].kind = "dir"
    BY <1>6, GitShape DEF GitInv, Git!Clear, GitCopying
  <2>2. CASE disk' = disk
    BY <1>6, <2>2 DEF Git!Clear, Git!Leaves, GitInv, GitTypes, GitTemps
  <2>3. ASSUME NEW f, disk' = Git!Without(Git!Fetch.into, f), UNCHANGED <<phase, temps>>
        PROVE  GitTypes'
    <3> DEFINE gs == [g \in DOMAIN disk[Git!Fetch.into].files \ {f} |-> disk[Git!Fetch.into].files[g]]
    <3>1. disk' = [disk EXCEPT ![Git!Fetch.into] = Git!Dir(gs)]
      BY <2>1, <2>3, GitWithout DEF GitInv
    <3>2. GitFiles(gs)
      BY DEF GitFiles
    <3> HIDE DEF gs
    <3> QED BY <3>1, <3>2, <2>1, <2>3, <1>6, <1>p DEF Git!Clear
  <2> QED BY <1>6, <2>2, <2>3 DEF Git!Clear, Git!Leaves
<1>7. CASE Git!Copy
  <2>1. Git!Fetch.into \in Dirs /\ disk[Git!Fetch.into].kind = "dir"
    BY <1>7, GitShape DEF GitInv, Git!Copy, GitCopying
  <2>2. CASE disk' = disk
    BY <1>7, <2>2 DEF Git!Copy, Git!Leaves, GitInv, GitTypes, GitTemps
  <2>3. ASSUME NEW f, NEW v, disk' = Git!With(Git!Fetch.into, f, v), UNCHANGED <<phase, temps>>
        PROVE  GitTypes'
    <3> DEFINE gs == GitWritten(Git!Fetch.into, f, v)
    <3>0. GitTypes  BY DEF GitInv
    <3>1. disk' = [disk EXCEPT ![Git!Fetch.into] = Git!Dir(gs)]
      BY <2>1, <2>3, <3>0, GitWith
    <3>2. GitFiles(gs)
      BY DEF GitFiles, GitWritten
    <3> HIDE DEF gs
    <3> QED BY <3>1, <3>2, <2>1, <2>3, <1>7, <1>p DEF Git!Copy
  <2> QED BY <1>7, <2>2, <2>3 DEF Git!Copy, Git!Leaves, Git!Fills
<1>8. CASE Git!Crash \/ Git!Restart
  BY <1>8, <1>q, <1>l DEF Git!Crash, Git!Restart, GitInv, GitTypes
<1>9. CASE UNCHANGED Git!vars
  BY <1>9 DEF Git!vars, GitInv, GitTypes
<1> QED BY <1>1, <1>2, <1>3, <1>4, <1>5, <1>6, <1>7, <1>8, <1>9 DEF Git!Next

LEMMA GitTempsStep == GitOK /\ GitInv /\ [Git!Next]_Git!vars => GitTemps'
<1> SUFFICES ASSUME GitOK, GitInv, [Git!Next]_Git!vars PROVE GitTemps'  OBVIOUS
<1>1. temps \in Nat /\ crashes \in Nat
  BY DEF GitInv, GitTypes, GitOK
<1> USE DEF GitInv, GitTemps, Git!TempsRemoved
<1>2. CASE Git!Validate \/ Git!MakeTemp \/ Git!Clone \/ Git!NextFetch
  BY <1>1, <1>2 DEF Git!Validate, Git!MakeTemp, Git!Clone, Git!NextFetch, Git!Leaves
<1>3. CASE Git!Prepare
  BY <1>1, <1>3 DEF Git!Prepare, Git!Leaves, Git!Reuse
<1>4. CASE Git!Clear \/ Git!Copy
  BY <1>1, <1>4 DEF Git!Clear, Git!Copy, Git!Leaves
<1>5. CASE Git!Crash \/ Git!Restart \/ UNCHANGED Git!vars
  BY <1>1, <1>5 DEF Git!Crash, Git!Restart, Git!vars
<1> QED BY <1>2, <1>3, <1>4, <1>5 DEF Git!Next

LEMMA GitClonedStep == GitOK /\ GitInv /\ [Git!Next]_Git!vars => GitCloned'
<1> SUFFICES ASSUME GitOK, GitInv, [Git!Next]_Git!vars PROVE GitCloned'  OBVIOUS
<1>1. block' = block
  BY DEF Git!Next, Git!vars, Git!Validate, Git!MakeTemp, Git!Clone, Git!NextFetch, Git!Prepare,
         Git!Clear, Git!Copy, Git!Crash, Git!Restart
<1>2. Git!Valid' = Git!Valid /\ \A home \in BOOLEAN : Git!AuthMethod(home)' = Git!AuthMethod(home)
  BY <1>1 DEF Git!Valid, Git!AuthValid, Git!Transport, Git!AuthMethod
<1> USE DEF GitInv, GitCloned
<1>3. CASE Git!Validate
  BY <1>1, <1>2, <1>3 DEF Git!Validate
<1>4. CASE Git!Clone
  BY <1>1, <1>2, <1>4 DEF Git!Clone, Git!Leaves
<1>5. CASE Git!MakeTemp \/ Git!NextFetch
  BY <1>1, <1>2, <1>5 DEF Git!MakeTemp, Git!NextFetch, Git!Leaves
<1>6. CASE Git!Prepare
  BY <1>1, <1>2, <1>6 DEF Git!Prepare, Git!Leaves, Git!Reuse
<1>7. CASE Git!Clear \/ Git!Copy
  BY <1>1, <1>2, <1>7 DEF Git!Clear, Git!Copy, Git!Leaves
<1>8. CASE Git!Crash \/ Git!Restart \/ UNCHANGED Git!vars
  BY <1>1, <1>2, <1>8 DEF Git!Crash, Git!Restart, Git!vars
<1> QED BY <1>3, <1>4, <1>5, <1>6, <1>7, <1>8 DEF Git!Next

\* What the steps that write do to the destination of the fetch under way.
LEMMA GitCopyingStep == GitOK /\ GitInv /\ [Git!Next]_Git!vars => GitCopying'
<1> SUFFICES ASSUME GitOK, GitInv, [Git!Next]_Git!vars PROVE GitCopying'  OBVIOUS
<1>t. GitTypes  BY DEF GitInv
<1>1. CASE Git!Validate \/ Git!MakeTemp \/ Git!Clone \/ Git!NextFetch \/ Git!Crash \/ Git!Restart
  BY <1>1 DEF Git!Validate, Git!MakeTemp, Git!Clone, Git!NextFetch, Git!Crash, Git!Restart, Git!Leaves, GitCopying
<1>2. CASE Git!Prepare
  <2>0. CASE phase' = "refused"
    BY <2>0 DEF GitCopying
  <2>1. Git!Fetch.into \in Dirs
    BY <1>2, <1>t, GitShape DEF Git!Prepare
  <2>2. Git!Fetch' = Git!Fetch
    BY <1>2 DEF Git!Prepare, Git!Fetch
  <2>3. CASE phase' # "refused"
    <3>1. Git!Clean(Git!Fetch.from) \in DOMAIN Tree /\ todo' = Git!Copies(Git!Fetch)
      BY <1>2, <2>3 DEF Git!Prepare, Git!Leaves
    <3>2. CASE phase' = "clear"
      <4>1. disk' = disk /\ disk[Git!Fetch.into].kind = "dir" /\ Git!Fetch.overwrite
        BY <1>2, <3>2 DEF Git!Prepare, Git!Leaves, Git!MayClear
      <4> QED BY <2>2, <3>1, <3>2, <4>1 DEF GitCopying, Git!Copies
    <3>3. CASE phase' # "clear"
      <4>1. phase' = "copy" /\ disk' = [disk EXCEPT ![Git!Fetch.into] = Git!Dir(Git!NoFiles)]
        BY <1>2, <2>3, <3>3 DEF Git!Prepare, Git!Leaves, Git!Reuse
      <4>2. GitFiles(Git!NoFiles)
        BY DEF GitFiles, Git!NoFiles
      <4>3. disk'[Git!Fetch.into].files = Git!NoFiles /\ disk'[Git!Fetch.into].kind = "dir"
        BY <2>1, <4>1, <4>2, <1>t, GitPut
      <4>4. DOMAIN Git!NoFiles = {}
        BY DEF Git!NoFiles
      <4> QED BY <2>2, <3>1, <4>1, <4>3, <4>4 DEF GitCopying, Git!Copies
    <3> QED BY <3>2, <3>3
  <2> QED BY <2>0, <2>3
<1>3. CASE Git!Clear
  <2>0. CASE phase' = "refused"
    BY <2>0 DEF GitCopying
  <2>1. Git!Fetch.into \in Dirs /\ disk[Git!Fetch.into].kind = "dir" /\ Git!Fetch' = Git!Fetch /\ todo' = todo
    BY <1>3, <1>t, GitShape DEF Git!Clear, GitInv, GitCopying, Git!Fetch
  <2>2. Git!Clean(Git!Fetch.from) \in DOMAIN Tree /\ todo = Git!Copies(Git!Fetch) /\ Git!Fetch.overwrite
    BY <1>3 DEF Git!Clear, GitInv, GitCopying
  <2>3. ASSUME NEW f, disk' = Git!Without(Git!Fetch.into, f), phase' = phase
        PROVE  GitCopying'
    <3> DEFINE gs == [g \in DOMAIN disk[Git!Fetch.into].files \ {f} |-> disk[Git!Fetch.into].files[g]]
    <3>1. disk' = [disk EXCEPT ![Git!Fetch.into] = Git!Dir(gs)]
      BY <2>1, <2>3, <1>t, GitWithout
    <3>2. GitFiles(gs)
      BY DEF GitFiles
    <3> HIDE DEF gs
    <3>3. disk'[Git!Fetch.into].kind = "dir"
      BY <2>1, <3>1, <3>2, <1>t, GitPut
    <3>4. phase = "clear"
      BY <1>3 DEF Git!Clear
    <3> QED BY <2>1, <2>2, <2>3, <3>3, <3>4 DEF GitCopying, Git!Copies
  <2>4. CASE DOMAIN Git!FilesOf(Git!Fetch.into) = {} /\ phase' = "copy" /\ UNCHANGED <<disk, temps>>
    <3>1. Git!FilesOf(Git!Fetch.into) = disk[Git!Fetch.into].files
      BY <2>1 DEF Git!FilesOf
    <3> QED BY <2>1, <2>2, <2>4, <3>1 DEF GitCopying, Git!Copies
  <2> QED BY <1>3, <2>0, <2>3, <2>4 DEF Git!Clear, Git!Leaves
<1>4. CASE Git!Copy
  <2>0. CASE phase' \in {"refused", "next"}
    BY <2>0 DEF GitCopying
  <2> DEFINE D == Git!Fetch.into
             fs == disk[D].files
             C == Git!Copies(Git!Fetch)
  <2>1. D \in Dirs /\ disk[D].kind = "dir" /\ Git!Fetch' = Git!Fetch
    BY <1>4, <1>t, GitShape DEF Git!Copy, GitInv, GitCopying, Git!Fetch
  <2>2. /\ Git!Clean(Git!Fetch.from) \in DOMAIN Tree /\ todo \subseteq C
        /\ C \ todo \subseteq DOMAIN fs /\ DOMAIN fs \subseteq C
        /\ \A f \in DOMAIN fs : fs[f] = IF f \in todo THEN "cut" ELSE "whole"
    BY <1>4 DEF Git!Copy, GitInv, GitCopying
  <2>3. ASSUME NEW f \in todo, NEW v, disk' = Git!With(D, f, v), phase' = phase,
               \/ v = "cut" /\ todo' = todo
               \/ v = "whole" /\ todo' = todo \ {f}
        PROVE  GitCopying'
    <3> DEFINE gs == GitWritten(D, f, v)
    <3>1. disk' = [disk EXCEPT ![D] = Git!Dir(gs)]
      BY <2>1, <2>3, <1>t, GitWith
    <3>2. GitFiles(gs)
      BY DEF GitFiles, GitWritten
    <3>3. disk'[D].kind = "dir" /\ disk'[D].files = gs
      <4> HIDE DEF gs, D
      <4> QED BY <2>1, <3>1, <3>2, <1>t, GitPut
    <3>4. phase = "copy"
      BY <1>4 DEF Git!Copy
    <3>5. /\ C \ todo' \subseteq DOMAIN gs /\ DOMAIN gs \subseteq C /\ todo' \subseteq C
          /\ \A g \in DOMAIN gs : gs[g] = IF g \in todo' THEN "cut" ELSE "whole"
      <4> HIDE DEF C, D
      <4> QED BY <2>2, <2>3 DEF GitWritten
    <3> HIDE DEF gs
    <3> QED BY <2>1, <2>2, <2>3, <3>3, <3>4, <3>5 DEF GitCopying, Git!Copies
  <2> QED BY <1>4, <2>0, <2>3 DEF Git!Copy, Git!Leaves, Git!Fills
<1>5. CASE UNCHANGED Git!vars
  BY <1>5 DEF Git!vars, GitInv, GitCopying, Git!Fetch, Git!Copies
<1> QED BY <1>1, <1>2, <1>3, <1>4, <1>5 DEF Git!Next

LEMMA GitStandsStep == GitOK /\ GitInv /\ [Git!Next]_Git!vars => GitStands'
<1> SUFFICES ASSUME GitOK, GitInv, [Git!Next]_Git!vars
             PROVE  GitStands'
  OBVIOUS
<1>b. block' = block
  BY DEF Git!Next, Git!vars, Git!Validate, Git!MakeTemp, Git!Clone, Git!NextFetch, Git!Prepare,
         Git!Clear, Git!Copy, Git!Crash, Git!Restart
<1>o. Git!Own' = Git!Own
  BY <1>b DEF Git!Own
<1> SUFFICES ASSUME Git!Own PROVE GitStands'
  BY <1>o DEF GitStands
<1>t. GitTypes  BY DEF GitInv
<1>l. Len(block.fetches) \in Nat /\ at \in 0..Len(block.fetches) /\ DOMAIN block.fetches = 1..Len(block.fetches)
  BY <1>t, GitShape DEF GitTypes
<1>u. ASSUME UNCHANGED <<block, disk>>, NEW n PROVE GitFetched(n)' = GitFetched(n)
  BY <1>u DEF GitFetched, GitHas, Git!FilesOf, Git!Copies
<1>w. ASSUME phase \in {"prepare", "clear", "copy"}, UNCHANGED <<block, at>>,
             \A d \in Dirs : d # Git!Fetch.into => disk'[d] = disk[d]
      PROVE  GitFetched(at - 1)'
  <2>1. GitFetched(at - 1) /\ at \in 1..Len(block.fetches) /\ Git!Fetch = block.fetches[at]
    BY <1>w, <1>t, GitShape DEF GitInv, GitStands
  <2>2. ASSUME NEW i \in 1..(at - 1) PROVE GitHas(block.fetches[i])'
    <3>1. i \in 1..Len(block.fetches) /\ i # at
      BY <2>1, <1>l
    <3>2. block.fetches[i].into # Git!Fetch.into
      BY <2>1, <3>1, <1>l DEF Git!Own
    <3>3. block.fetches[i].into \in Dirs
      BY <3>1, <1>t, GitShape
    <3>4. disk'[block.fetches[i].into] = disk[block.fetches[i].into]
      BY <3>2, <3>3, <1>w
    <3>5. GitHas(block.fetches[i])
      BY <2>1 DEF GitFetched
    <3> QED BY <3>4, <3>5, <1>w DEF GitHas, Git!FilesOf, Git!Copies
  <2> QED BY <2>2, <1>w DEF GitFetched
<1>1. CASE Git!Validate
  BY <1>1 DEF Git!Validate, GitStands
<1>2. CASE Git!MakeTemp \/ Git!Crash \/ Git!Restart
  BY <1>2 DEF Git!MakeTemp, Git!Crash, Git!Restart, GitStands
<1>3. CASE Git!Clone
  <2>1. phase' = "refused" \/ (phase' = "next" /\ at' = 0)
    BY <1>3 DEF Git!Clone, Git!Leaves
  <2>2. at' = 0 => GitFetched(at)'
    BY DEF GitFetched
  <2> QED BY <2>1, <2>2 DEF GitStands
<1>4. CASE Git!NextFetch
  <2>1. GitFetched(at) /\ UNCHANGED <<block, disk>>
    BY <1>4 DEF Git!NextFetch, GitInv, GitStands
  <2>3. CASE at = Len(block.fetches)
    <3>1. phase' = "done" /\ at' = at
      BY <1>4, <2>3 DEF Git!NextFetch, Git!Leaves
    <3>2. GitFetched(at)'
      BY <2>1, <3>1, <1>u DEF GitFetched
    <3> QED BY <2>3, <3>1, <3>2, <2>1 DEF GitStands
  <2>4. CASE at # Len(block.fetches)
    <3>1. phase' = "prepare" /\ at' = at + 1
      BY <1>4, <2>4 DEF Git!NextFetch, Git!Leaves
    <3>2. at' - 1 = at
      BY <3>1, <1>l
    <3>3. GitFetched(at - 1)'
      BY <2>1, <3>2, <1>u DEF GitFetched
    <3> QED BY <3>1, <3>3 DEF GitStands
  <2> QED BY <2>3, <2>4
<1>5. CASE Git!Prepare
  <2>1. \A d \in Dirs : d # Git!Fetch.into => disk'[d] = disk[d]
    BY <1>5, <1>t DEF Git!Prepare, Git!Leaves, GitTypes
  <2>2. GitFetched(at - 1)'
    BY <1>5, <2>1, <1>w DEF Git!Prepare
  <2>3. phase' \in {"refused", "clear", "copy"}
    BY <1>5 DEF Git!Prepare, Git!Leaves, Git!Reuse
  <2> QED BY <2>2, <2>3 DEF GitStands
<1>6. CASE Git!Clear
  <2>1. Git!Fetch.into \in Dirs /\ disk[Git!Fetch.into].kind = "dir"
    BY <1>6, <1>t, GitShape DEF GitInv, Git!Clear, GitCopying
  <2>2. \A d \in Dirs : d # Git!Fetch.into => disk'[d] = disk[d]
    <3>1. ASSUME NEW f, disk' = Git!Without(Git!Fetch.into, f)
          PROVE  \A d \in Dirs : d # Git!Fetch.into => disk'[d] = disk[d]
      BY <3>1, <1>t DEF Git!Without, GitTypes
    <3> QED BY <3>1, <1>6 DEF Git!Clear, Git!Leaves
  <2>3. GitFetched(at - 1)'
    BY <1>6, <2>2, <1>w DEF Git!Clear
  <2>4. phase' \in {"refused", "clear", "copy"}
    BY <1>6 DEF Git!Clear, Git!Leaves
  <2> QED BY <2>3, <2>4 DEF GitStands
<1>7. CASE Git!Copy
  <2>1. \A d \in Dirs : d # Git!Fetch.into => disk'[d] = disk[d]
    <3>1. ASSUME NEW f, NEW v, disk' = Git!With(Git!Fetch.into, f, v)
          PROVE  \A d \in Dirs : d # Git!Fetch.into => disk'[d] = disk[d]
      BY <3>1, <1>t DEF Git!With, GitTypes
    <3> QED BY <3>1, <1>7 DEF Git!Copy, Git!Leaves, Git!Fills
  <2>2. GitFetched(at - 1)'
    BY <1>7, <2>1, <1>w DEF Git!Copy
  <2>3. phase' \in {"refused", "copy"} \/ (phase' = "next" /\ todo = {} /\ UNCHANGED <<disk, todo>>)
    BY <1>7 DEF Git!Copy, Git!Leaves
  <2>4. CASE phase' = "next" /\ todo = {} /\ UNCHANGED <<disk, todo>>
    <3>1. Git!Fetch.into \in Dirs /\ Git!Fetch = block.fetches[at] /\ at \in 1..Len(block.fetches)
      BY <1>7, <1>t, GitShape DEF Git!Copy
    <3>2. GitHas(Git!Fetch)
      <4> DEFINE fs == disk[Git!Fetch.into].files
      <4>1. /\ disk[Git!Fetch.into].kind = "dir"
            /\ DOMAIN fs = Git!Copies(Git!Fetch) /\ \A f \in DOMAIN fs : fs[f] = "whole"
        BY <1>7, <2>4 DEF Git!Copy, GitInv, GitCopying
      <4>2. GitFiles(fs)
        BY <3>1, <4>1, <1>t DEF GitTypes, GitDest, Git!Missing, Git!Plain
      <4>3. fs = [g \in Git!Copies(Git!Fetch) |-> "whole"]
        <5> HIDE DEF fs
        <5> QED BY <4>1, <4>2 DEF GitFiles
      <4> QED BY <4>1, <4>3 DEF GitHas, Git!FilesOf
    <3>3. UNCHANGED <<block, at>>
      BY <1>7 DEF Git!Copy
    <3>4. GitHas(block.fetches[at])'
      BY <3>1, <3>2, <3>3, <2>4 DEF GitHas, Git!FilesOf, Git!Copies
    <3>5. \A i \in 1..at : i \in 1..(at - 1) \/ i = at
      BY <1>l
    <3>6. GitFetched(at)'
      BY <2>2, <3>3, <3>4, <3>5 DEF GitFetched
    <3> QED BY <2>4, <3>6 DEF GitStands
  <2> QED BY <2>2, <2>3, <2>4 DEF GitStands
<1>8. CASE UNCHANGED Git!vars
  BY <1>8, <1>u DEF Git!vars, GitInv, GitStands
<1> QED BY <1>1, <1>2, <1>3, <1>4, <1>5, <1>6, <1>7, <1>8 DEF Git!Next

LEMMA GitInvariant == GitOK => (Git!Spec => []GitInv)
<1> SUFFICES ASSUME GitOK PROVE Git!Spec => []GitInv
  OBVIOUS
<1>1. GitInv /\ [Git!Next]_Git!vars => GitInv'
  BY GitTypesStep, GitTempsStep, GitClonedStep, GitCopyingStep, GitStandsStep DEF GitInv
<1>2. Git!Init => GitInv
  BY GitInit
<1> QED BY <1>1, <1>2, PTL DEF Git!Spec

\* Types: clones, the fetch under way and what is at a destination.
THEOREM GitTypeCorrect == GitOK => (Git!Spec => []Git!TypeOK)
<1> SUFFICES ASSUME GitOK PROVE Git!Spec => []Git!TypeOK
  OBVIOUS
<1>i. Git!Spec => []GitInv
  BY GitInvariant
<1>1. GitInv => Git!TypeOK
  <2> SUFFICES ASSUME GitInv PROVE Git!TypeOK  OBVIOUS
  <2>1. temps \in 0..(MaxCrashes + 1)
    BY DEF GitOK, GitInv, GitTypes, GitTemps, Git!TempsRemoved
  <2>2. \A d \in Dirs : disk[d].kind \in {"missing", "file", "dir"}
    BY DEF GitInv, GitTypes, GitDest, Git!Missing, Git!Plain, Git!Dir
  <2> QED BY <2>1, <2>2 DEF GitInv, GitTypes, Git!TypeOK
<1> QED BY <1>1, <1>i, PTL

\* Only a process that was killed leaves its clone behind.
THEOREM GitTempsRemoved == GitOK => (Git!Spec => []Git!TempsRemoved)
<1> SUFFICES ASSUME GitOK PROVE Git!Spec => []Git!TempsRemoved
  OBVIOUS
<1>i. Git!Spec => []GitInv
  BY GitInvariant
<1>1. GitInv => Git!TempsRemoved
  BY DEF GitInv, GitTemps
<1> QED BY <1>1, <1>i, PTL

\* For every tree and block: a process that goes on finds each destination as
\* the repository has it, whatever was killed before (materialize).
THEOREM GitFetchesWhole == GitOK => (Git!Spec => []Git!FetchedWhole)
<1> SUFFICES ASSUME GitOK PROVE Git!Spec => []Git!FetchedWhole
  OBVIOUS
<1>i. Git!Spec => []GitInv
  BY GitInvariant
<1>1. GitInv => Git!FetchedWhole
  <2> SUFFICES ASSUME GitInv, phase = "done", ~block.disabled, Git!Own,
                      NEW i \in DOMAIN block.fetches
               PROVE  Git!FilesOf(block.fetches[i].into) = [g \in Git!Copies(block.fetches[i]) |-> "whole"]
    BY DEF Git!FetchedWhole
  <2>1. GitFetched(Len(block.fetches))
    BY DEF GitInv, GitStands
  <2>2. i \in 1..Len(block.fetches)
    BY GitShape DEF GitInv
  <2> QED BY <2>1, <2>2 DEF GitFetched, GitHas
<1> QED BY <1>1, <1>i, PTL

\* A credential given is used, and only over its own transport, for every URL and
\* set of attributes (gitAuthMethod).
THEOREM GitCredentialUsed == GitOK => (Git!Spec => []Git!CredentialUsed)
<1> SUFFICES ASSUME GitOK PROVE Git!Spec => []Git!CredentialUsed
  OBVIOUS
<1>i. Git!Spec => []GitInv
  BY GitInvariant
<1>1. GitInv => Git!CredentialUsed
  <2> SUFFICES ASSUME GitInv, phase \in {"next", "prepare", "clear", "copy"}
               PROVE  Git!CredentialUsed
    BY DEF Git!CredentialUsed
  <2>1. /\ block.auth \subseteq Git!Http \cup Git!Ssh /\ block.hasAuth \in BOOLEAN
        /\ ~block.hasAuth => block.auth = {}
    BY DEF GitOK, GitInv, GitTypes
  <2>2. Git!AuthValid
    BY DEF GitInv, GitCloned, Git!Valid
  <2>3. PICK home \in BOOLEAN : method = Git!AuthMethod(home) /\ method # "refused"
    BY DEF GitInv, GitCloned
  <2> HIDE DEF GitOK, GitInv
  <2>4. CASE Git!Transport = "local"
    BY <2>1, <2>2, <2>3, <2>4 DEF Git!AuthValid, Git!AuthMethod, Git!CredentialUsed
  <2>5. CASE Git!Transport = "http"
    <3>1. block.repo \in {"http", "https"}
      BY <2>5 DEF Git!Transport
    <3> QED BY <2>1, <2>2, <2>3, <2>5, <3>1 DEF Git!AuthValid, Git!AuthMethod, Git!CredentialUsed, Git!Http, Git!Ssh
  <2>6. CASE Git!Transport = "ssh"
    <3>0. ~(Git!Transport = "http") /\ ~(Git!Transport = "local")
      BY <2>6
    <3>1. method \in {"none", "refused", "key, any host", "key, known host"}
      BY <2>3, <2>6, <3>0 DEF Git!AuthMethod
    <3>2. CASE ~block.hasAuth
      <4>1. method = "none" /\ block.auth = {}
        BY <2>1, <2>3, <3>0, <3>2 DEF Git!AuthMethod
      <4> QED BY ONLY <4>1, <2>6, <3>2 DEF Git!CredentialUsed
    <3>k. ASSUME block.hasAuth PROVE ~(block.auth \cap {"private_key", "private_key_file"} = {})
      BY <2>3, <2>6, <3>0, <3>k DEF Git!AuthMethod
    <3>3. CASE block.hasAuth /\ "insecure" \in block.auth
      <4>1. method = "key, any host"
        <5>1. Git!AuthMethod(home) = "key, any host"
          BY ONLY <2>6, <3>0, <3>k, <3>3 DEF Git!AuthMethod
        <5> QED BY <5>1, <2>3
      <4> QED BY ONLY <4>1, <2>6, <3>3 DEF Git!CredentialUsed
    <3>4. CASE block.hasAuth /\ "insecure" \notin block.auth
      <4>1. Git!AuthMethod(home) \in {"key, known host", "refused"}
        BY ONLY <2>6, <3>0, <3>k, <3>4 DEF Git!AuthMethod
      <4>2. method = "key, known host"
        BY <4>1, <2>3
      <4> QED BY ONLY <4>2, <2>6, <3>4 DEF Git!CredentialUsed
    <3> QED BY <2>1, <3>2, <3>3, <3>4
  <2> QED BY <2>4, <2>5, <2>6 DEF Git!Transport
<1> QED BY <1>1, <1>i, PTL

\* Without overwrite no step, kill or repetition touches a destination that
\* holds what another put there (clearDestination).
THEOREM GitKeepsForeign == GitOK => (Git!Spec => [][Git!ForeignKept]_Git!vars)
<1> SUFFICES ASSUME GitOK PROVE Git!Spec => [][Git!ForeignKept]_Git!vars
  OBVIOUS
<1>i. Git!Spec => []GitInv
  BY GitInvariant
<1>1. GitInv /\ [Git!Next]_Git!vars => [Git!ForeignKept]_Git!vars
  <2> SUFFICES ASSUME GitInv, Git!Next, NEW d \in Dirs,
                      \A i \in DOMAIN block.fetches : block.fetches[i].into = d => ~block.fetches[i].overwrite,
                      "other" \in DOMAIN Git!FilesOf(d)
               PROVE  disk'[d] = disk[d]
    BY DEF Git!ForeignKept
  <2>t. GitTypes  BY DEF GitInv
  <2>s. phase \in {"prepare", "clear", "copy"} =>
          /\ at \in DOMAIN block.fetches /\ Git!Fetch = block.fetches[at] /\ Git!Fetch.into \in Dirs
          /\ Git!Fetch.into = d => ~Git!Fetch.overwrite
    BY <2>t, GitShape
  <2>1. CASE Git!Prepare
    <3>1. CASE disk' = [disk EXCEPT ![Git!Fetch.into] = Git!Dir(Git!NoFiles)]
               /\ (disk[Git!Fetch.into] = Git!Missing
                     \/ (disk[Git!Fetch.into].kind = "dir" /\ disk[Git!Fetch.into].files = Git!NoFiles))
      <4>1. Git!Fetch.into # d
        BY <3>1 DEF Git!FilesOf, Git!NoFiles, Git!Missing
      <4> QED BY <3>1, <4>1, <2>t DEF GitTypes
    <3> QED BY <2>1, <3>1 DEF Git!Prepare, Git!Leaves
  <2>2. CASE Git!Clear
    <3>1. Git!Fetch.into # d
      BY <2>2, <2>s DEF Git!Clear, GitInv, GitCopying
    <3>2. ASSUME NEW f, disk' = Git!Without(Git!Fetch.into, f) PROVE disk'[d] = disk[d]
      BY <3>1, <3>2, <2>t DEF Git!Without, GitTypes
    <3> QED BY <3>2, <2>2 DEF Git!Clear, Git!Leaves
  <2>3. CASE Git!Copy
    <3>1. Git!Fetch.into # d
      <4>1. phase = "copy"  BY <2>3 DEF Git!Copy
      <4>2. "other" \notin Git!Copies(Git!Fetch)
        BY <4>1 DEF GitInv, GitCopying, GitOK, Git!Copies
      <4>3. "other" \notin DOMAIN Git!FilesOf(Git!Fetch.into)
        BY <4>1, <4>2 DEF GitInv, GitCopying, Git!FilesOf
      <4> QED BY <4>3
    <3>2. ASSUME NEW f, NEW v, disk' = Git!With(Git!Fetch.into, f, v) PROVE disk'[d] = disk[d]
      BY <3>1, <3>2, <2>t DEF Git!With, GitTypes
    <3> QED BY <3>2, <2>3 DEF Git!Copy, Git!Leaves, Git!Fills
  <2>4. CASE Git!Validate \/ Git!MakeTemp \/ Git!Clone \/ Git!NextFetch \/ Git!Crash \/ Git!Restart
    BY <2>4 DEF Git!Validate, Git!MakeTemp, Git!Clone, Git!NextFetch, Git!Crash, Git!Restart
  <2> QED BY <2>1, <2>2, <2>3, <2>4 DEF Git!Next
<1> QED BY <1>1, <1>i, PTL DEF Git!Spec

-----------------------------------------------------------------------------
\* What a path is made of, and the directory of the clone.
GitNames == STRING \cup {"work"}

\* filepath.Clean as a recursion over the components: it is defined.
GitStep(s, path, n) == [i \in 0..n |-> IF i = 0 THEN <<>> ELSE Git!Push(s[i - 1], path[i])]

LEMMA GitStackExists ==
  ASSUME NEW path \in Seq(GitNames), NEW n \in Nat, n <= Len(path)
  PROVE  \E s : s = GitStep(s, path, n)
<1> DEFINE P(k) == \E s : s = GitStep(s, path, k)
           T == {k \in 0..n : P(k)}
<1>0. P(0)
  <2>1. [i \in 0..0 |-> <<>>] = GitStep([i \in 0..0 |-> <<>>], path, 0)
    BY DEF GitStep
  <2> QED BY <2>1
<1>1. ASSUME NEW k \in Nat, P(k) PROVE P(k + 1)
  <2>1. PICK s : s = GitStep(s, path, k)
    BY <1>1
  <2> DEFINE t == [i \in 0..(k + 1) |-> IF i = k + 1 THEN Git!Push(s[k], path[k + 1]) ELSE s[i]]
  <2>2. \A i \in 0..k : s[i] = IF i = 0 THEN <<>> ELSE Git!Push(s[i - 1], path[i])
    BY <2>1, Zenon DEF GitStep
  <2>3. \A i \in 0..(k + 1) : t[i] = IF i = 0 THEN <<>> ELSE Git!Push(t[i - 1], path[i])
    BY <2>2
  <2>4. t = GitStep(t, path, k + 1)
    <3>1. t = [i \in 0..(k + 1) |-> t[i]]  OBVIOUS
    <3> HIDE DEF t
    <3> QED BY <2>3, <3>1 DEF GitStep
  <2> QED BY <2>4
<1> HIDE DEF P
<1>2. 0 \in T /\ \A i \in 0..(n - 1) : i \in T => i + 1 \in T
  BY <1>0, <1>1
<1>3. n \in T => P(n)
  OBVIOUS
<1>4. 0..n \subseteq T
  <2> HIDE DEF T
  <2> QED BY <1>2, UpTo
<1>5. P(n)
  BY <1>3, <1>4
<1> QED BY <1>5 DEF P

\* What it computes, component by component.
LEMMA GitClean ==
  ASSUME NEW path \in Seq(GitNames)
  PROVE  \E s : /\ Git!Clean(path) = s[Len(path)] /\ s[0] = <<>>
                /\ \A i \in 1..Len(path) : s[i] = Git!Push(s[i - 1], path[i])
<1> DEFINE n == Len(path)
           s == CHOOSE s : s = GitStep(s, path, n)
<1>1. n \in Nat /\ n <= Len(path)  OBVIOUS
<1>2. s = GitStep(s, path, n)
  BY <1>1, GitStackExists
<1>3. Git!Clean(path) = s[n]
  BY DEF Git!Clean, GitStep
<1> HIDE DEF s
<1>4. \A i \in 0..n : s[i] = IF i = 0 THEN <<>> ELSE Git!Push(s[i - 1], path[i])
  BY <1>2, Zenon DEF GitStep
<1> QED BY <1>1, <1>3, <1>4

\* A cleaned path has no "." and has ".." only at its beginning.
GitNormal(q) ==
  /\ q \in Seq(GitNames)
  /\ \A i \in 1..Len(q) : q[i] # "." /\ (q[i] = ".." => \A j \in 1..i : q[j] = "..")

LEMMA GitPush ==
  ASSUME NEW q, GitNormal(q), NEW c \in GitNames
  PROVE  GitNormal(Git!Push(q, c))
<1> USE DEF GitNormal
<1>1. CASE c = "."
  BY <1>1 DEF Git!Push
<1>2. CASE c = ".." /\ q # <<>> /\ Git!Last(q) # ".."
  <2>1. Git!Push(q, c) = SubSeq(q, 1, Len(q) - 1)
    BY <1>2 DEF Git!Push, Git!Front
  <2>2. Len(q) - 1 \in 0..Len(q)  BY <1>2
  <2> DEFINE r == SubSeq(q, 1, Len(q) - 1)
  <2>3. r \in Seq(GitNames) /\ Len(r) = Len(q) - 1 /\ \A i \in 1..Len(r) : r[i] = q[i]
    <3>1. Len(q) - 1 \in Nat /\ Len(q) = (Len(q) - 1) + 1
      BY <1>2
    <3> QED BY <3>1, FrontOf
  <2> HIDE DEF r
  <2>4. GitNormal(r)
    <3>1. \A i \in 1..Len(r) : i \in 1..Len(q)
      BY <2>3
    <3> QED BY <2>3, <3>1
  <2> QED BY <2>1, <2>4 DEF r
<1>3. CASE c # "." /\ ~(c = ".." /\ q # <<>> /\ Git!Last(q) # "..")
  <2>1. Git!Push(q, c) = Append(q, c)
    BY <1>3 DEF Git!Push
  <2> DEFINE r == Append(q, c)
  <2>2. r \in Seq(GitNames) /\ Len(r) = Len(q) + 1 /\ r[Len(q) + 1] = c /\ \A i \in 1..Len(q) : r[i] = q[i]
    OBVIOUS
  <2>3. c = ".." => \A j \in 1..Len(q) : q[j] = ".."
    <3> SUFFICES ASSUME c = "..", NEW j \in 1..Len(q) PROVE q[j] = ".."  OBVIOUS
    <3>1. q[Len(q)] = ".."
      BY <1>3 DEF Git!Last
    <3> QED BY <3>1
  <2> HIDE DEF r
  <2>4. GitNormal(r)
    BY <1>3, <2>2, <2>3
  <2> QED BY <2>1, <2>4 DEF r
<1> QED BY <1>1, <1>2, <1>3

LEMMA GitCleanNormal ==
  ASSUME NEW path \in Seq(GitNames)
  PROVE  GitNormal(Git!Clean(path))
<1>1. PICK s : /\ Git!Clean(path) = s[Len(path)] /\ s[0] = <<>>
               /\ \A i \in 1..Len(path) : s[i] = Git!Push(s[i - 1], path[i])
  BY GitClean
<1> DEFINE T == {i \in 0..Len(path) : GitNormal(s[i])}
<1>2. Len(path) \in Nat  OBVIOUS
<1>3. GitNormal(<<>>)
  BY DEF GitNormal
<1>4. ASSUME NEW i \in 0..(Len(path) - 1), GitNormal(s[i]) PROVE GitNormal(s[i + 1])
  <2>1. i + 1 \in 1..Len(path) /\ (i + 1) - 1 = i /\ path[i + 1] \in GitNames
    BY <1>2
  <2>2. s[i + 1] = Git!Push(s[i], path[i + 1])
    BY <1>1, <2>1
  <2> QED BY <1>4, <2>1, <2>2, GitPush
<1>5. 0 \in T /\ \A i \in 0..(Len(path) - 1) : i \in T => i + 1 \in T
  BY <1>1, <1>2, <1>3, <1>4
<1>6. 0..Len(path) \subseteq T
  <2> HIDE DEF T
  <2> QED BY <1>2, <1>5, UpTo
<1> QED BY <1>1, <1>2, <1>6

\* A path without "." and ".." is its own cleaned form.
LEMMA GitCleanPlain ==
  ASSUME NEW path \in Seq(GitNames), \A i \in 1..Len(path) : path[i] \notin {".", ".."}
  PROVE  Git!Clean(path) = path
<1>1. PICK s : /\ Git!Clean(path) = s[Len(path)] /\ s[0] = <<>>
               /\ \A i \in 1..Len(path) : s[i] = Git!Push(s[i - 1], path[i])
  BY GitClean
<1> DEFINE T == {i \in 0..Len(path) : s[i] = SubSeq(path, 1, i)}
<1>2. Len(path) \in Nat  OBVIOUS
<1>3. s[0] = SubSeq(path, 1, 0)
  BY <1>1
<1>4. ASSUME NEW i \in 0..(Len(path) - 1), s[i] = SubSeq(path, 1, i) PROVE s[i + 1] = SubSeq(path, 1, i + 1)
  <2>1. i + 1 \in 1..Len(path) /\ (i + 1) - 1 = i
    BY <1>2
  <2>2. s[i + 1] = Git!Push(s[i], path[i + 1])
    BY <1>1, <2>1
  <2>3. s[i + 1] = Append(s[i], path[i + 1])
    BY <2>1, <2>2 DEF Git!Push
  <2>4. Append(SubSeq(path, 1, i), path[i + 1]) = SubSeq(path, 1, i + 1)
    BY <2>1
  <2> QED BY <1>4, <2>3, <2>4
<1>5. 0 \in T /\ \A i \in 0..(Len(path) - 1) : i \in T => i + 1 \in T
  BY <1>2, <1>3, <1>4
<1>6. 0..Len(path) \subseteq T
  <2> HIDE DEF T
  <2> QED BY <1>2, <1>5, UpTo
<1>7. SubSeq(path, 1, Len(path)) = path
  OBVIOUS
<1>8. Len(path) \in T => s[Len(path)] = SubSeq(path, 1, Len(path))
  OBVIOUS
<1>9. Len(path) \in T
  <2> HIDE DEF T
  <2> QED BY <1>2, <1>6
<1> QED BY <1>1, <1>7, <1>8, <1>9

\* A path that validation lets through stays in the clone.
LEMMA GitPathStays ==
  ASSUME NEW f, f.from \in Seq(GitNames), Git!FromValid(f)
  PROVE  Git!Inside(f)
<1> DEFINE q == Git!Clean(f.from)
           p == <<"work">> \o q
<1>1. GitNormal(q)
  BY GitCleanNormal
<1>2. q = <<>> \/ Head(q) # ".."
  BY DEF Git!FromValid
<1> HIDE DEF q
<1>3. q \in Seq(GitNames) /\ \A i \in 1..Len(q) : q[i] \notin {".", ".."}
  <2>1. q \in Seq(GitNames) /\ \A i \in 1..Len(q) : q[i] # "."
    BY <1>1 DEF GitNormal
  <2>2. ASSUME NEW i \in 1..Len(q), q[i] = ".." PROVE FALSE
    <3>1. q # <<>> /\ 1 \in 1..i /\ Head(q) = q[1]
      BY <2>1
    <3>2. q[1] = ".."
      BY <1>1, <2>2, <3>1 DEF GitNormal
    <3> QED BY <1>2, <3>1, <3>2
  <2> QED BY <2>1, <2>2
<1>4. p \in Seq(GitNames) /\ \A i \in 1..Len(p) : p[i] \notin {".", ".."}
  <2>0. <<"work">> \in Seq(GitNames) /\ Len(<<"work">>) = 1
    <3>1. "work" \in GitNames  BY DEF GitNames
    <3> QED BY ONLY <3>1
  <2>1. p \in Seq(GitNames) /\ Len(p) = Len(q) + 1
    BY ONLY <1>3, <2>0
  <2>2. p[1] = "work" /\ \A i \in 1..Len(q) : p[i + 1] = q[i]
    BY <1>3
  <2>3. \A i \in 1..(Len(q) + 1) : i = 1 \/ (i - 1 \in 1..Len(q) /\ (i - 1) + 1 = i)
    BY <1>3
  <2> HIDE DEF p
  <2>4. ASSUME NEW i \in 1..Len(p) PROVE p[i] \notin {".", ".."}
    <3>1. CASE i = 1  BY <3>1, <2>2
    <3>2. CASE i - 1 \in 1..Len(q) /\ (i - 1) + 1 = i
      <4>1. p[i] = q[i - 1]  BY <3>2, <2>2
      <4> QED BY <4>1, <3>2, <1>3
    <3> QED BY <2>1, <2>3, <3>1, <3>2
  <2> QED BY <2>1, <2>4
<1>5. Git!Clean(p) = p
  <2> HIDE DEF p
  <2> QED BY <1>4, GitCleanPlain
<1>6. p # <<>> /\ Head(p) = "work"
  BY <1>3
<1> QED BY <1>5, <1>6 DEF Git!Inside, q

\* Every path that is validated lies inside the clone, for paths of any length
\* (validateFromPath, filepath.Clean).
THEOREM GitPathsAgree == GitOK => (Git!Spec => []Git!PathsAgree)
<1> SUFFICES ASSUME GitOK PROVE Git!Spec => []Git!PathsAgree
  OBVIOUS
<1>i. Git!Spec => []GitInv
  BY GitInvariant
<1>1. GitInv => Git!PathsAgree
  <2> SUFFICES ASSUME GitInv, phase \notin {"off", "refused", "done"}, NEW i \in DOMAIN block.fetches
               PROVE  Git!Inside(block.fetches[i])
    BY DEF Git!PathsAgree
  <2>1. Git!FromValid(block.fetches[i])
    BY DEF GitInv, GitTypes, GitCloned, Git!Valid
  <2>2. block.fetches[i].from \in Seq(STRING)
    <3> DEFINE F == [from : Seq(STRING), absolute : BOOLEAN, into : Dirs, overwrite : BOOLEAN]
    <3>1. block.fetches \in Seq(F)
      BY GitShape DEF GitInv
    <3>2. \A f \in F : f.from \in Seq(STRING)
      OBVIOUS
    <3> HIDE DEF F
    <3> QED BY <3>1, <3>2
  <2>3. block.fetches[i].from \in Seq(GitNames)
    BY <2>2 DEF GitNames
  <2> QED BY <2>1, <2>3, GitPathStays
<1> QED BY <1>1, <1>i, PTL

=============================================================================
