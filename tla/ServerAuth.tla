----------------------------- MODULE ServerAuth -----------------------------
(***************************************************************************)
(* Authentication of requests to a server: the auth blocks and the policy  *)
(* a route resolves from them (config/auth.go, config/authblock.go), then  *)
(* the middleware and its mechanisms (servers/auth).                       *)
(*                                                                         *)
(* Several declarations may share a name if at most one is enabled.  The   *)
(* oidc mechanism finds its issuer's keys lazily, one attempt at a time;   *)
(* introspection remembers answers for cache_ttl.  The identity provider   *)
(* is external.  A credential is its scheme and whether it is good; claims *)
(* and headers of the answer are left out.                                 *)
(***************************************************************************)
EXTENDS Naturals, Sequences, FiniteSets

CONSTANTS
  Requests,     \* request slots
  Configs,      \* [decls, route]: declarations in file order, the route's list
  TTL,          \* cache_ttl, in ticks
  MaxTicks,     \* bound: ticks counted past an answer
  Carried,      \* the credentials requests carry, among Credentials
  MaxTries      \* bound: requests a slot carries

VARIABLES
  cfg,       \* the configuration
  done,      \* declarations processed
  refs,      \* config.authRefs
  policy,    \* what ResolveAuth made of the route, or why there is none
  oidc,      \* resolved, inflight, waiting out a backoff, stopped
  failed,    \* an attempt has failed since the last success
  jwks,      \* whether the cached keys hold the issuer's current one
  cache,     \* introspection's entry for the token
  revoked,   \* the provider dropped the token
  since,     \* ticks since nothing asked before the revocation was outstanding
  req        \* slot -> where its request is

vars == <<cfg, done, refs, policy, oidc, failed, jwks, cache, revoked, since, req>>

----------------------------------------------------------------------------
(* The blocks.                                                             *)

Decls == DOMAIN cfg.decls
Names == {cfg.decls[i].name : i \in Decls}
LastOf(n) == CHOOSE i \in Decls : cfg.decls[i].name = n
                /\ \A j \in Decls : cfg.decls[j].name = n => j <= i

\* Broken form: declarations of a name are processed in any order.
ReadyAnyOrder(i) == TRUE

\* GetBlockDependencyId and GetBlockDependencies: the last declaration of a
\* name owns the name and waits for the others.
Ready(i) ==
  i = LastOf(cfg.decls[i].name) =>
    \A j \in Decls \ done : cfg.decls[j].name = cfg.decls[i].name => j = i

Idle == [at |-> "idle", tries |-> 0]

Init ==
  /\ cfg \in Configs /\ done = {} /\ policy = [state |-> "unresolved"]
  /\ refs = [n \in Names |-> "unbound"]
  /\ oidc = [resolved |-> FALSE, inflight |-> FALSE, backoff |-> FALSE, stopped |-> FALSE]
  /\ failed = FALSE /\ jwks = "current"
  /\ cache = [known |-> FALSE] /\ revoked = FALSE /\ since = 0
  /\ req = [r \in Requests |-> Idle]

Serving == policy.state = "serving"
Runtime == <<oidc, failed, jwks, cache, revoked, since, req>>

\* AuthBlockHandler.Process: a disabled block binds auth.disabled unless the
\* name is taken; a second enabled one is refused; the processor may refuse.
Process(i) ==
  /\ policy.state = "unresolved" /\ i \in Decls \ done /\ Ready(i)
  /\ done' = done \cup {i}
  /\ LET d == cfg.decls[i]
         real == refs[d.name] \notin {"unbound", "disabled"}
     IN \/ /\ d.disabled
           /\ refs' = IF real THEN refs ELSE [refs EXCEPT ![d.name] = "disabled"]
           /\ UNCHANGED policy
        \/ /\ ~d.disabled /\ ~real
           /\ refs' = [refs EXCEPT ![d.name] = d.kind]
           /\ UNCHANGED policy
        \/ /\ ~d.disabled
           /\ policy' = [state |-> IF real THEN "refused" ELSE "unbuilt"]
           /\ UNCHANGED refs
  /\ UNCHANGED <<cfg, Runtime>>

\* ResolveAuth for a route, once the names it lists are bound: the mechanisms,
\* each at its place in the list.
Bound(list) ==
  {i \in DOMAIN list : list[i] # "anonymous" /\ refs[list[i]] \notin {"disabled", "unbound"}}
Mechanisms(list) == [i \in Bound(list) |-> refs[list[i]]]
AllowAnonymous(list) ==
  \/ \E i \in DOMAIN list : list[i] = "anonymous"
  \/ Bound(list) = {}

Resolve ==
  /\ policy.state = "unresolved"
  /\ \A i \in DOMAIN cfg.route : cfg.route[i] # "anonymous" => LastOf(cfg.route[i]) \in done
  /\ policy' = IF \E i \in DOMAIN cfg.route : cfg.route[i] = "anonymous" /\ i < Len(cfg.route)
               THEN [state |-> "refused"]
               ELSE [state |-> "serving", mechanisms |-> Mechanisms(cfg.route),
                     anonymous |-> AllowAnonymous(cfg.route)]
  /\ UNCHANGED <<cfg, done, refs, Runtime>>

----------------------------------------------------------------------------
(* Requests.                                                               *)

\* What a request may carry: one Authorization header and, from the proxy or
\* from elsewhere, an identity header.
Credentials ==
  [authz : {"none", "basic good", "basic bad", "bearer good", "bearer bad", "bearer audience"},
   proxy : {"none", "trusted", "untrusted"}]

Config == <<cfg, done, refs, policy>>
To(r, pc) == req' = [req EXCEPT ![r].at = pc]
Answers(r, out) == req' = [req EXCEPT ![r].at = "done", ![r].out = out]
At(r, pc) == Serving /\ req[r].at = pc

\* Claims, per mechanism; a custom one without a claims expression takes all.
Claims(k, c) ==
  CASE k = "basic" -> c.authz \in {"basic good", "basic bad"}
    [] k \in {"oidc", "introspection"} ->
         c.authz \in {"bearer good", "bearer bad", "bearer audience"}
    [] k = "proxy" -> c.proxy = "trusted"
    [] k = "custom" -> TRUE

\* basic, proxy and custom answer from the request alone; a custom or basic
\* action may also send a response of its own, or fail.
Good(k, c) ==
  CASE k = "basic" -> c.authz = "basic good"
    [] k = "proxy" -> c.proxy = "trusted"
    [] k = "custom" -> c.authz \in {"basic good", "bearer good"}
    [] OTHER -> c.authz = "bearer good"

Placed == DOMAIN policy.mechanisms
Has(k) == Serving /\ \E i \in Placed : policy.mechanisms[i] = k

\* Broken form: a mechanism that refuses the credential passes it on.
ClaimantsThatAccept(c) ==
  {i \in Placed : Claims(policy.mechanisms[i], c) /\ Good(policy.mechanisms[i], c)}
\* claimant: the first mechanism that recognises the credential.
Claimants(c) == {i \in Placed : Claims(policy.mechanisms[i], c)}
First(places) == CHOOSE i \in places : \A j \in places : i <= j

\* NewAuthMiddleware: no claimant is anonymous or a 401; with no mechanism
\* the handler is not wrapped at all.
Begun(r, c, k) ==
  [tries |-> req[r].tries + 1, cred |-> c, by |-> k, stale |-> FALSE,
   at |-> CASE k = "none" -> "done" [] k = "oidc" -> "resolve"
            [] k = "introspection" -> "cached" [] OTHER -> "judge",
   out |-> IF k # "none" THEN "pending"
           ELSE IF policy.anonymous THEN "anonymous" ELSE "401"]

Arrive(r) ==
  /\ At(r, "idle") \/ At(r, "done")
  /\ req[r].tries < MaxTries
  /\ \E c \in Carried \cap Credentials :
       LET k == IF Claimants(c) = {} THEN "none" ELSE policy.mechanisms[First(Claimants(c))] IN
       req' = [req EXCEPT ![r] = Begun(r, c, k)]
  /\ UNCHANGED <<Config, oidc, failed, jwks, cache, revoked, since>>

Judge(r) ==
  /\ At(r, "judge")
  /\ \/ Answers(r, IF Good(req[r].by, req[r].cred) THEN "admitted" ELSE "401")
     \/ req[r].by \in {"basic", "custom"} /\ \E o \in {"500", "response"} : Answers(r, o)
  /\ UNCHANGED <<Config, oidc, failed, jwks, cache, revoked, since>>

----------------------------------------------------------------------------
(* oidc.                                                                   *)

\* resolve: use what was found, wait for the attempt under way, fail fast
\* within the backoff, or begin an attempt.  The start-up goroutine calls it
\* too, and nobody hears its answer.
Begins == ~oidc.resolved /\ ~oidc.inflight /\ ~oidc.backoff

ResolveKeys(r) ==
  /\ At(r, "resolve")
  /\ \/ oidc.resolved /\ To(r, "parse") /\ UNCHANGED oidc
     \/ ~oidc.resolved /\ oidc.inflight /\ To(r, "waiting") /\ UNCHANGED oidc
     \/ ~oidc.resolved /\ ~oidc.inflight /\ oidc.backoff
        /\ Answers(r, "503") /\ UNCHANGED oidc
     \/ Begins /\ oidc' = [oidc EXCEPT !.inflight = TRUE] /\ To(r, "waiting")
  /\ UNCHANGED <<Config, failed, jwks, cache, revoked, since>>

Start ==
  /\ Has("oidc") /\ Begins /\ ~oidc.stopped
  /\ oidc' = [oidc EXCEPT !.inflight = TRUE]
  /\ UNCHANGED <<Config, failed, jwks, cache, revoked, since, req>>

\* runAttempt: the attempt ends, by its time limit at the latest, and lets
\* every waiter go.
Waiters == {r \in Requests : req[r].at = "waiting"}
\* Broken form: a failed attempt forgets its waiters.
ReleasedOnSuccess == IF oidc.stopped \/ failed THEN {} ELSE Waiters

Released == Waiters

AttemptEnds ==
  /\ oidc.inflight
  /\ \/ /\ ~oidc.stopped
        /\ oidc' = [oidc EXCEPT !.inflight = FALSE, !.resolved = TRUE, !.backoff = FALSE]
        /\ failed' = FALSE
     \/ /\ oidc' = [oidc EXCEPT !.inflight = FALSE, !.backoff = TRUE]
        /\ failed' = TRUE
  /\ req' = [r \in Requests |-> IF r \in Released THEN [req[r] EXCEPT !.at = "resolve"] ELSE req[r]]
  /\ UNCHANGED <<Config, jwks, cache, revoked, since>>

\* The wait ends with the request or with the authenticator instead.
GiveUp(r) ==
  /\ At(r, "waiting")
  /\ Answers(r, "503")
  /\ UNCHANGED <<Config, oidc, failed, jwks, cache, revoked, since>>

\* A backoff is seconds long: a waiter the failed attempt let go has looked
\* again by the time it ends.
BackoffPasses ==
  /\ oidc.backoff /\ \A r \in Requests : req[r].at # "resolve"
  /\ oidc' = [oidc EXCEPT !.backoff = FALSE]
  /\ UNCHANGED <<Config, failed, jwks, cache, revoked, since, req>>

Stop ==
  /\ Has("oidc") /\ ~oidc.stopped
  /\ oidc' = [oidc EXCEPT !.stopped = TRUE]
  /\ UNCHANGED <<Config, failed, jwks, cache, revoked, since, req>>

Rotate ==
  /\ oidc.resolved /\ jwks = "current" /\ jwks' = "old"
  /\ UNCHANGED <<Config, oidc, failed, cache, revoked, since, req>>

\* Authenticate past resolve: parse; on failure refresh the keys once and
\* parse again; then the audience.
Parse(r) ==
  /\ At(r, "parse")
  /\ LET c == req[r].cred
         verdict == CASE c.authz = "bearer good" -> "admitted"
                      [] c.authz = "bearer audience" -> "403" [] OTHER -> "401"
     IN \/ jwks = "current" /\ Answers(r, verdict) /\ UNCHANGED jwks
        \/ jwks = "old" /\ c.authz = "bearer bad" /\ Answers(r, "401") /\ UNCHANGED jwks
        \/ jwks = "old" /\ jwks' = "current" /\ Answers(r, verdict)
        \/ jwks = "old" /\ UNCHANGED jwks /\ Answers(r, "401")
        \/ UNCHANGED jwks /\ Answers(r, "500")
  /\ UNCHANGED <<Config, oidc, failed, cache, revoked, since>>

----------------------------------------------------------------------------
(* introspection: one token, good until the provider drops it.             *)

Fresh == cache.known /\ cache.age < TTL
Verdict(c, dead) ==
  CASE c.authz = "bearer good" /\ ~dead -> "admitted"
    [] c.authz = "bearer audience" -> "403"
    [] OTHER -> "401"
OnToken(r) == req[r].cred.authz = "bearer good"

\* Authenticate: the cache under its mutex, then the provider, then the cache.
\* A token other than the followed one is asked about each time.
Lookup(r) ==
  /\ At(r, "cached")
  /\ IF OnToken(r) /\ Fresh THEN Answers(r, cache.answer) ELSE To(r, "ask")
  /\ UNCHANGED <<Config, oidc, failed, jwks, cache, revoked, since>>

Ask(r) ==
  /\ At(r, "ask")
  /\ \/ /\ req' = [req EXCEPT ![r].at = "store", ![r].out = Verdict(req[r].cred, revoked),
                              ![r].stale = FALSE]
     \/ Answers(r, "500")
  /\ UNCHANGED <<Config, oidc, failed, jwks, cache, revoked, since>>

Stored(out) == [known |-> TRUE, answer |-> out, age |-> 0]

Store(r) ==
  /\ At(r, "store")
  /\ cache' = IF OnToken(r) THEN Stored(req[r].out) ELSE cache
  /\ since' = IF req[r].stale THEN 0 ELSE since
  /\ To(r, "done")
  /\ UNCHANGED <<Config, oidc, failed, jwks, revoked>>

\* sweepLoop drops what has expired.
Expired == cache.known /\ cache.age > TTL
Sweep ==
  /\ Expired /\ cache' = [known |-> FALSE]
  /\ UNCHANGED <<Config, oidc, failed, jwks, revoked, since, req>>

Outstanding == \E r \in Requests : req[r].at = "store" /\ req[r].stale

\* Broken form: an entry that is used does not age.
AgedUnlessUsed ==
  IF cache.known /\ cache.age <= TTL /\ ~\E r \in Requests : req[r].at = "done" /\ req[r].out = "admitted"
  THEN [cache EXCEPT !.age = @ + 1] ELSE cache

Aged == IF cache.known /\ cache.age <= TTL THEN [cache EXCEPT !.age = @ + 1] ELSE cache

Tick ==
  /\ Has("introspection")
  /\ cache.known \/ (revoked /\ since < MaxTicks)
  /\ cache' = Aged
  /\ since' = IF ~revoked \/ Outstanding THEN 0 ELSE IF since < MaxTicks THEN since + 1 ELSE since
  /\ UNCHANGED <<Config, oidc, failed, jwks, revoked, req>>

Revoke ==
  /\ Has("introspection") /\ ~revoked
  /\ revoked' = TRUE
  /\ req' = [r \in Requests |-> IF req[r].at = "store" THEN [req[r] EXCEPT !.stale = TRUE] ELSE req[r]]
  /\ UNCHANGED <<Config, oidc, failed, jwks, cache, since>>

Steps(r) ==
  \/ Judge(r) \/ ResolveKeys(r) \/ Parse(r) \/ Lookup(r) \/ Ask(r) \/ Store(r)

Next ==
  \/ \E i \in Decls : Process(i)
  \/ Resolve
  \/ \E r \in Requests : Arrive(r) \/ Steps(r) \/ GiveUp(r)
  \/ Start \/ AttemptEnds \/ BackoffPasses \/ Stop \/ Rotate
  \/ Sweep \/ Tick \/ Revoke

\* Goroutines run, and fetchTimeout ends every attempt.
Fairness == (\A r \in Requests : WF_vars(Steps(r))) /\ WF_vars(AttemptEnds)

Spec == Init /\ [][Next]_vars

FairSpec == Spec /\ Fairness

----------------------------------------------------------------------------
(* Properties.                                                             *)

TypeOK ==
  /\ done \subseteq Decls /\ since \in 0..MaxTicks
  /\ \A r \in Requests : req[r].tries \in 0..MaxTries

\* A route that lists a name with an enabled declaration is guarded by that
\* declaration's mechanism, in the order of the list, whatever order the
\* blocks were processed in; it admits strangers only if it says so.
RouteGuarded ==
  Serving =>
    /\ \A i \in Decls, j \in DOMAIN cfg.route : ~cfg.decls[i].disabled /\ cfg.route[j] = cfg.decls[i].name =>
         j \in Placed /\ policy.mechanisms[j] = cfg.decls[i].kind
    /\ policy.anonymous /\ Placed # {} => cfg.route[Len(cfg.route)] = "anonymous"

\* A request is admitted on the word of the first mechanism that recognises
\* its credential and no other, and is anonymous only if none does.
AdmittedVerified ==
  \A r \in Requests : req[r].at = "done" =>
    /\ req[r].out = "admitted" =>
         /\ Good(req[r].by, req[r].cred)
         /\ \A j \in Placed : Claims(policy.mechanisms[j], req[r].cred) =>
              \E i \in Placed : policy.mechanisms[i] = req[r].by /\ i <= j
    /\ req[r].out = "anonymous" =>
         policy.anonymous /\ \A j \in Placed : ~Claims(policy.mechanisms[j], req[r].cred)

\* No request is left waiting on an attempt that is not under way.
WaitersCovered == Waiters # {} => oidc.inflight

\* A dropped token stops being served from the cache cache_ttl after the last
\* answer obtained before the drop was stored.
RevocationLands == revoked /\ Fresh /\ cache.answer = "admitted" => since <= TTL

\* Every request is answered, whether or not the issuer ever responds.
Underway(r) == req[r].at \notin {"idle", "done"}
RequestsAnswered == \A r \in Requests : []<>~Underway(r)
=============================================================================
