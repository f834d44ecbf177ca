---------------------------- MODULE HttpExchange ----------------------------
(***************************************************************************)
(* One HTTP request of the http:: functions: reading its arguments and     *)
(* options, building URL, headers and cookies, following redirects,        *)
(* reading the body, and http::must (functions/http.go, clients/http).     *)
(* The retry loop and the auth hook around it are in HttpClient.           *)
(*                                                                         *)
(* An option is "absent" (or null), "bad" (refused: wrong type or range)   *)
(* or holds a value.  A header is the layer its value came from.  Only     *)
(* whether a request goes to the first request's origin matters of a URL.  *)
(* net/http starts each hop from the first request's headers and asks      *)
(* CheckRedirect before sending it.                                        *)
(***************************************************************************)
EXTENDS Integers, Sequences, FiniteSets

CONSTANTS Clients,     \* [follow, max, keepAuth, headers, base]
          Calls,       \* [args, verb, url, body, opts, headers, query]
          Policies,    \* retry options: [attempts, initial, maxDelay, factor]
          MaxHops      \* redirects a server sends

VARIABLES client, call,
          phase,       \* "args", "url", "opts", "build", "sending", "answered", "ended"
          url,         \* the query keys of the URL, each with where it came from
          headers,     \* the first request's headers
          hops,        \* redirects followed
          request,     \* the request last sent: [home, auth]
          status,      \* the response's status, 0 for none
          result

vars == <<client, call, phase, url, headers, hops, request, status, result>>

Names == {"User-Agent", "Accept", "Content-Type", "Authorization"}
Statuses == {200, 204, 404}

Init ==
    /\ client \in Clients /\ call \in Calls
    /\ phase = "args" /\ url = {} /\ headers = << >> /\ hops = 0
    /\ request = [home |-> TRUE, auth |-> FALSE] /\ status = 0 /\ result = "none"

Fixed == UNCHANGED <<client, call>>
Error == phase' = "ended" /\ result' = "error"
Carry(p) == phase' = p /\ UNCHANGED result

\* ctx, client and url, then a body where the verb takes one, then options.
ParseVerbArgs ==
    /\ phase = "args"
    /\ IF call.args < 3 \/ call.args > (IF call.verb = "body" THEN 5 ELSE 4)
       THEN Error ELSE Carry("url")
    /\ Fixed /\ UNCHANGED <<url, headers, hops, request, status>>

\* The query of a relative URL takes the base's keys it does not have itself.
BaseQuery(c) == IF call.url = "relative" THEN client.base ELSE {}
MergeBaseQuery(own) == own \cup {q \in BaseQuery(client) : \A o \in own : o.key # q.key}

ResolveURL ==
    /\ phase = "url"
    /\ IF call.url \in {"null", "bad"} \/ call.body = "bad" THEN Error ELSE Carry("opts")
    /\ url' = MergeBaseQuery(call.query)
    /\ Fixed /\ UNCHANGED <<headers, hops, request, status>>

\* Every option is of its type and range; opts.query is added to the URL's.
ParseOpts ==
    /\ phase = "opts"
    /\ IF \E o \in DOMAIN call.opts : call.opts[o] = "bad" THEN Error ELSE Carry("build")
    /\ url' = IF call.opts["query"] = "set" THEN url \cup {[key |-> "k", from |-> "opts"]} ELSE url
    /\ Fixed /\ UNCHANGED <<headers, hops, request, status>>

(***************************************************************************)
(* Headers: the defaults, the body's type unless it is bytes, the client's,*)
(* a bytes body's type, and the call's, of which a null deletes.           *)
(***************************************************************************)
Layer(h, over) == [n \in Names |-> IF n \in DOMAIN over THEN over[n] ELSE h[n]]
Only(n, v, cond) == IF cond THEN [x \in {n} |-> v] ELSE << >>

\* Broken form: a bytes body's type overrides the call's own header.
HeadersBodyLast(c, k) ==
    LET h == Layer(Layer([n \in Names |-> IF n \in {"User-Agent", "Accept"} THEN "default" ELSE "none"],
                         c.headers), k.headers)
    IN  Layer(h, Only("Content-Type", "body", k.body \in {"text", "bytes"}))

BuildRequestHeaders(c, k) ==
    LET builtin == [n \in Names |-> IF n \in {"User-Agent", "Accept"} THEN "default" ELSE "none"]
        typed == Layer(builtin, Only("Content-Type", "body", k.body = "text"))
        withClient == Layer(typed, c.headers)
        withBytes == Layer(withClient, Only("Content-Type", "body", k.body = "bytes"))
    IN  Layer(withBytes, k.headers)

Send ==
    /\ phase = "build"
    /\ headers' = BuildRequestHeaders(client, call)
    /\ request' = [home |-> TRUE, auth |-> headers'["Authorization"] # "none"]
    /\ Carry("sending")
    /\ Fixed /\ UNCHANGED <<url, hops, status>>

(***************************************************************************)
(* Redirects.                                                              *)
(***************************************************************************)
\* The call's policy: follow_redirects brings its own limit of ten,
\* max_redirects alone turns following on; KeepAuth is always the client's.
Follow == IF call.opts["follow_redirects"] # "absent" THEN call.opts["follow_redirects"] = "true"
          ELSE IF call.opts["max_redirects"] # "absent" THEN TRUE ELSE client.follow
MaxRedirects == IF call.opts["max_redirects"] # "absent" THEN 1
                ELSE IF call.opts["follow_redirects"] # "absent" THEN 10 ELSE client.max

\* Broken form: the origin is compared with the previous hop's.
KeepsAuthByStep(home) == client.keepAuth \/ (home = request.home)

\* Authorization goes along to the first request's origin only.
KeepsAuth(home) == client.keepAuth \/ home

\* Broken form: the limit admits one more.
TooManyByOne == hops + 1 > MaxRedirects

\* via holds the requests made so far, the first included.
TooMany == hops + 1 >= MaxRedirects

Redirect(home) ==
    /\ phase = "sending" /\ hops < MaxHops
    /\ IF ~Follow THEN /\ status' = 302 /\ Carry("answered") /\ UNCHANGED <<hops, request>>
       ELSE IF TooMany THEN Error /\ UNCHANGED <<hops, request, status>>
       ELSE /\ hops' = hops + 1
            /\ request' = [home |-> home,
                           auth |-> headers["Authorization"] # "none" /\ KeepsAuth(home)]
            /\ Carry("sending") /\ UNCHANGED status
    /\ Fixed /\ UNCHANGED <<url, headers>>

Respond(s) ==
    /\ phase = "sending"
    /\ status' = s /\ Carry("answered")
    /\ Fixed /\ UNCHANGED <<url, headers, hops, request>>

\* The body is read up to body_limit and decoded as asked; then http::must.
Expected == IF call.opts["expected"] = "range" THEN 200..203
            ELSE IF call.opts["expected"] = "list" THEN {204, 404} ELSE 200..299

Finalize(decodes) ==
    /\ phase = "answered"
    /\ phase' = "ended"
    /\ result' = IF ~decodes \/ status \notin Expected THEN "error" ELSE "ok"
    /\ Fixed /\ UNCHANGED <<url, headers, hops, request, status>>

Next ==
    \/ ParseVerbArgs \/ ResolveURL \/ ParseOpts \/ Send
    \/ \E home \in BOOLEAN : Redirect(home)
    \/ \E s \in Statuses : Respond(s)
    \/ \E d \in BOOLEAN : Finalize(d)
    \/ phase = "ended" /\ UNCHANGED vars

Spec == Init /\ [][Next]_vars

(***************************************************************************)
(* The backoff before an attempt, without jitter.                          *)
(***************************************************************************)
\* Broken form: the cap is applied before the last multiplication.
DelayCappedEarly(p, n) ==
    IF n <= 1 THEN 0
    ELSE IF p.initial * p.factor ^ (n - 2) > p.maxDelay * p.factor THEN p.maxDelay
    ELSE p.initial * p.factor ^ (n - 2)

Delay(p, n) ==
    IF n <= 1 THEN 0
    ELSE IF p.initial * p.factor ^ (n - 2) > p.maxDelay THEN p.maxDelay
    ELSE p.initial * p.factor ^ (n - 2)

\* A Retry-After that is negative or in the past waits for nothing.
ParseRetryAfter(secs) == IF secs < 0 THEN 0 ELSE secs

\* What the loop waits before attempt n: the server's word, where it has one
\* for this status, before the schedule's.
WaitBefore(p, n, code, secs) ==
    IF n > 1 /\ code \in {429, 503} /\ ParseRetryAfter(secs) > 0 THEN ParseRetryAfter(secs)
    ELSE Delay(p, n)

-----------------------------------------------------------------------------
TypeOK ==
    /\ phase \in {"args", "url", "opts", "build", "sending", "answered", "ended"}
    /\ hops \in 0..MaxHops /\ result \in {"none", "ok", "error"}

\* A credential never reaches another origin than the one it was meant for,
\* however a chain of redirects wanders (clients/http/http.go:709-714).
AuthStaysHome == ~request.home /\ request.auth => client.keepAuth

\* The redirects followed stay below the limit in force, and none is followed
\* where following is off (clients/http/http.go:703-707).
HopsBounded == hops > 0 => Follow /\ hops < MaxRedirects

\* What the caller set or deleted is what was sent (functions/http.go:981-994),
\* and a key of the URL itself is never replaced by the base's (:930-935).
CallerWins ==
    /\ phase \in {"sending", "answered"} =>
          \A n \in DOMAIN call.headers : headers[n] = call.headers[n]
    /\ \A q \in url : q.from = "base" => \A o \in call.query : o.key # q.key

\* The wait never exceeds max_delay (when initial_delay does not) and never
\* shrinks from one attempt to the next (clients/http/retry.go:192-203), but
\* for a server that asks for another wait (functions/http.go:313-323).
BackoffSane ==
    \A p \in Policies : \A n \in 1..p.attempts :
       /\ Delay(p, n) <= p.maxDelay
       /\ n > 1 => Delay(p, n) >= Delay(p, n - 1)
       /\ \A code \in {404, 503} : \A secs \in {-1, 0, 20} :
             n > 1 => WaitBefore(p, n, code, secs) = IF code = 503 /\ secs = 20 THEN 20 ELSE Delay(p, n)
=============================================================================
