----------------------------- MODULE HttpClient -----------------------------
(***************************************************************************)
(* client "http" and the http:: functions: the retry loop of one request   *)
(* (functions/http.go) over the credential cache its client shares between *)
(* requests (clients/http/auth.go).                                        *)
(*                                                                         *)
(* A request is a caller's walk through runRetryLoop; the cache's mutex is *)
(* held across the evaluation of the auth expression, which may itself     *)
(* send through the same client.  Tokens are numbered in the order they    *)
(* are made; the server accepts one of them and may revoke it.  Bodies,    *)
(* URLs and the lengths of waits are left out.                             *)
(***************************************************************************)
EXTENDS Naturals, FiniteSets, TLC

CONSTANTS
  Callers,       \* goroutines that call an http:: function
  Nobody,        \* holds no lock
  Calls,         \* the option sets a call may be made with
  Policies,      \* the client blocks
  MaxTokens,     \* bound: credentials ever made
  MaxRevokes,    \* bound: credentials the server drops
  MaxFails       \* bound: failures counted

VARIABLES
  client,   \* the client block, and whether its expression sends through it
  cache,    \* authCache: value, when it expires, consecutiveFailures, failed
  lock,     \* who holds authCache.mu
  live,     \* the token the server accepts
  made,     \* credentials made so far
  revoked,  \* credentials the server dropped
  call,     \* caller -> where its request is
  again     \* token -> evaluations its rejection started

vars == <<client, cache, lock, live, made, revoked, call, again>>

NoToken == 0
Statuses == {"200", "401", "403", "503"}

----------------------------------------------------------------------------
(* The client block and the options of a call.                             *)

\* defaultRetryOnSet: 503 stands for 429, 502 and 504 as well.
RetryOn == {"503"}

\* noRetryPolicy: one attempt.  retryEnabledDefaults: three.
noRetryPolicy == [max |-> 1, hook |-> "none", nonIdempotent |-> FALSE]
retryEnabledDefaults == [noRetryPolicy EXCEPT !.max = 3]

\* parseRetryOpt and runRetryLoop's policy: false forces one attempt, an
\* object starts from the defaults and has no hook, nothing keeps the client's.
EffectiveRetry(opts) ==
  CASE opts.retry = "false"  -> [client.retry EXCEPT !.max = 1]
    [] opts.retry = "object" -> retryEnabledDefaults
    [] OTHER                 -> client.retry

\* MethodRetryable.
MethodRetryable(opts) == opts.idempotent \/ EffectiveRetry(opts).nonIdempotent

\* buildRequestHeaders, as far as Authorization goes: the client's default
\* headers, then the call's, where null deletes.
HeaderAuth(opts) ==
  CASE opts.header = "value" -> TRUE
    [] opts.header = "null"  -> FALSE
    [] OTHER                 -> client.headerAuth

\* resolveAuthForSend: a header of the call or the client, then opts.auth,
\* then the hook.
UsesHook(opts) == ~HeaderAuth(opts) /\ opts.auth = "absent" /\ client.hasAuth

\* ParseAuthResult and the expiry Get computes.  A credential that says when
\* it expires lives until then, less refresh_early; a moment already past
\* comes out as no expiry at all; auth_max_lifetime bounds both.
ExpiresIn(said) == IF said = "past" THEN "none" ELSE said
Expiry(said) ==
  IF ExpiresIn(said) = "none" /\ ~client.maxLifetime THEN "never" ELSE "later"

----------------------------------------------------------------------------
Fresh ==
  [pc |-> "idle", opts |-> [retry |-> "absent"], attempt |-> 0, sends |-> 0,
   status |-> "none", reason |-> "initial", token |-> NoToken,
   inHook |-> FALSE, settled |-> FALSE]

Init ==
  /\ client \in Policies
  /\ cache = [value |-> NoToken, expires |-> "never", fails |-> 0,
              failed |-> FALSE]
  /\ lock = Nobody /\ live = NoToken /\ made = 0 /\ revoked = 0
  /\ call = [c \in Callers |-> Fresh]
  /\ again = [t \in 0..MaxTokens |-> 0]

To(c, changes) == call' = [call EXCEPT ![c] = changes @@ @]
Ends(c, how) == call' = [call EXCEPT ![c] = [Fresh EXCEPT !.pc = how]]
At(c, pc) == call[c].pc = pc
Quiet == UNCHANGED <<client, cache, lock, live, made, revoked, again>>

\* doHTTPRequest up to runRetryLoop: a URL, a body or an option it cannot
\* take ends the call before anything is sent.
Prepare(c) ==
  /\ At(c, "idle")
  /\ \/ Ends(c, "error")
     \/ \E o \in Calls : To(c, [opts |-> o, attempt |-> 1, pc |-> "auth"])
  /\ Quiet

\* sendOnceWithAuth's first step, and again after a 401.
ResolveAuth(c) ==
  /\ At(c, "auth")
  /\ IF UsesHook(call[c].opts) THEN To(c, [pc |-> "get"])
     ELSE To(c, [pc |-> "send", token |-> NoToken])
  /\ Quiet

\* Broken form: the marker is not looked at.
NeverSuppressed(c) == FALSE

\* IsAuthSuppressed: a request the auth expression makes through its own
\* client carries the marker.
Suppressed(c) == At(c, "nested")

\* authCache.Get under the mutex: fail fast, serve the cache, or keep the
\* mutex and evaluate.
Serves == cache.value # NoToken /\ cache.expires # "past"

Get(c) ==
  /\ At(c, "get") /\ lock = Nobody
  /\ \/ /\ cache.failed
        /\ To(c, [pc |-> "outcome", status |-> "err"])
        /\ UNCHANGED <<lock, again>>
     \/ /\ ~cache.failed /\ Serves
        /\ To(c, [pc |-> "send", token |-> cache.value])
        /\ UNCHANGED <<lock, again>>
     \/ /\ ~cache.failed /\ ~Serves
        /\ lock' = c
        /\ again' = IF call[c].reason = "unauthorized"
                    THEN [again EXCEPT ![call[c].token] = @ + 1] ELSE again
        /\ To(c, [pc |-> IF client.nested THEN "nested" ELSE "eval"])
  /\ UNCHANGED <<client, cache, live, made, revoked>>

\* The expression's own request: suppressed, it goes out without a token;
\* otherwise it would need the mutex its caller holds.
Nested(c) ==
  /\ At(c, "nested")
  /\ Suppressed(c) \/ lock = Nobody
  /\ To(c, [pc |-> "eval"])
  /\ Quiet

\* recordFailureLocked.
Failure(ch) ==
  LET n == IF ch.fails < MaxFails THEN ch.fails + 1 ELSE ch.fails IN
  [ch EXCEPT !.fails = n, !.failed = @ \/ n >= client.maxFailures]

\* evalAuthExpression and the end of Get: an error, a credential the server
\* takes, or one it does not.
Eval(c) ==
  /\ At(c, "eval")
  /\ lock' = Nobody
  /\ \/ /\ cache' = Failure(cache)
        /\ To(c, [pc |-> "outcome", status |-> "err"])
        /\ UNCHANGED <<live, made>>
     \/ \E good \in BOOLEAN, said \in {"none", "later", "past"} :
          /\ made < MaxTokens /\ made' = made + 1
          /\ live' = IF good THEN made + 1 ELSE live
          /\ cache' = [cache EXCEPT !.value = made + 1, !.expires = Expiry(said)]
          /\ To(c, [pc |-> "send", token |-> made + 1])
  /\ UNCHANGED <<client, revoked, again>>

\* sendOnce: the transport fails, the server turns the token down, or it
\* answers.  A call that brings its own credential may be turned down too.
Send(c) ==
  /\ At(c, "send")
  /\ LET hook == UsesHook(call[c].opts)
         rejected == hook /\ call[c].token # live
         second == call[c].reason = "unauthorized"
         n == [sends |-> call[c].sends + (IF second THEN 0 ELSE 1)]
     IN \/ To(c, n @@ [pc |-> "outcome", status |-> "err"])
        \/ \E s \in IF rejected THEN {"401"}
                    ELSE Statuses \ (IF hook THEN {"401"} ELSE {}) :
             To(c, n @@ [status |-> s,
                         pc |-> CASE ~hook -> "outcome"
                                  [] s = "401" /\ ~second -> "reject"
                                  [] OTHER -> "record"])
  /\ Quiet

\* Broken form: a success leaves the failed state.
RecordKeepsFailed(ch, status) ==
  IF status = "401" THEN [Failure(ch) EXCEPT !.value = NoToken, !.expires = "never"]
  ELSE [ch EXCEPT !.fails = 0]

\* RecordResult: a 401 counts and empties the cache, whatever it holds by
\* now; anything else clears the count and the failed state.
RecordResult(ch, status) ==
  IF status = "401" THEN [Failure(ch) EXCEPT !.value = NoToken, !.expires = "never"]
  ELSE [ch EXCEPT !.fails = 0, !.failed = FALSE]

Reject(c) ==
  /\ At(c, "reject") /\ lock = Nobody
  /\ cache' = RecordResult(cache, "401")
  /\ To(c, [pc |-> "get", reason |-> "unauthorized"])
  /\ UNCHANGED <<client, lock, live, made, revoked, again>>

Record(c) ==
  /\ At(c, "record") /\ lock = Nobody
  /\ cache' = RecordResult(cache, call[c].status)
  /\ To(c, [pc |-> "outcome"])
  /\ UNCHANGED <<client, lock, live, made, revoked, again>>

----------------------------------------------------------------------------
(* runRetryLoop after a send.                                              *)

Finish(c) == Ends(c, IF call[c].status = "err" THEN "error" ELSE "answered")

\* Back to the top of the loop, or out of it.
Continue(c, next) ==
  IF next > EffectiveRetry(call[c].opts).max THEN Finish(c)
  ELSE To(c, [pc |-> "delay", attempt |-> next, settled |-> FALSE])

\* What evalOnResponse says of a response: a success is left alone.
HookSays(c) ==
  LET h == EffectiveRetry(call[c].opts).hook IN
  CASE h = "none" \/ call[c].status = "err" -> {"nothing"}
    [] call[c].status = "200"               -> {"stop"}
    [] OTHER -> {"stop", "retry", "fails"} \cup (IF h = "delay" THEN {"wait"} ELSE {})

Retries(c) == call[c].status = "err" \/ call[c].status \in RetryOn

\* The response of a send the loop itself made.
Judge(c) ==
  /\ At(c, "outcome") /\ ~call[c].inHook
  /\ \/ /\ \/ call[c].attempt = EffectiveRetry(call[c].opts).max
           \/ ~MethodRetryable(call[c].opts)
        /\ Finish(c)
     \/ /\ call[c].attempt < EffectiveRetry(call[c].opts).max
        /\ MethodRetryable(call[c].opts)
        /\ \E d \in HookSays(c) :
             CASE d = "fails" -> Ends(c, "error")
               [] d = "wait"  -> To(c, [pc |-> "hookWait"])
               [] d = "stop"  -> Finish(c)
               [] d = "retry" -> Continue(c, call[c].attempt + 1)
               [] OTHER       -> IF Retries(c) THEN Continue(c, call[c].attempt + 1)
                                 ELSE Finish(c)
  /\ Quiet

\* Broken form: the hook's own send is not counted.
NextAfterHookUncounted(c) == call[c].attempt + 1

\* The hook named a delay: the loop sends there and then, counts the attempt
\* and goes round again without looking at the response.
NextAfterHook(c) == call[c].attempt + 2

HookSent(c) ==
  /\ At(c, "outcome") /\ call[c].inHook
  /\ LET next == NextAfterHook(c) IN
     IF next > EffectiveRetry(call[c].opts).max THEN Finish(c)
     ELSE To(c, [pc |-> "delay", attempt |-> next, inHook |-> FALSE,
                 settled |-> call[c].status = "200"])
  /\ Quiet

\* The waits end, or the call's context does.
Wait(c) ==
  /\ call[c].pc \in {"delay", "hookWait"}
  /\ \/ To(c, [pc |-> "auth", inHook |-> At(c, "hookWait"), reason |-> "initial",
              token |-> NoToken, status |-> "none"])
     \/ Ends(c, "error")
  /\ Quiet

----------------------------------------------------------------------------
(* The world: credentials run out, are revoked, and the backoff passes.    *)

Expire ==
  /\ cache.value # NoToken /\ cache.expires = "later"
  /\ cache' = [cache EXCEPT !.expires = "past"]
  /\ UNCHANGED <<client, lock, live, made, revoked, call, again>>

Revoke ==
  /\ live # NoToken /\ revoked < MaxRevokes
  /\ live' = NoToken /\ revoked' = revoked + 1
  /\ UNCHANGED <<client, cache, lock, made, call, again>>

BackoffPasses ==
  /\ cache.failed
  /\ cache' = [cache EXCEPT !.failed = FALSE]
  /\ UNCHANGED <<client, lock, live, made, revoked, call, again>>

Step(c) ==
  \/ Prepare(c) \/ ResolveAuth(c) \/ Get(c) \/ Nested(c) \/ Eval(c) \/ Send(c)
  \/ Reject(c) \/ Record(c) \/ Judge(c) \/ HookSent(c) \/ Wait(c)

Next == (\E c \in Callers : Step(c)) \/ Expire \/ Revoke \/ BackoffPasses

\* Every goroutine keeps running; a wait ends.
Fairness == \A c \in Callers : WF_vars(Step(c))

Spec == Init /\ [][Next]_vars /\ Fairness

----------------------------------------------------------------------------
(* Properties.                                                             *)

TypeOK ==
  /\ cache.value \in 0..MaxTokens /\ cache.expires \in {"never", "later", "past"}
  /\ lock \in Callers \cup {Nobody}
  /\ \A c \in Callers : call[c].attempt \in 0..4 /\ call[c].token \in 0..MaxTokens

\* A call sends at most max_attempts times (a resend after a 401 belongs to
\* its attempt), and one that may not be repeated sends once.
SendsBounded ==
  \A c \in Callers : call[c].pc \notin {"idle", "error", "answered"} =>
    call[c].sends <= IF MethodRetryable(call[c].opts)
                     THEN EffectiveRetry(call[c].opts).max ELSE 1

\* The mutex over an evaluation is never waited for by the evaluation itself,
\* and its holder is on its way to letting it go.
NoSelfWait ==
  \A c \in Callers : lock = c => call[c].pc = "eval" \/ (call[c].pc = "nested" /\ Suppressed(c))

\* runRetryLoop says it consults the hook "after each attempt that produced
\* a response": no request follows one whose response was a success.
SuccessNotResent == \A c \in Callers : ~(call[c].pc \in {"auth", "get", "send"} /\ call[c].settled)

\* Calls fail fast only while the failures in a row that caused it stand: one
\* accepted credential, of whichever call, ends it (auth.go:345-366).
FailsFastForCause == cache.failed => cache.fails >= client.maxFailures

\* However many calls a rejected token fails together, each starts at most one
\* evaluation for it (auth.go:266-299; the documentation says one for all).
ReauthBounded == \A t \in 1..MaxTokens : again[t] <= Cardinality(Callers)

\* Every call returns.
Underway(c) == call[c].pc \notin {"idle", "error", "answered"}
CallsReturn == \A c \in Callers : []<>~Underway(c)
=============================================================================
