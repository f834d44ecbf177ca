---------------------------- MODULE MCHttpClient ----------------------------
(***************************************************************************)
(* HttpClient for TLC: one caller whose on_response hook answers with a    *)
(* delay, which is how the hook asks for another attempt.                  *)
(***************************************************************************)
EXTENDS HttpClient

DelayCalls == {[retry |-> "absent", auth |-> "absent", header |-> "absent", idempotent |-> TRUE]}
DelayPolicies ==
  {[retry |-> [max |-> 3, hook |-> "delay", nonIdempotent |-> FALSE], headerAuth |-> FALSE,
    hasAuth |-> TRUE, nested |-> FALSE, maxLifetime |-> FALSE, maxFailures |-> 2]}
=============================================================================
