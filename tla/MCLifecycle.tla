---------------------------- MODULE MCLifecycle ----------------------------
(***************************************************************************)
(* Lifecycle with one receiver and a subscription that has no queue.       *)
(***************************************************************************)
EXTENDS Lifecycle

OneReceiver == <<"r1">>
=============================================================================
