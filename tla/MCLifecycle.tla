---------------------------- MODULE MCLifecycle ----------------------------
(* A replica with all services, and one with the Pub/Sub service only. *)
EXTENDS Lifecycle, TLC

CONSTANTS p1, p2

MCScope == (p1 :> <<"backoffice", "pubsub", "task">>) @@ (p2 :> <<"pubsub">>)
=============================================================================
