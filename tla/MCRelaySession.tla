--------------------------- MODULE MCRelaySession ---------------------------
(* Instances of RelaySession for TLC. *)
EXTENDS RelaySession

\* The one message both callers of sendStatus send, as far as readiness goes.
JustReady == {[type |-> "status", ready |-> TRUE, tools |-> FALSE]}

=============================================================================
