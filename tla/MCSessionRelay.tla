--------------------------- MODULE MCSessionRelay ---------------------------
(* Instances of SessionRelay for TLC. *)
EXTENDS SessionRelay, TLC

\* What the callers of sendStatus send.
JustReady == {[type |-> "status", ready |-> TRUE, tools |-> FALSE]}

Symmetry == Permutations(Conns) \cup Permutations(Reqs)

=============================================================================
