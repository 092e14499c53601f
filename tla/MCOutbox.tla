------------------------------ MODULE MCOutbox ------------------------------
(* Outbox with small constants for TLC. *)
EXTENDS Outbox

CONSTANTS p1, p2, e1, e2, e3

\* Every replica runs with the default name "outbox-publisher".
Names == {"outbox-publisher"}
SharedName == [p \in {p1, p2} |-> "outbox-publisher"]

CrashOnly == {"crash"}
RefusedOnly == {"refused"}
EveryFault == AllFaults
=============================================================================
