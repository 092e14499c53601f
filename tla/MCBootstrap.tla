----------------------------- MODULE MCBootstrap -----------------------------
(* Bootstrap for TLC. *)
EXTENDS Bootstrap

CONSTANTS initialiser, operator, kafkaOperator

TwoFields == <<"tenant_id", "document_id">>

EveryFault == AllFaults
=============================================================================
