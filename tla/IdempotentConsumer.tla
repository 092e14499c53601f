-------------------------- MODULE IdempotentConsumer --------------------------
(***************************************************************************)
(* What a consumer stage promises under at-least-once delivery: each event *)
(* it consumes is decided once, by one handoff to the next stage or by one *)
(* rejection, and the decision is one that the document deserves.  Fetcher *)
(* and Extractor implement it; Pipeline is built from it.                  *)
(***************************************************************************)
EXTENDS Naturals

CONSTANTS
    Documents,    \* each has one event for this consumer
    Acceptable,   \* documents the stage may hand on
    Rejectable    \* documents the stage may reject

VARIABLES
    accepted,     \* outbox rows that hand a document on
    rejected      \* outbox rows that reject a document

vars == <<accepted, rejected>>

Init ==
    /\ accepted = [d \in Documents |-> 0]
    /\ rejected = [d \in Documents |-> 0]

\* Plausible bug: an event is claimed again when it is delivered again.
ClaimedAgain(d) == TRUE

\* (tenant_id, event_id, consumer_name) is the key of rag.processed_events.
Undecided(d) == accepted[d] = 0 /\ rejected[d] = 0

Accept(d) ==
    /\ Undecided(d) /\ d \in Acceptable
    /\ accepted' = [accepted EXCEPT ![d] = @ + 1]
    /\ UNCHANGED rejected

Reject(d) ==
    /\ Undecided(d) /\ d \in Rejectable
    /\ rejected' = [rejected EXCEPT ![d] = @ + 1]
    /\ UNCHANGED accepted

Next == \E d \in Documents : Accept(d) \/ Reject(d)

Spec == Init /\ [][Next]_vars
=============================================================================
