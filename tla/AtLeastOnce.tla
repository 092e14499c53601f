----------------------------- MODULE AtLeastOnce -----------------------------
(***************************************************************************)
(* What the outbox promises to the rest of the pipeline: an event accepted *)
(* in the database is appended to Kafka, perhaps more than once, and is    *)
(* recorded as published only when a copy was appended or Kafka refused    *)
(* one.  Nothing else is appended, and a copy may still be appended after  *)
(* the event is recorded as published.                                     *)
(***************************************************************************)
EXTENDS Naturals

CONSTANT Events

VARIABLES
    accepted,    \* events whose row was committed
    confirmed,   \* events recorded as published
    log,         \* copies of each event in Kafka
    refused      \* events of which Kafka refused a copy for good

vars == <<accepted, confirmed, log, refused>>

Init ==
    /\ accepted = {}
    /\ confirmed = {}
    /\ log = [e \in Events |-> 0]
    /\ refused = {}

Accept(e) ==
    /\ e \notin accepted
    /\ accepted' = accepted \cup {e}
    /\ UNCHANGED <<confirmed, log, refused>>

Append(e) ==
    /\ e \in accepted
    /\ log' = [log EXCEPT ![e] = @ + 1]
    /\ UNCHANGED <<accepted, confirmed, refused>>

Refuse(e) ==
    /\ e \in accepted
    /\ refused' = refused \cup {e}
    /\ UNCHANGED <<accepted, confirmed, log>>

Confirm(e) ==
    /\ e \in accepted \ confirmed
    /\ log[e] > 0 \/ e \in refused
    /\ confirmed' = confirmed \cup {e}
    /\ UNCHANGED <<accepted, log, refused>>

Next == \E e \in Events : Accept(e) \/ Append(e) \/ Refuse(e) \/ Confirm(e)

Spec == Init /\ [][Next]_vars
=============================================================================
