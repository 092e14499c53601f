-------------------------- MODULE DocumentLifecycle --------------------------
(***************************************************************************)
(* What the pipeline promises about a document: its status follows the     *)
(* edges below and nothing else, and each transition commits exactly one   *)
(* new event, of the type that belongs to it.                              *)
(***************************************************************************)
CONSTANTS
    Documents,
    Events        \* records with a document and a type

VARIABLES
    status,       \* rag.documents.status, "none" before the row exists
    emitted       \* events committed to the outbox

vars == <<status, emitted>>

Init ==
    /\ status = [d \in Documents |-> "none"]
    /\ emitted = {}

\* From, to, and the type of the event that tells.
Transitions == {
    <<"none", "submitted", "DocumentSubmitted">>,
    <<"submitted", "fetched", "DocumentFetched">>,
    <<"submitted", "failed", "DocumentFetchRejected">>,
    <<"fetched", "extracted", "ContentExtracted">>,
    <<"fetched", "failed", "ContentExtracted">>,
    <<"fetched", "failed", "ContentExtractionRejected">>}

Transition(e) ==
    /\ e \notin emitted
    /\ emitted' = emitted \cup {e}
    /\ \E t \in Transitions :
          /\ status[e.document] = t[1]
          /\ status' = [status EXCEPT ![e.document] = t[2]]
          /\ e.type = t[3]

Next == \E e \in Events : Transition(e)

Spec == Init /\ [][Next]_vars
=============================================================================
