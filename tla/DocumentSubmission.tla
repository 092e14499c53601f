------------------------- MODULE DocumentSubmission -------------------------
(***************************************************************************)
(* POST /v1/documents: the handler submit_document (interfaces/api.py),    *)
(* the source bucket (SourceObjectStore) and the one transaction of        *)
(* create_submission (infrastructure/document_submission.py) with the      *)
(* unique keys of migrations/001.                                          *)
(*                                                                         *)
(* A request stands for one call and for the document it creates: its      *)
(* document_id is fresh, so a client that retries makes another request    *)
(* with the same attributes.  An INSERT whose unique key another open      *)
(* transaction has inserted waits for that transaction, as in PostgreSQL.  *)
(***************************************************************************)
EXTENDS Integers, FiniteSets

CONSTANTS
    Requests,
    Tenant,        \* request -> X-Tenant-Id
    KnownTenants,  \* rows of rag.tenants
    ExternalId,    \* request -> source_external_id (generated when omitted)
    Sha256,        \* request -> digest of the uploaded bytes
    FileName,      \* request -> name of the uploaded file
    Oversized,     \* requests over api_max_upload_bytes
    Unnamed,       \* requests whose file has no name
    FaultKinds,
    MaxFaults

AllFaults == {"put_error", "put_ack_lost", "db_error", "commit_ack_lost",
              "delete_error", "delete_ack_lost", "crash"}

ASSUME SubmissionAssumption ==
    /\ Oversized \subseteq Requests /\ Unnamed \subseteq Requests
    /\ FaultKinds \subseteq AllFaults
    /\ MaxFaults \in Nat

VARIABLES
    pc,         \* where each request is in submit_document
    response,   \* status code sent to the client, 0 before
    objects,    \* keys in the source bucket
    committed,  \* requests whose document, version and outbox rows are committed
    faults

vars == <<pc, response, objects, committed, faults>>

PcValues == {"idle", "uploading", "documents", "versions", "outbox",
             "conflict", "undo", "answered", "gone"}

Init ==
    /\ pc = [r \in Requests |-> "idle"]
    /\ response = [r \in Requests |-> 0]
    /\ objects = {}
    /\ committed = {}
    /\ faults = 0

Fault(kind) == kind \in FaultKinds /\ faults < MaxFaults /\ faults' = faults + 1
NoFault == UNCHANGED faults

Goto(r, label) == pc' = [pc EXCEPT ![r] = label] /\ UNCHANGED response
Answer(r, code) ==
    /\ pc' = [pc EXCEPT ![r] = "answered"]
    /\ response' = [response EXCEPT ![r] = code]

-----------------------------------------------------------------------------
(* Upload *)

\* Plausible bug: the key has no document_id, so uploads share objects.
SharedKey(r) == <<Tenant[r], FileName[r]>>

\* source_object_key: the tenant, the fresh document_id and the file name.
SourceKey(r) == <<Tenant[r], r, FileName[r]>>

\* The Content-Length check of the middleware, or the check of the read loop.
RejectOversized(r) ==
    /\ pc[r] = "idle" /\ r \in Oversized
    /\ Answer(r, 413)
    /\ UNCHANGED <<objects, committed, faults>>

\* The handler looks at the name before it reads; the middleware comes first,
\* but only if the request has a Content-Length.
RejectUnnamed(r) ==
    /\ pc[r] = "idle" /\ r \in Unnamed
    /\ Answer(r, 422)
    /\ UNCHANGED <<objects, committed, faults>>

\* The body is read and digested into the spool file.
Receive(r) ==
    /\ pc[r] = "idle" /\ r \notin Oversized \cup Unnamed
    /\ Goto(r, "uploading")
    /\ UNCHANGED <<objects, committed, faults>>

Put(r) ==
    /\ pc[r] = "uploading"
    /\ objects' = objects \cup {SourceKey(r)}
    /\ Goto(r, "documents")
    /\ UNCHANGED <<committed, faults>>

\* put raises: 503, and no compensation, whether the object was stored or not.
PutRaises(r) ==
    /\ pc[r] = "uploading"
    /\ \/ Fault("put_error") /\ UNCHANGED objects
       \/ Fault("put_ack_lost") /\ objects' = objects \cup {SourceKey(r)}
    /\ Answer(r, 503)
    /\ UNCHANGED committed

-----------------------------------------------------------------------------
(* create_submission: one transaction.  Its uncommitted rows are visible to *)
(* the unique indexes only, and pc says which of them it has inserted.      *)

SameDocument(r, s) == Tenant[r] = Tenant[s] /\ ExternalId[r] = ExternalId[s]
SameContent(r, s) == Tenant[r] = Tenant[s] /\ Sha256[r] = Sha256[s]

HasDocumentRow(s) == pc[s] \in {"versions", "outbox"}

\* Plausible bug: the content key is taken before the version is inserted.
LocksContentEarly(s) == pc[s] \in {"versions", "outbox"}

HasVersionRow(s) == pc[s] = "outbox"

Others(r) == Requests \ {r}

\* Nobody else's open transaction has inserted a row with r's document key.
DocumentKeyFree(r) == \A s \in Others(r) : ~(HasDocumentRow(s) /\ SameDocument(r, s))

\* Plausible bug: the index check does not see rows of open transactions.
ContentKeyNotAwaited(r) == TRUE

\* Nobody else's open transaction has inserted a row with r's content key.
ContentKeyFree(r) == \A s \in Others(r) : ~(HasVersionRow(s) /\ SameContent(r, s))

\* Foreign key to tenants, UNIQUE (tenant_id, source_system, source_external_id).
DocumentViolates(r) ==
    \/ Tenant[r] \notin KnownTenants
    \/ \E s \in committed : SameDocument(r, s)

\* UNIQUE (tenant_id, content_sha256).
VersionViolates(r) == \E s \in committed : SameContent(r, s)

InsertDocument(r) ==
    /\ pc[r] = "documents"
    /\ DocumentKeyFree(r)
    /\ Goto(r, IF DocumentViolates(r) THEN "conflict" ELSE "versions")
    /\ UNCHANGED <<objects, committed, faults>>

InsertVersion(r) ==
    /\ pc[r] = "versions"
    /\ ContentKeyFree(r)
    /\ Goto(r, IF VersionViolates(r) THEN "conflict" ELSE "outbox")
    /\ UNCHANGED <<objects, committed, faults>>

\* current_version_id and the outbox row are written, the transaction commits.
Commit(r) ==
    /\ pc[r] = "outbox"
    /\ committed' = committed \cup {r}
    /\ Answer(r, 201)
    /\ UNCHANGED <<objects, faults>>

\* Any statement or the COMMIT raises something else than IntegrityError.
TransactionRaises(r) ==
    /\ pc[r] \in {"documents", "versions", "outbox"}
    /\ \/ Fault("db_error") /\ UNCHANGED committed
       \/ pc[r] = "outbox" /\ Fault("commit_ack_lost") /\ committed' = committed \cup {r}
    /\ Goto(r, "undo")
    /\ UNCHANGED objects

-----------------------------------------------------------------------------
(* The two except branches: delete the uploaded object, then answer. *)

\* Plausible bug: the except branch answers without deleting the object.
Kept(r) == UNCHANGED objects

Removed(r) == objects' = objects \ {SourceKey(r)}

\* Plausible bug: every failure of the transaction is reported as a conflict.
AlwaysConflict(r) == 409

\* Plausible bug: a code the API does not document.
BadGateway(r) == 502

CompensatedCode(r) == IF pc[r] = "conflict" THEN 409 ELSE 500

Compensate(r) ==
    /\ pc[r] \in {"conflict", "undo"}
    /\ Removed(r)
    /\ Answer(r, CompensatedCode(r))
    /\ UNCHANGED <<committed, faults>>

\* delete raises inside the except branch: the client gets 500 in both cases.
CompensationRaises(r) ==
    /\ pc[r] \in {"conflict", "undo"}
    /\ \/ Fault("delete_error") /\ UNCHANGED objects
       \/ Fault("delete_ack_lost") /\ Removed(r)
    /\ Answer(r, 500)
    /\ UNCHANGED committed

\* The API process ends while it handles r; an open transaction rolls back.
Crash(r) ==
    /\ pc[r] \notin {"idle", "answered", "gone"}
    /\ Fault("crash")
    /\ Goto(r, "gone")
    /\ UNCHANGED <<objects, committed>>

-----------------------------------------------------------------------------
Handle(r) ==
    \/ Put(r) \/ InsertDocument(r) \/ InsertVersion(r) \/ Commit(r) \/ Compensate(r)

Fail(r) == PutRaises(r) \/ TransactionRaises(r) \/ CompensationRaises(r) \/ Crash(r)

Refuse(r) == RejectOversized(r) \/ RejectUnnamed(r)

Next == \E r \in Requests : Refuse(r) \/ Receive(r) \/ Handle(r) \/ Fail(r)

Spec == Init /\ [][Next]_vars

\* The server keeps running the handlers it has started.
FairSpec == Spec /\ \A r \in Requests : WF_vars(Handle(r))

-----------------------------------------------------------------------------
(* Properties *)

TypeOK ==
    /\ pc \in [Requests -> PcValues]
    /\ response \in [Requests -> {0, 201, 409, 413, 422, 500, 503}]
    /\ objects \subseteq {SourceKey(r) : r \in Requests}
    /\ committed \subseteq Requests
    /\ faults \in 0..MaxFaults

\* However submissions of one tenant overlap, one external id and one content
\* give one document and one DocumentSubmitted event.
NoSecondEvent ==
    \A r, s \in committed : r # s => ~SameDocument(r, s) /\ ~SameContent(r, s)

\* A 201 has its rows and its object; 409, 413, 422 and 503 have no rows, so the
\* client's view of the outcome is right unless it is told 500 or nothing.
AnswersAreTrue ==
    \A r \in Requests :
        /\ response[r] = 201 => r \in committed /\ SourceKey(r) \in objects
        /\ response[r] \in {409, 413, 422, 503} => r \notin committed

\* A 409 has a cause: an unknown tenant, or another document of the tenant
\* with the same external id or the same bytes.
ConflictHasACause ==
    \A r \in Requests : response[r] = 409 =>
        \/ Tenant[r] \notin KnownTenants
        \/ \E s \in committed \ {r} : SameDocument(r, s) \/ SameContent(r, s)

Finished(r) == pc[r] \in {"answered", "gone"}

\* Compensation leaves no orphan: every object without a document that stays
\* behind is paid for by a failure of its own.
OrphansNeedFaults ==
    Cardinality({r \in Requests : Finished(r) /\ r \notin committed
                                  /\ SourceKey(r) \in objects}) <= faults

\* What makes the properties above inductive: open transactions hold their
\* keys against each other and against the committed rows, the object of an
\* unfinished request is there, and a conflict has already found its cause.
Support ==
    /\ \A r, s \in Requests : r # s =>
          /\ HasDocumentRow(r) /\ HasDocumentRow(s) => ~SameDocument(r, s)
          /\ HasVersionRow(r) /\ HasVersionRow(s) => ~SameContent(r, s)
    /\ \A r \in Requests, s \in committed :
          /\ HasDocumentRow(r) => ~SameDocument(r, s)
          /\ HasVersionRow(r) => ~SameContent(r, s)
    /\ \A r \in Requests :
          /\ pc[r] \in PcValues \ {"undo", "answered", "gone"} => r \notin committed
          /\ pc[r] \in {"documents", "versions", "outbox"} => SourceKey(r) \in objects
          /\ pc[r] # "answered" => response[r] = 0
          /\ pc[r] = "conflict" =>
                \/ Tenant[r] \notin KnownTenants
                \/ \E s \in committed : SameDocument(r, s) \/ SameContent(r, s)

IInv ==
    /\ TypeOK
    /\ NoSecondEvent
    /\ AnswersAreTrue
    /\ ConflictHasACause
    /\ Support

\* A committed document keeps its source bytes: the fetcher will read them.
CommittedKeepsSource == \A r \in committed : SourceKey(r) \in objects

\* Every request that was read is answered, unless its process ends: waiting
\* for another submission's key never lasts for ever.
EveryRequestIsAnswered ==
    \A r \in Requests : pc[r] = "uploading" ~> Finished(r)
=============================================================================
