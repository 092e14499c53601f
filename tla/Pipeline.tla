------------------------------ MODULE Pipeline ------------------------------
(***************************************************************************)
(* The pipeline from the upload to the extracted document: the API, the    *)
(* outbox with its publisher, Kafka, the fetcher and the extractor.        *)
(*                                                                         *)
(* The publisher is what Outbox implements (AtLeastOnce) and the workers   *)
(* are what Fetcher and Extractor implement (IdempotentConsumer), each     *)
(* with the failures that the detailed modules show to have an effect on   *)
(* the others.  Topics have one partition and the extractor one slot, the  *)
(* defaults of the settings, so a worker takes the records of its topic in *)
(* order and a crash of it only makes it take a record again.  The topics  *)
(* that no worker reads are left out.                                      *)
(***************************************************************************)
EXTENDS BoundedRead, Sequences, FiniteSets

CONSTANTS
    Documents,
    Content,      \* document -> its size and what the stages look at
    FaultKinds,
    MaxFaults

Contents == [size : Nat, pdf : BOOLEAN, permitted : BOOLEAN, text : BOOLEAN]
AllFaults == {"ack_lost", "timeout", "refused", "crash", "rebalance", "docling_error"}

ASSUME PipelineAssumption ==
    /\ Content \in [Documents -> Contents]
    /\ FaultKinds \subseteq AllFaults
    /\ MaxFaults \in Nat

\* The types with a topic that a worker reads, and the types nobody reads.
Consumed == {"DocumentSubmitted", "DocumentFetched"}
Types == Consumed \cup {"DocumentFetchRejected", "ContentExtracted", "ContentExtractionRejected"}

\* Every transaction draws a new event id; more than two of one type and
\* document never come up.
Events == [document : Documents, type : Types, id : 1..2]

VARIABLES
    upload,           \* the API's answer: "none", "refused" or "accepted"
    status,           \* rag.documents.status, "none" before the row exists
    objects,          \* documents whose source object is in the bucket
    accepted,         \* outbox rows
    log,              \* records in Kafka, counted by event
    refused,          \* events of which Kafka refused a copy
    leftBehind,       \* rows a dead publisher left in 'publishing'
    topic,            \* records of each consumed topic, in their order
    offset,           \* how many of them the consumer group has acknowledged
    fetched,          \* DocumentFetched rows per document
    fetchRejected,    \* DocumentFetchRejected rows per document
    extracted,        \* ContentExtracted rows per document
    extractRejected,  \* ContentExtractionRejected rows per document
    faults

api == <<upload, objects>>
outbox == <<accepted, log, refused>>
records == <<topic, offset>>
fetcher == <<fetched, fetchRejected>>
extractor == <<extracted, extractRejected>>
vars == <<api, status, outbox, leftBehind, records, fetcher, extractor, faults>>

\* What the fetcher and the extractor make of a document's bytes.
Fetchable ==
    {d \in Documents : LET c == Content[d] IN c.pdf /\ c.permitted /\ InspectedWhole(c.size)}

Extractable == {d \in Documents : CopiedWhole(Content[d].size)}

\* Nobody but the publisher looks at what it records about its rows.
Outbox == INSTANCE AtLeastOnce WITH confirmed <- {}

Fetcher == INSTANCE IdempotentConsumer WITH
    Acceptable <- Fetchable, Rejectable <- Documents \ Fetchable,
    accepted <- fetched, rejected <- fetchRejected

Extractor == INSTANCE IdempotentConsumer WITH
    Acceptable <- Extractable, Rejectable <- Documents,
    accepted <- extracted, rejected <- extractRejected

Init ==
    /\ upload = [d \in Documents |-> "none"]
    /\ status = [d \in Documents |-> "none"]
    /\ objects = {}
    /\ Outbox!Init
    /\ leftBehind = {}
    /\ topic = [t \in Consumed |-> <<>>]
    /\ offset = [t \in Consumed |-> 0]
    /\ Fetcher!Init
    /\ Extractor!Init
    /\ faults = 0

Fault(kind) == kind \in FaultKinds /\ faults < MaxFaults /\ faults' = faults + 1
NoFault == UNCHANGED faults

\* A transaction sets the document's status and inserts a new outbox row.
Commit(d, newStatus, type) ==
    /\ status' = [status EXCEPT ![d] = newStatus]
    /\ LET earlier == {e \in accepted : e.document = d /\ e.type = type}
       IN  Outbox!Accept([document |-> d, type |-> type, id |-> Cardinality(earlier) + 1])

-----------------------------------------------------------------------------
(* The API *)

\* 413: from the declared length of the request, or while reading the file.
RefuseUpload(d) ==
    /\ upload[d] = "none"
    /\ RefusedByLength(Content[d].size) \/ RefusedWhileReading(Content[d].size)
    /\ upload' = [upload EXCEPT ![d] = "refused"]
    /\ UNCHANGED <<objects, status, outbox, leftBehind, records, fetcher, extractor, faults>>

\* The object is stored and the rows are committed.  When only the answer of
\* the COMMIT is lost, the object is deleted again.
Submit(d) ==
    /\ upload[d] = "none" /\ ~RefusedWhileReading(Content[d].size)
    /\ upload' = [upload EXCEPT ![d] = "accepted"]
    /\ Commit(d, "submitted", "DocumentSubmitted")
    /\ \/ objects' = objects \cup {d} /\ NoFault
       \/ UNCHANGED objects /\ Fault("ack_lost")
    /\ UNCHANGED <<leftBehind, records, fetcher, extractor>>

-----------------------------------------------------------------------------
(* The publisher and Kafka *)

\* The record of e is appended to its topic.
Arrives(e) ==
    /\ e.type \in Consumed
    /\ Outbox!Append(e)
    /\ topic' = [topic EXCEPT ![e.type] = Append(@, e.document)]
    /\ UNCHANGED offset

Publish(e) ==
    /\ e \notin leftBehind \cup refused /\ log[e] = 0
    /\ Arrives(e)
    /\ UNCHANGED <<api, status, leftBehind, fetcher, extractor, faults>>

\* A flush timed out; its copy comes after everything else, even if the row is
\* published again, refused or left behind by then.
ArriveLate(e) ==
    /\ log[e] > 0 \/ e \in leftBehind \cup refused
    /\ Fault("timeout")
    /\ Arrives(e)
    /\ UNCHANGED <<api, status, leftBehind, fetcher, extractor>>

\* The row is recorded as published all the same.
Refuse(e) ==
    /\ e.type \in Consumed /\ e \notin leftBehind /\ log[e] = 0
    /\ Fault("refused")
    /\ Outbox!Refuse(e)
    /\ UNCHANGED <<api, status, leftBehind, records, fetcher, extractor>>

\* The publisher ends with the row claimed.
LeaveBehind(e) ==
    /\ e.type \in Consumed /\ e \in accepted \ (leftBehind \cup refused) /\ log[e] = 0
    /\ Fault("crash")
    /\ leftBehind' = leftBehind \cup {e}
    /\ UNCHANGED <<api, status, outbox, records, fetcher, extractor>>

-----------------------------------------------------------------------------
(* The workers *)

NextRecord(type, d) ==
    offset[type] < Len(topic[type]) /\ topic[type][offset[type] + 1] = d

\* The record is inspected and its event decided.
FetchAccept(d) ==
    /\ NextRecord("DocumentSubmitted", d) /\ d \in objects
    /\ Fetcher!Accept(d)
    /\ Commit(d, "fetched", "DocumentFetched")
    /\ UNCHANGED <<api, leftBehind, records, extractor, faults>>

FetchReject(d) ==
    /\ NextRecord("DocumentSubmitted", d) /\ d \in objects
    /\ Fetcher!Reject(d)
    /\ Commit(d, "failed", "DocumentFetchRejected")
    /\ UNCHANGED <<api, leftBehind, records, extractor, faults>>

\* Plausible bug: the document gets the extraction status of its version.
StatusOfVersion(d) == IF Content[d].text THEN "succeeded" ELSE "needs_review"

StatusAfter(d) == IF Content[d].text THEN "extracted" ELSE "failed"

ExtractAccept(d) ==
    /\ NextRecord("DocumentFetched", d) /\ d \in objects
    /\ Extractor!Accept(d)
    /\ Commit(d, StatusAfter(d), "ContentExtracted")
    /\ UNCHANGED <<api, leftBehind, records, fetcher, faults>>

\* The copy is too large, or Docling raises.
ExtractReject(d) ==
    /\ NextRecord("DocumentFetched", d) /\ d \in objects
    /\ IF d \in Extractable THEN Fault("docling_error") ELSE NoFault
    /\ Extractor!Reject(d)
    /\ Commit(d, "failed", "ContentExtractionRejected")
    /\ UNCHANGED <<api, leftBehind, records, fetcher>>

Decided(type, d) ==
    IF type = "DocumentSubmitted" THEN ~Fetcher!Undecided(d) ELSE ~Extractor!Undecided(d)


\* process, complete and reject return False for an event already decided, and
\* the offset is committed all the same.
Acknowledgeable(type, d) == Decided(type, d)

Acknowledge(type) ==
    /\ \E d \in Documents : NextRecord(type, d) /\ Acknowledgeable(type, d)
    /\ offset' = [offset EXCEPT ![type] = @ + 1]
    /\ UNCHANGED <<api, status, outbox, leftBehind, topic, fetcher, extractor, faults>>

\* A worker that lost the partition commits an older offset: the next owner
\* takes every record after it again.
Rewind(type) ==
    /\ Fault("rebalance")
    /\ \E older \in 0..(offset[type] - 1) : offset' = [offset EXCEPT ![type] = older]
    /\ UNCHANGED <<api, status, outbox, leftBehind, topic, fetcher, extractor>>

FetchStep == \E d \in Documents : FetchAccept(d) \/ FetchReject(d)
ExtractStep == \E d \in Documents : ExtractAccept(d) \/ ExtractReject(d)

Next ==
    \/ \E d \in Documents : RefuseUpload(d) \/ Submit(d)
    \/ \E e \in accepted : Publish(e) \/ ArriveLate(e) \/ Refuse(e) \/ LeaveBehind(e)
    \/ FetchStep \/ ExtractStep
    \/ \E t \in Consumed : Acknowledge(t) \/ Rewind(t)

Spec == Init /\ [][Next]_vars

\* The publisher publishes every row it does not leave behind, the workers take
\* the records of their topics and acknowledge them.
FairSpec ==
    /\ Spec
    /\ WF_vars(\E e \in Events : Publish(e))
    /\ WF_vars(FetchStep) /\ WF_vars(ExtractStep)
    /\ \A t \in Consumed : WF_vars(Acknowledge(t))

-----------------------------------------------------------------------------
(* Properties *)

Statuses == {"none", "submitted", "fetched", "extracted", "failed"}

TopicTypes ==
    /\ topic \in [Consumed -> Seq(Documents)]
    /\ offset \in [Consumed -> Nat]
    /\ \A t \in Consumed : offset[t] <= Len(topic[t])

TypeOK ==
    /\ upload \in [Documents -> {"none", "refused", "accepted"}]
    /\ status \in [Documents -> Statuses]
    /\ objects \subseteq Documents
    /\ accepted \subseteq Events
    /\ log \in [Events -> Nat]
    /\ refused \subseteq accepted /\ leftBehind \subseteq accepted
    /\ TopicTypes
    /\ \A f \in {fetched, fetchRejected, extracted, extractRejected} :
          f \in [Documents -> Nat]
    /\ faults \in 0..MaxFaults

\* However records are duplicated, delayed or delivered again after later
\* stages have finished, a document goes through its life once, and each
\* transition tells the next stage once.  Different stages use different keys,
\* so nothing but the consumers' own bookkeeping keeps the stages in order.
Lifecycle == INSTANCE DocumentLifecycle WITH emitted <- accepted
FollowsLifecycle == Lifecycle!Spec

\* What the bytes and the limits say of a document.
Deserves(d) ==
    LET c == Content[d] IN
    IF c.pdf /\ c.permitted /\ c.text /\ c.size > 0
       /\ c.size <= FetchLimit /\ c.size <= ExtractLimit
    THEN "extracted" ELSE "failed"

\* An upload of up to the limit is only refused for its framing; the end of a
\* document is the one its bytes deserve, to the byte; and each document that
\* deserves better has met a failure.
EndIsDeserved ==
    /\ \A d \in Documents :
          /\ upload[d] = "refused" => Content[d].size + Framing > ApiLimit
          /\ upload[d] = "accepted" => Content[d].size <= ApiLimit
          /\ status[d] = "extracted" => Deserves(d) = "extracted"
    /\ Cardinality({d \in Documents :
                      status[d] = "failed" /\ Deserves(d) = "extracted"}) <= faults

Ended(d) == status[d] \in {"extracted", "failed"}

\* A row of d is stuck in the outbox, or was recorded as published in vain.
RowLost(d) ==
    \E e \in Events : e.document = d /\ log[e] = 0 /\ e \in leftBehind \cup refused

\* The fetcher ends at the next record of its topic, for ever, and has not
\* decided d before.
FetcherBlocked(d) ==
    /\ Fetcher!Undecided(d)
    /\ \E first \in Documents \ objects : NextRecord("DocumentSubmitted", first)

=============================================================================
