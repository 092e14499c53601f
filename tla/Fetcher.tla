------------------------------ MODULE Fetcher ------------------------------
(***************************************************************************)
(* The document fetcher (workers/document_fetcher.py): a Kafka consumer    *)
(* group that reads DocumentSubmitted records, inspects the source object  *)
(* and persists the outcome in one transaction that starts by claiming the *)
(* event in rag.processed_events.                                          *)
(*                                                                         *)
(* One partition is modelled: records of a partition are handled in order  *)
(* by the consumer that owns it, and partitions do not interact.  The log  *)
(* is given, with the duplicates that at-least-once publication appends.   *)
(* A consumer that has lost the partition finishes the record it has.      *)
(***************************************************************************)
EXTENDS Integers, Sequences, SequencesExt

CONSTANTS
    Fetchers,      \* consumer processes
    Documents,     \* submitted documents; each has one DocumentSubmitted event
    Log,           \* the partition: a sequence of documents
    Source,        \* document -> what get and inspect_pdf meet
    Unversioned,   \* documents whose version row is gone (deleted_at)
    NoFetcher,
    NoDocument,
    FaultKinds,
    MaxFaults

SourceKinds == {"pdf", "not_pdf", "other_bytes", "other_mime", "missing"}
AllFaults == {"crash", "rebalance", "s3_error", "db_error", "ack_lost", "commit_error"}

ASSUME FetcherAssumption ==
    /\ Log \in Seq(Documents)
    /\ Source \in [Documents -> SourceKinds]
    /\ Unversioned \subseteq Documents
    /\ NoFetcher \notin Fetchers
    /\ NoDocument \notin Documents
    /\ FaultKinds \subseteq AllFaults
    /\ MaxFaults \in Nat

VARIABLES
    owner,       \* consumer the partition is assigned to
    committed,   \* committed offset: records before it are acknowledged
    position,    \* next offset each consumer polls
    pc,          \* where each consumer is in _run / handle
    offset,      \* offset of the record each consumer has in hand
    inspected,   \* result of the inspection: "valid", "invalid" or "none"
    processed,   \* rag.processed_events of this consumer name
    docStatus,   \* rag.documents.status
    inspection,  \* rag.document_versions.inspection_status
    failures,    \* rag.ingestion_failures rows per document
    fetched,     \* DocumentFetched outbox rows per document
    rejected,    \* DocumentFetchRejected outbox rows per document
    extracted,   \* documents the extractor has finished with
    faults

group == <<owner, committed, position>>
consumer == <<pc, offset, inspected>>
database == <<processed, docStatus, inspection, failures, fetched, rejected>>
vars == <<group, consumer, database, extracted, faults>>

PcValues == {"polling", "inspecting", "processing", "committing", "dead"}

Init ==
    /\ owner = NoFetcher
    /\ committed = 1
    /\ position = [f \in Fetchers |-> 1]
    /\ pc = [f \in Fetchers |-> "polling"]
    /\ offset = [f \in Fetchers |-> 0]
    /\ inspected = [f \in Fetchers |-> "none"]
    /\ processed = {}
    /\ docStatus = [d \in Documents |-> "submitted"]
    /\ inspection = [d \in Documents |-> "pending"]
    /\ failures = [d \in Documents |-> 0]
    /\ fetched = [d \in Documents |-> 0]
    /\ rejected = [d \in Documents |-> 0]
    /\ extracted = {}
    /\ faults = 0

Fault(kind) == kind \in FaultKinds /\ faults < MaxFaults /\ faults' = faults + 1
NoFault == UNCHANGED faults

Goto(f, label) == pc' = [pc EXCEPT ![f] = label]

\* The document of the record in hand.
Document(f) == IF offset[f] = 0 THEN NoDocument ELSE Log[offset[f]]

-----------------------------------------------------------------------------
(* The consumer group *)

\* A partition nobody owns goes to any polling consumer; a rebalance takes it
\* from its owner, whatever that one is doing, or gives it to the owner again.
\* A consumer learns of it in poll and starts at the committed offset.
Assign(f) ==
    /\ pc[f] = "polling"
    /\ IF owner = NoFetcher THEN NoFault ELSE Fault("rebalance")
    /\ owner' = f
    /\ position' = [position EXCEPT ![f] = committed]
    /\ UNCHANGED <<committed, consumer, database, extracted>>

\* The process ends: an exception left _run, or it was killed.
WorkerEnds(f) ==
    /\ pc' = [pc EXCEPT ![f] = "dead"]
    /\ offset' = [offset EXCEPT ![f] = 0]
    /\ inspected' = [inspected EXCEPT ![f] = "none"]
    /\ owner' = IF owner = f THEN NoFetcher ELSE owner
    /\ UNCHANGED <<committed, position>>

Crash(f) ==
    /\ pc[f] # "dead"
    /\ Fault("crash")
    /\ WorkerEnds(f)
    /\ UNCHANGED <<database, extracted>>

Restart(f) ==
    /\ pc[f] = "dead"
    /\ Goto(f, "polling")
    /\ UNCHANGED <<group, offset, inspected, database, extracted, faults>>

Poll(f) ==
    /\ pc[f] = "polling" /\ owner = f /\ position[f] <= Len(Log)
    /\ offset' = [offset EXCEPT ![f] = position[f]]
    /\ position' = [position EXCEPT ![f] = @ + 1]
    /\ Goto(f, "inspecting")
    /\ UNCHANGED <<owner, committed, inspected, database, extracted, faults>>

-----------------------------------------------------------------------------
(* handle: get the object, inspect it *)

\* inspect_pdf looks at the bytes alone; a FetchValidationError is an outcome.
Inspect(f) ==
    /\ pc[f] = "inspecting" /\ Source[Document(f)] # "missing"
    /\ inspected' = [inspected EXCEPT ![f] =
                        IF Source[Document(f)] = "not_pdf" THEN "invalid" ELSE "valid"]
    /\ Goto(f, "processing")
    /\ UNCHANGED <<group, offset, database, extracted, faults>>

\* Plausible bug: an exception of get is swallowed and the record acknowledged.
RecordSkipped(f) ==
    /\ Goto(f, "committing")
    /\ UNCHANGED <<group, offset, inspected>>

\* Every other exception of handle leaves _run.
Unhandled(f) == WorkerEnds(f)

\* get raises: the object is not there, or the store is not reachable.
GetRaises(f) ==
    /\ pc[f] = "inspecting"
    /\ \/ Source[Document(f)] = "missing" /\ NoFault
       \/ Fault("s3_error")
    /\ Unhandled(f)
    /\ UNCHANGED <<database, extracted>>

-----------------------------------------------------------------------------
(* process: one transaction *)

\* Plausible bug: the claim does not look for an earlier one.
ClaimsAlways(d) == TRUE

\* INSERT INTO processed_events ... ON CONFLICT DO NOTHING returned a row.
Claims(d) == d \notin processed

\* The error of process: its argument, or what it finds in the version row.
Accepts(f, d) == inspected[f] = "valid" /\ Source[d] \notin {"other_bytes", "other_mime"}

\* Plausible bug: a rejected document is also handed to the extractor.
HandsOffBoth(d) ==
    /\ inspection' = [inspection EXCEPT ![d] = "invalid"]
    /\ docStatus' = [docStatus EXCEPT ![d] = "failed"]
    /\ failures' = [failures EXCEPT ![d] = @ + 1]
    /\ rejected' = [rejected EXCEPT ![d] = @ + 1]
    /\ fetched' = [fetched EXCEPT ![d] = @ + 1]

RejectVersion(d) ==
    /\ inspection' = [inspection EXCEPT ![d] = "invalid"]
    /\ docStatus' = [docStatus EXCEPT ![d] = "failed"]
    /\ failures' = [failures EXCEPT ![d] = @ + 1]
    /\ rejected' = [rejected EXCEPT ![d] = @ + 1]
    /\ UNCHANGED fetched

\* Plausible bug: the success path writes a status the version does not have.
AcceptUnchecked(d) ==
    /\ inspection' = [inspection EXCEPT ![d] = "ok"]
    /\ docStatus' = [docStatus EXCEPT ![d] = "fetched"]
    /\ fetched' = [fetched EXCEPT ![d] = @ + 1]
    /\ UNCHANGED <<failures, rejected>>

AcceptVersion(d) ==
    /\ inspection' = [inspection EXCEPT ![d] = "valid"]
    /\ docStatus' = [docStatus EXCEPT ![d] = "fetched"]
    /\ fetched' = [fetched EXCEPT ![d] = @ + 1]
    /\ UNCHANGED <<failures, rejected>>

\* No version row: only the rejection is enqueued.
RejectUnknown(d) ==
    /\ rejected' = [rejected EXCEPT ![d] = @ + 1]
    /\ UNCHANGED <<docStatus, inspection, failures, fetched>>

\* The transaction of process commits.
Effect(f, d) ==
    IF Claims(d)
    THEN /\ processed' = processed \cup {d}
         /\ \/ d \in Unversioned /\ RejectUnknown(d)
            \/ d \notin Unversioned /\ ~Accepts(f, d) /\ RejectVersion(d)
            \/ d \notin Unversioned /\ Accepts(f, d) /\ AcceptVersion(d)
    ELSE UNCHANGED database

Process(f) ==
    /\ pc[f] = "processing"
    /\ Effect(f, Document(f))
    /\ Goto(f, "committing")
    /\ UNCHANGED <<group, offset, inspected, extracted, faults>>

\* Plausible bug: the claim is committed in a transaction of its own.
ClaimSurvives(d) ==
    /\ processed' = processed \cup {d}
    /\ UNCHANGED <<docStatus, inspection, failures, fetched, rejected>>

\* engine.begin() rolls everything back, the claim included.
RolledBack(d) == UNCHANGED database

\* process raises, with or without its effect: the worker ends.
ProcessRaises(f) ==
    /\ pc[f] = "processing"
    /\ \/ Fault("db_error") /\ RolledBack(Document(f))
       \/ Fault("ack_lost") /\ Effect(f, Document(f))
    /\ WorkerEnds(f)
    /\ UNCHANGED extracted

-----------------------------------------------------------------------------
(* consumer.commit(message), synchronous.  The broker takes the offset from *)
(* any member, the last writer wins, even if it has lost the partition.     *)

\* Plausible bug: the end of the log is acknowledged, not the record.
AcknowledgesAll(f) == Len(Log) + 1

Acknowledges(f) == offset[f] + 1

CommitOffset(f) ==
    /\ pc[f] = "committing"
    /\ committed' = Acknowledges(f)
    /\ offset' = [offset EXCEPT ![f] = 0]
    /\ inspected' = [inspected EXCEPT ![f] = "none"]
    /\ Goto(f, "polling")
    /\ UNCHANGED <<owner, position, database, extracted, faults>>

\* The commit raises: the member was fenced, or the broker is not reachable.
CommitRaises(f) ==
    /\ pc[f] = "committing"
    /\ Fault("commit_error")
    /\ WorkerEnds(f)
    /\ UNCHANGED <<database, extracted>>

-----------------------------------------------------------------------------
\* The extractor, in its own transaction, moves a fetched document on.
ExtractorFinishes(d) ==
    /\ fetched[d] > 0 /\ d \notin extracted
    /\ extracted' = extracted \cup {d}
    /\ \E s \in {"extracted", "failed"} : docStatus' = [docStatus EXCEPT ![d] = s]
    /\ UNCHANGED <<group, consumer, processed, inspection, failures, fetched, rejected, faults>>

WorkStep(f) ==
    Poll(f) \/ Inspect(f) \/ GetRaises(f) \/ Process(f) \/ CommitOffset(f)

FailureStep(f) == Crash(f) \/ ProcessRaises(f) \/ CommitRaises(f)

Next ==
    \/ \E f \in Fetchers : WorkStep(f) \/ FailureStep(f) \/ Assign(f) \/ Restart(f)
    \/ \E d \in Documents : ExtractorFinishes(d)

Spec == Init /\ [][Next]_vars

\* Running consumers work, ended ones are restarted, and a partition without
\* an owner is assigned.
FairSpec ==
    /\ Spec
    /\ \A f \in Fetchers :
          /\ WF_vars(WorkStep(f))
          /\ WF_vars(Restart(f))
    /\ WF_vars(\E f \in Fetchers : owner = NoFetcher /\ Assign(f))

-----------------------------------------------------------------------------
(* Properties *)

TypeOK ==
    /\ owner \in Fetchers \cup {NoFetcher}
    /\ committed \in 1..(Len(Log) + 1)
    /\ position \in [Fetchers -> 1..(Len(Log) + 1)]
    /\ pc \in [Fetchers -> PcValues]
    /\ offset \in [Fetchers -> 0..Len(Log)]
    /\ inspected \in [Fetchers -> {"none", "valid", "invalid"}]
    /\ processed \subseteq Documents
    /\ docStatus \in [Documents -> {"submitted", "fetched", "failed", "extracted"}]
    /\ inspection \in [Documents -> {"pending", "valid", "invalid"}]
    /\ failures \in [Documents -> Nat]
    /\ fetched \in [Documents -> Nat]
    /\ rejected \in [Documents -> Nat]
    /\ extracted \subseteq Documents
    /\ faults \in 0..MaxFaults

\* Each claimed event has exactly one handoff, DocumentFetched or
\* DocumentFetchRejected, and an event without a claim has none: whatever raises
\* or dies in between, no claim outlives the handoff it was made for, which a
\* redelivery would then skip for ever.
OneHandoff ==
    \A d \in Documents : fetched[d] + rejected[d] = IF d \in processed THEN 1 ELSE 0

\* The acknowledged prefix of the partition is processed, even when a consumer
\* that lost the partition moves the committed offset back.
AcknowledgedIsProcessed ==
    \A i \in 1..(committed - 1) : Log[i] \in processed

\* What the extractor is told agrees with the tables: a fetched document has a
\* valid version and was never rejected; a rejected one with a version is
\* failed for good and has a failure row.
HandoffAgreesWithTables ==
    \A d \in Documents :
        /\ fetched[d] > 0 => inspection[d] = "valid" /\ docStatus[d] # "submitted"
                             /\ failures[d] = 0
        /\ rejected[d] > 0 /\ d \notin Unversioned =>
              inspection[d] = "invalid" /\ docStatus[d] = "failed" /\ failures[d] = 1

Progress(s) == CASE s = "submitted" -> 0 [] s = "fetched" -> 1 [] OTHER -> 2

\* A redelivered or late event never takes a document back: not from extracted
\* to fetched, and not out of failed.
StatusNeverRegresses ==
    [][\A d \in Documents :
          docStatus'[d] # docStatus[d] => Progress(docStatus'[d]) > Progress(docStatus[d])]_vars

\* The documents that the code of handle and process lets through.
Acceptable == {d \in Documents \ Unversioned : Source[d] = "pdf"}

\* However consumers, deliveries and failures interleave, the stage is an
\* idempotent consumer whose decision depends on the document alone.
Consumer == INSTANCE IdempotentConsumer WITH
    accepted <- fetched,
    Rejectable <- Documents \ Acceptable

DecidesEachEventOnce == Consumer!Spec

-----------------------------------------------------------------------------
(* The inductive invariant *)

\* All records before offset i are processed.
ProcessedBefore(i) == \A j \in 1..(i - 1) : Log[j] \in processed

\* A consumer holds a record exactly while it works on it, the one before the
\* offset it polls next; every earlier record of the partition is processed,
\* and so is a record whose offset is about to be committed.
ConsumerOrder ==
    \A f \in Fetchers :
        /\ pc[f] \in {"polling", "dead"} => offset[f] = 0
        /\ pc[f] = "dead" => owner # f
        /\ pc[f] \in {"inspecting", "processing", "committing"} =>
              /\ offset[f] \in 1..Len(Log)
              /\ position[f] = offset[f] + 1
              /\ ProcessedBefore(offset[f])
        /\ pc[f] = "committing" => Log[offset[f]] \in processed
        /\ pc[f] = "polling" /\ owner = f => ProcessedBefore(position[f])

\* Only the claim's transaction and then the extractor move a document.
UntouchedUntilClaimed ==
    \A d \in Documents :
        /\ d \notin processed => docStatus[d] = "submitted" /\ failures[d] = 0
        /\ fetched[d] > 0 /\ d \notin extracted => docStatus[d] = "fetched"
        /\ d \in Unversioned => fetched[d] = 0

IInv ==
    /\ TypeOK
    /\ OneHandoff
    /\ AcknowledgedIsProcessed
    /\ HandoffAgreesWithTables
    /\ ConsumerOrder
    /\ UntouchedUntilClaimed

-----------------------------------------------------------------------------
Readable(i) == Source[Log[i]] # "missing"

\* Every record is processed in the end, unless an earlier one, or itself,
\* cannot be read.
EveryRecordIsProcessed ==
    <>(\A i \in 1..Len(Log) : (\A j \in 1..i : Readable(j)) => Log[i] \in processed)

\* Architecture: "exhausted events go to a stage-specific DLQ": an event whose
\* source object cannot be read ends as a rejection.
UnreadableIsDeadLettered ==
    \A f \in Fetchers, d \in Documents :
        pc[f] = "inspecting" /\ Document(f) = d /\ Source[d] = "missing" ~> rejected[d] > 0
=============================================================================
