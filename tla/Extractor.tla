----------------------------- MODULE Extractor -----------------------------
(***************************************************************************)
(* The content extractor (workers/content_extractor.py).  A worker keeps   *)
(* up to MaxConcurrency records in flight as asyncio tasks, each with a    *)
(* converter from a bounded pool, pauses its partitions while it is full,  *)
(* and acknowledges the records of finished tasks between two polls.  A    *)
(* task writes its two artifacts first and claims its event afterwards, in *)
(* the transaction that records the outcome.                               *)
(*                                                                         *)
(* Tasks of a worker, and its main loop, interleave at every await.  The   *)
(* log of each partition is given, with the duplicates that at-least-once  *)
(* publication appends.                                                    *)
(***************************************************************************)
EXTENDS Integers, Sequences, SequencesExt, FiniteSetsExt

CONSTANTS
    Workers,         \* extractor processes
    Partitions,      \* partitions of the document.fetched topic
    Documents,       \* fetched documents; each has one DocumentFetched event
    Log,             \* partition -> sequence of documents
    Source,          \* document -> what extract_pdf makes of it
    Unversioned,     \* documents whose version row is deleted
    Release,         \* worker -> Docling release in its image
    MaxConcurrency,  \* document_extractor_max_concurrency
    NoWorker,
    NoRelease,
    FaultKinds,
    MaxFaults

\* "fickle": text that Docling converts on one attempt and fails on at another.
SourceKinds == {"text", "fickle", "empty_text", "bad_bytes", "missing"}
AllFaults == {"crash", "rebalance", "s3_error", "docling_error", "db_error",
              "ack_lost", "commit_error"}

ASSUME ExtractorAssumption ==
    /\ Log \in [Partitions -> Seq(Documents)]
    /\ Source \in [Documents -> SourceKinds]
    /\ Unversioned \subseteq Documents
    /\ MaxConcurrency \in 1..8
    /\ NoWorker \notin Workers
    /\ \A w \in Workers : Release[w] # NoRelease
    /\ FaultKinds \subseteq AllFaults
    /\ MaxFaults \in Nat

VARIABLES
    owner,       \* partition -> worker it is assigned to
    committed,   \* partition -> committed offset
    position,    \* worker -> partition -> next offset it polls
    held,        \* worker -> partitions it has paused
    paused,      \* worker -> the paused flag of _run
    pc,          \* worker -> where its main loop is
    inflight,    \* worker -> its tasks, in the order of the inflight dict
    free,        \* worker -> converters in the pool
    processed,   \* rag.processed_events of this consumer name
    docStatus,   \* rag.documents.status
    extraction,  \* rag.document_versions.extraction_status
    recorded,    \* release in document_versions.extraction_config
    completed,   \* ContentExtracted outbox rows per document
    rejected,    \* ContentExtractionRejected outbox rows per document
    normalized,  \* normalized.json: the release that wrote it last
    manifest,    \* manifest.json: the release that wrote it last
    faults

group == <<owner, committed, position>>
loop == <<held, paused, pc>>
tasks == <<inflight, free>>
database == <<processed, docStatus, extraction, recorded, completed, rejected>>
artifacts == <<normalized, manifest>>
vars == <<group, loop, tasks, database, artifacts, faults>>

Steps == {"getting", "waiting", "converting", "writing", "describing",
          "completing", "rejecting", "done", "raised"}
TaskRecords ==
    [partition : Partitions, offset : Nat \ {0}, step : Steps, seen : BOOLEAN]

Init ==
    /\ owner = [p \in Partitions |-> NoWorker]
    /\ committed = [p \in Partitions |-> 1]
    /\ position = [w \in Workers |-> [p \in Partitions |-> 1]]
    /\ held = [w \in Workers |-> {}]
    /\ paused = [w \in Workers |-> FALSE]
    /\ pc = [w \in Workers |-> "sweeping"]
    /\ inflight = [w \in Workers |-> <<>>]
    /\ free = [w \in Workers |-> MaxConcurrency]
    /\ processed = {}
    /\ docStatus = [d \in Documents |-> "fetched"]
    /\ extraction = [d \in Documents |-> "pending"]
    /\ recorded = [d \in Documents |-> NoRelease]
    /\ completed = [d \in Documents |-> 0]
    /\ rejected = [d \in Documents |-> 0]
    /\ normalized = [d \in Documents |-> NoRelease]
    /\ manifest = [d \in Documents |-> NoRelease]
    /\ faults = 0

Fault(kind) == kind \in FaultKinds /\ faults < MaxFaults /\ faults' = faults + 1
NoFault == UNCHANGED faults

Goto(w, label) == pc' = [pc EXCEPT ![w] = label]
Assigned(w) == {p \in Partitions : owner[p] = w}
Finished(t) == t.step \in {"done", "raised"}

-----------------------------------------------------------------------------
(* The consumer group *)

\* An unassigned partition goes to a polling worker; a rebalance hands out any
\* partition again, to the same worker or another.  The worker starts at the
\* committed offset, and a pause does not outlive the assignment.
Assign(w, p) ==
    /\ pc[w] = "polling"
    /\ IF owner[p] = NoWorker THEN NoFault ELSE Fault("rebalance")
    /\ owner' = [owner EXCEPT ![p] = w]
    /\ position' = [position EXCEPT ![w][p] = committed[p]]
    /\ held' = [held EXCEPT ![w] = @ \ {p}]
    /\ UNCHANGED <<committed, paused, pc, tasks, database, artifacts>>

\* The process ends: an exception left _run, or it was killed.  Its tasks are
\* cancelled; one whose transaction still commits has done so before.
WorkerEnds(w) ==
    /\ Goto(w, "dead")
    /\ inflight' = [inflight EXCEPT ![w] = <<>>]
    /\ free' = [free EXCEPT ![w] = MaxConcurrency]
    /\ held' = [held EXCEPT ![w] = {}]
    /\ paused' = [paused EXCEPT ![w] = FALSE]
    /\ owner' = [p \in Partitions |-> IF owner[p] = w THEN NoWorker ELSE owner[p]]
    /\ UNCHANGED position

Crash(w) ==
    /\ pc[w] # "dead"
    /\ Fault("crash")
    /\ WorkerEnds(w)
    /\ UNCHANGED <<committed, database, artifacts>>

\* _run warms the converters and enters its loop.
Restart(w) ==
    /\ pc[w] = "dead"
    /\ Goto(w, "sweeping")
    /\ UNCHANGED <<group, held, paused, tasks, database, artifacts, faults>>

-----------------------------------------------------------------------------
(* The main loop of _run *)

\* completed = [task for task in inflight if task.done()]
Sweep(w) ==
    /\ pc[w] = "sweeping"
    /\ inflight' = [inflight EXCEPT ![w] =
           [i \in DOMAIN @ |-> [@[i] EXCEPT !.seen = Finished(inflight[w][i])]]]
    /\ Goto(w, "reaping")
    /\ UNCHANGED <<group, held, paused, free, database, artifacts, faults>>

Seen(w) == {i \in DOMAIN inflight[w] : inflight[w][i].seen}

\* The offset that committing the message of task i acknowledges.
Acknowledged(w, i) == inflight[w][i].offset + 1

\* The first of the completed tasks is popped and its message acknowledged.
Reap(w) ==
    /\ pc[w] = "reaping" /\ Seen(w) # {}
    /\ LET i == Min(Seen(w))
           t == inflight[w][i]
       IN  /\ t.step = "done"
           /\ committed' = [committed EXCEPT ![t.partition] = Acknowledged(w, i)]
           /\ inflight' = [inflight EXCEPT ![w] = RemoveAt(@, i)]
    /\ UNCHANGED <<owner, position, loop, free, database, artifacts, faults>>

\* task.result() raises what handle raised, or the commit raises.
ReapRaises(w) ==
    /\ pc[w] = "reaping" /\ Seen(w) # {}
    /\ \/ inflight[w][Min(Seen(w))].step = "raised" /\ NoFault
       \/ inflight[w][Min(Seen(w))].step = "done" /\ Fault("commit_error")
    /\ WorkerEnds(w)
    /\ UNCHANGED <<committed, database, artifacts>>

\* Plausible bug: the flag is cleared but the partitions stay paused.
FlagOnly(w) == UNCHANGED held

\* consumer.resume(consumer.assignment())
ResumeAssigned(w) == held' = [held EXCEPT ![w] = @ \ Assigned(w)]

\* The completed tasks are acknowledged: room again resumes the partitions.
Resume(w) ==
    /\ pc[w] = "reaping" /\ Seen(w) = {}
    /\ IF paused[w] /\ Len(inflight[w]) < MaxConcurrency
       THEN /\ ResumeAssigned(w)
            /\ paused' = [paused EXCEPT ![w] = FALSE]
       ELSE UNCHANGED <<held, paused>>
    /\ Goto(w, "polling")
    /\ UNCHANGED <<group, tasks, database, artifacts, faults>>

Fetchable(w) ==
    {p \in Assigned(w) \ held[w] : position[w][p] <= Len(Log[p])}

\* Plausible bug: one record more than there are slots.
FullTooLate(n) == n > MaxConcurrency

\* len(inflight) >= document_extractor_max_concurrency
Full(n) == n >= MaxConcurrency

\* A record becomes a task; a full worker pauses its partitions.  It has one at
\* least, the record's own, so it never finds its assignment empty.
Poll(w) ==
    /\ pc[w] = "polling"
    /\ \E p \in Fetchable(w) :
          /\ inflight' = [inflight EXCEPT ![w] = Append(@,
                 [partition |-> p, offset |-> position[w][p], step |-> "getting", seen |-> FALSE])]
          /\ position' = [position EXCEPT ![w][p] = @ + 1]
    /\ IF Full(Len(inflight[w]) + 1)
       THEN /\ held' = [held EXCEPT ![w] = Assigned(w)]
            /\ paused' = [paused EXCEPT ![w] = TRUE]
       ELSE UNCHANGED <<held, paused>>
    /\ Goto(w, "sweeping")
    /\ UNCHANGED <<owner, committed, free, database, artifacts, faults>>

PollEmpty(w) ==
    /\ pc[w] = "polling" /\ Fetchable(w) = {}
    /\ Goto(w, "sweeping")
    /\ UNCHANGED <<group, held, paused, tasks, database, artifacts, faults>>

-----------------------------------------------------------------------------
(* A task: ContentExtractor.handle *)

DocumentOf(t) == Log[t.partition][t.offset]
AtStep(w, i, step) == i \in DOMAIN inflight[w] /\ inflight[w][i].step = step

\* Task i of worker w goes on to a step.
Advance(w, i, step) == inflight' = [inflight EXCEPT ![w][i].step = step]

\* The source object is read; an exception leaves handle.
Get(w, i) ==
    /\ AtStep(w, i, "getting")
    /\ \/ Source[DocumentOf(inflight[w][i])] # "missing" /\ NoFault /\ Advance(w, i, "waiting")
       \/ Source[DocumentOf(inflight[w][i])] = "missing" /\ NoFault /\ Advance(w, i, "raised")
       \/ Fault("s3_error") /\ Advance(w, i, "raised")
    /\ UNCHANGED <<group, loop, free, database, artifacts>>

\* converter = await self._converters.get()
TakeConverter(w, i) ==
    /\ AtStep(w, i, "waiting") /\ free[w] > 0
    /\ free' = [free EXCEPT ![w] = @ - 1]
    /\ Advance(w, i, "converting")
    /\ UNCHANGED <<group, loop, database, artifacts, faults>>

\* Plausible bug: a converter is put back only after a successful extraction.
ReturnedOnSuccess(w, i) ==
    free' = [free EXCEPT ![w] = IF inflight'[w][i].step = "rejecting" THEN @ ELSE @ + 1]

\* Plausible bug: the except branch and the finally block both put it back.
ReturnedTwice(w, i) ==
    free' = [free EXCEPT ![w] = IF inflight'[w][i].step = "rejecting" THEN @ + 2 ELSE @ + 1]

\* The finally block puts the converter back, whatever extract_pdf did.
Returned(w, i) == free' = [free EXCEPT ![w] = @ + 1]

\* The documents that extract_pdf has a result for, and those it raises for.
Convertible(d) == Source[d] \in {"text", "fickle", "empty_text"}
Refusable(d) == Source[d] \in {"fickle", "bad_bytes"}

\* extract_pdf: the size, the checksum and every exception of Docling become
\* an ExtractionError.  Reading the stream may raise: it was opened before the
\* task waited for its converter.
Convert(w, i) ==
    /\ AtStep(w, i, "converting")
    /\ \/ Convertible(DocumentOf(inflight[w][i])) /\ NoFault /\ Advance(w, i, "writing")
       \/ Refusable(DocumentOf(inflight[w][i])) /\ NoFault /\ Advance(w, i, "rejecting")
       \/ Fault("docling_error") /\ Advance(w, i, "rejecting")
       \/ Fault("s3_error") /\ Advance(w, i, "raised")
    /\ Returned(w, i)
    /\ UNCHANGED <<group, loop, database, artifacts>>

\* Plausible bug: the first put is not awaited.
PutNotAwaited(w, d) == UNCHANGED normalized

PutNormalized(w, d) == normalized' = [normalized EXCEPT ![d] = Release[w]]

\* put_json of normalized.json; an exception leaves handle, written or not.
WriteNormalized(w, i) ==
    /\ AtStep(w, i, "writing")
    /\ LET d == DocumentOf(inflight[w][i])
       IN  \/ PutNormalized(w, d) /\ NoFault /\ Advance(w, i, "describing")
           \/ /\ PutNormalized(w, d) \/ UNCHANGED normalized
              /\ Fault("s3_error") /\ Advance(w, i, "raised")
    /\ UNCHANGED <<group, loop, free, database, manifest>>

\* put_json of manifest.json
WriteManifest(w, i) ==
    /\ AtStep(w, i, "describing")
    /\ LET d == DocumentOf(inflight[w][i])
           Written == manifest' = [manifest EXCEPT ![d] = Release[w]]
       IN  \/ Written /\ NoFault /\ Advance(w, i, "completing")
           \/ /\ Written \/ UNCHANGED manifest
              /\ Fault("s3_error") /\ Advance(w, i, "raised")
    /\ UNCHANGED <<group, loop, free, database, normalized>>

-----------------------------------------------------------------------------
(* The transactions of the repository *)

\* Plausible bug: the event is not claimed before its outcome is recorded.
ClaimsAlways(d) == TRUE

\* INSERT INTO processed_events ... ON CONFLICT DO NOTHING returned a row.
Claims(d) == d \notin processed

\* The document's status after its extraction.
StatusAfter(d) == IF Source[d] = "empty_text" THEN "failed" ELSE "extracted"

\* The extraction status: needs_review when there is no text.
Outcome(d) == IF Source[d] = "empty_text" THEN "needs_review" ELSE "succeeded"

\* complete commits: the claim, the version, the document and the handoff.
RecordResult(w, d) ==
    IF Claims(d)
    THEN /\ processed' = processed \cup {d}
         /\ extraction' = [extraction EXCEPT ![d] = Outcome(d)]
         /\ recorded' = [recorded EXCEPT ![d] = Release[w]]
         /\ docStatus' = [docStatus EXCEPT ![d] = StatusAfter(d)]
         /\ completed' = [completed EXCEPT ![d] = @ + 1]
         /\ UNCHANGED rejected
    ELSE UNCHANGED database

\* reject commits; it updates the version row even when that is deleted.
RecordRejection(d) ==
    IF Claims(d)
    THEN /\ processed' = processed \cup {d}
         /\ extraction' = [extraction EXCEPT ![d] = "failed"]
         /\ docStatus' = [docStatus EXCEPT ![d] = "failed"]
         /\ rejected' = [rejected EXCEPT ![d] = @ + 1]
         /\ UNCHANGED <<recorded, completed>>
    ELSE UNCHANGED database

\* Plausible bug: the claim is committed in a transaction of its own.
ClaimSurvives(d) ==
    /\ processed' = processed \cup {d}
    /\ UNCHANGED <<docStatus, extraction, recorded, completed, rejected>>

\* An exception leaves engine.begin(): everything since the claim, and the
\* claim itself, is rolled back.
RolledBack(d) == UNCHANGED database

\* Plausible bug: the version is not looked up.
NeverUnknown(d) == FALSE

\* A claimed event without a version row: complete raises after its claim.
Unknown(d) == Claims(d) /\ d \in Unversioned

\* A transaction commits, or raises with or without its effect.
Transaction(w, i, Effect) ==
    \/ Effect /\ NoFault /\ Advance(w, i, "done")
    \/ /\ RolledBack(DocumentOf(inflight[w][i]))
       /\ Fault("db_error") /\ Advance(w, i, "raised")
    \/ Effect /\ Fault("ack_lost") /\ Advance(w, i, "raised")

Complete(w, i) ==
    /\ AtStep(w, i, "completing")
    /\ LET d == DocumentOf(inflight[w][i])
       IN  IF Unknown(d)
           THEN RolledBack(d) /\ NoFault /\ Advance(w, i, "rejecting")
           ELSE Transaction(w, i, RecordResult(w, d))
    /\ UNCHANGED <<group, loop, free, artifacts>>

Reject(w, i) ==
    /\ AtStep(w, i, "rejecting")
    /\ Transaction(w, i, RecordRejection(DocumentOf(inflight[w][i])))
    /\ UNCHANGED <<group, loop, free, artifacts>>

-----------------------------------------------------------------------------
TaskStep(w, i) ==
    \/ Get(w, i) \/ TakeConverter(w, i) \/ Convert(w, i)
    \/ WriteNormalized(w, i) \/ WriteManifest(w, i)
    \/ Complete(w, i) \/ Reject(w, i)

LoopStep(w) ==
    \/ Sweep(w) \/ Reap(w) \/ ReapRaises(w) \/ Resume(w) \/ Poll(w) \/ PollEmpty(w)

Next ==
    \E w \in Workers :
        \/ LoopStep(w) \/ Crash(w) \/ Restart(w)
        \/ \E p \in Partitions : Assign(w, p)
        \/ \E i \in DOMAIN inflight[w] : TaskStep(w, i)

Spec == Init /\ [][Next]_vars

\* The task of a record in hand takes a step.
RecordStep(w, p, o) ==
    \E i \in DOMAIN inflight[w] :
        inflight[w][i].partition = p /\ inflight[w][i].offset = o /\ TaskStep(w, i)

\* asyncio runs the main loop and every task; ended workers are restarted and
\* a partition without an owner is assigned.
FairSpec ==
    /\ Spec
    /\ \A w \in Workers :
          /\ WF_vars(LoopStep(w))
          /\ WF_vars(Restart(w))
          /\ \A p \in Partitions, o \in 1..Max({Len(Log[q]) : q \in Partitions}) :
                WF_vars(RecordStep(w, p, o))
    /\ \A p \in Partitions :
          SF_vars(\E w \in Workers : owner[p] = NoWorker /\ Assign(w, p))

-----------------------------------------------------------------------------
(* Properties *)

Releases == {Release[w] : w \in Workers} \cup {NoRelease}

TypeOK ==
    /\ owner \in [Partitions -> Workers \cup {NoWorker}]
    /\ committed \in [Partitions -> Nat \ {0}]
    /\ position \in [Workers -> [Partitions -> Nat \ {0}]]
    /\ held \in [Workers -> SUBSET Partitions]
    /\ paused \in [Workers -> BOOLEAN]
    /\ pc \in [Workers -> {"sweeping", "reaping", "polling", "dead"}]
    /\ inflight \in [Workers -> Seq(TaskRecords)]
    /\ free \in [Workers -> 0..MaxConcurrency]
    /\ \A p \in Partitions :
          /\ committed[p] <= Len(Log[p]) + 1
          /\ \A w \in Workers : position[w][p] <= Len(Log[p]) + 1
    /\ \A w \in Workers : \A i \in DOMAIN inflight[w] :
          inflight[w][i].offset <= Len(Log[inflight[w][i].partition])
    /\ processed \subseteq Documents
    /\ docStatus \in [Documents -> {"fetched", "extracted", "failed"}]
    /\ extraction \in [Documents -> {"pending", "succeeded", "needs_review", "failed"}]
    /\ {recorded, normalized, manifest} \subseteq [Documents -> Releases]
    /\ completed \in [Documents -> Nat]
    /\ rejected \in [Documents -> Nat]
    /\ faults \in 0..MaxFaults

\* What is handed on agrees with the tables and the store: an extracted
\* document has both artifacts and the status its text deserves, a rejected one
\* is failed and has no recorded result.
HandoffAgreesWithTables ==
    \A d \in Documents :
        /\ completed[d] > 0 =>
              /\ normalized[d] # NoRelease /\ manifest[d] # NoRelease
              /\ recorded[d] # NoRelease /\ d \notin Unversioned
              /\ docStatus[d] = "extracted" <=> extraction[d] = "succeeded"
              /\ docStatus[d] = "failed" <=> extraction[d] = "needs_review"
        /\ rejected[d] > 0 =>
              docStatus[d] = "failed" /\ extraction[d] = "failed" /\ recorded[d] = NoRelease

\* Each claimed event has exactly one handoff and an event without a claim has
\* none, although complete claims before it looks for the version and may raise
\* in between: its claim must be gone when reject claims the event again, or
\* reject would skip it as a duplicate and acknowledge it without an outcome.
OneHandoff ==
    \A d \in Documents : completed[d] + rejected[d] = IF d \in processed THEN 1 ELSE 0

\* The documents that have something to hand on, and those that may fail.  A
\* failure of Docling may meet any.
Acceptable == {d \in Documents \ Unversioned : Convertible(d)}
Rejectable ==
    {d \in Documents : d \notin Acceptable \/ Refusable(d) \/ "docling_error" \in FaultKinds}

\* However tasks, workers and deliveries interleave, the stage is an idempotent
\* consumer: it never takes back or repeats what it decided.
Consumer == INSTANCE IdempotentConsumer WITH accepted <- completed

DecidesEachEventOnce == Consumer!Spec

\* A manifest in the store is never without its normalized document.
ManifestDescribesDocument ==
    \A d \in Documents : manifest[d] # NoRelease => normalized[d] # NoRelease

Converting(w) == {i \in DOMAIN inflight[w] : inflight[w][i].step = "converting"}

\* No converter is lost or shared: however many tasks a rebalance piles up, a
\* worker runs at most MaxConcurrency conversions.
PoolConserved ==
    \A w \in Workers : free[w] + Cardinality(Converting(w)) = MaxConcurrency

\* The acknowledged prefix of a partition is processed.
AcknowledgedIsProcessed ==
    \A p \in Partitions : \A o \in 1..(committed[p] - 1) : Log[p][o] \in processed

\* A worker holds back no partition of its own without the flag that makes it
\* resume, whatever was taken from it and given back in between.
HeldOnlyWhilePaused ==
    \A w \in Workers : held[w] \cap Assigned(w) # {} => paused[w]

\* What makes the properties above inductive: a task knows what its document
\* is worth and has written what it goes on to announce, and a document without
\* a claim is as the fetcher left it.
StepFact(d, step) ==
    /\ step \in {"writing", "describing", "completing"} => Convertible(d)
    /\ step = "rejecting" => d \in Rejectable
    /\ step \in {"describing", "completing"} => normalized[d] # NoRelease
    /\ step = "completing" => manifest[d] # NoRelease
    /\ step = "done" => d \in processed

TasksAgree ==
    \A w \in Workers : \A i \in DOMAIN inflight[w] :
        StepFact(DocumentOf(inflight[w][i]), inflight[w][i].step)

ClaimedOnce ==
    /\ OneHandoff
    /\ \A d \in Documents : d \notin processed => recorded[d] = NoRelease

IInv ==
    /\ TypeOK
    /\ TasksAgree
    /\ ClaimedOnce
    /\ HandoffAgreesWithTables
    /\ ManifestDescribesDocument
    /\ PoolConserved
    /\ HeldOnlyWhilePaused

\* With one slot: the records before a task of a worker, and those it has
\* polled of a partition it may poll again, are processed; of a partition it
\* holds back, all but the one in hand.
ProcessedBefore(p, n) == \A o \in 1..(n - 1) : Log[p][o] \in processed

HasTaskOf(w, p, o) ==
    \E i \in DOMAIN inflight[w] : inflight[w][i].partition = p /\ inflight[w][i].offset = o

OrderOf(w) ==
    /\ \A i \in DOMAIN inflight[w] :
          ProcessedBefore(inflight[w][i].partition, inflight[w][i].offset)
    /\ \A p \in Assigned(w) :
          /\ p \notin held[w] => ProcessedBefore(p, position[w][p])
          /\ \A o \in 1..(position[w][p] - 1) :
                Log[p][o] \in processed \/ HasTaskOf(w, p, o)

InOrder == \A w \in Workers : OrderOf(w)

\* Every record of every partition is processed in the end.
EveryRecordIsProcessed ==
    <>(\A p \in Partitions : \A o \in 1..Len(Log[p]) : Log[p][o] \in processed)

\* A full worker polls again: no pause is for good.
PauseEnds == \A w \in Workers : paused[w] ~> ~paused[w]
=============================================================================
