------------------------------- MODULE Outbox -------------------------------
(***************************************************************************)
(* The transactional outbox: the table rag.ingestion_outbox with its two   *)
(* SECURITY DEFINER functions (migrations/002), and the publisher workers  *)
(* that claim rows, hand them to a Kafka producer, flush, and record the   *)
(* result (workers/outbox_publisher.py).                                   *)
(*                                                                         *)
(* A row is an event.  available_at is abstracted to "due" (available_at   *)
(* has passed) and to the order "earlier" among the due rows.  A claim is  *)
(* two steps, because its transaction holds row locks until it commits;    *)
(* every other transaction touches one row by its key and is one step with *)
(* three outcomes: committed, rolled back with an exception, committed     *)
(* with an exception (the acknowledgement of the COMMIT was lost).         *)
(***************************************************************************)
EXTENDS Integers, FiniteSets, FiniteSetsExt

CONSTANTS
    Publishers,    \* publisher processes
    Events,        \* outbox rows
    Flaky,         \* rows whose produce may raise any number of times
    Workers,       \* worker names (outbox_publisher_name)
    WorkerName,    \* Publisher -> the name it writes in locked_by
    BatchSize,     \* outbox_batch_size
    NoWorker,      \* NULL in locked_by
    NoEvent,       \* no row in hand
    FaultKinds,    \* the failures that may happen
    MaxFaults      \* bound on the number of failures

AllFaults == {"produce_error", "timeout", "refused", "resent", "db_error", "ack_lost", "crash"}

ASSUME OutboxAssumption ==
    /\ Flaky \subseteq Events
    /\ IsFiniteSet(Publishers) /\ IsFiniteSet(Events)
    /\ WorkerName \in [Publishers -> Workers]
    /\ NoWorker \notin Workers
    /\ NoEvent \notin Events
    /\ BatchSize \in 1..1000
    /\ FaultKinds \subseteq AllFaults
    /\ MaxFaults \in Nat

VARIABLES
    status,      \* status column; "absent" before the row is inserted
    locked_by,   \* locked_by column
    due,         \* claimable rows whose available_at has passed
    earlier,     \* <<e, f>>: due row e has an earlier available_at than f
    pc,          \* where each publisher is in _run / publish_batch
    batch,       \* rows each publisher has selected or claimed, not yet completed
    current,     \* the row each publisher is publishing
    queued,      \* messages in each producer's local queue, counted by event
    log,         \* records in Kafka, counted by event
    refused,     \* messages Kafka refused, counted by event
    faults,      \* failures so far
    deaths       \* publisher processes that ended so far

table == <<status, locked_by, due, earlier>>
worker == <<pc, batch, current>>
kafka == <<log, refused>>
vars == <<table, worker, queued, kafka, faults, deaths>>

Claimable == {"pending", "failed"}

PcValues == {"polling", "claiming", "next", "flushing", "completing", "failing", "dead"}

Init ==
    /\ status = [e \in Events |-> "absent"]
    /\ locked_by = [e \in Events |-> NoWorker]
    /\ due = {}
    /\ earlier = {}
    /\ pc = [p \in Publishers |-> "polling"]
    /\ batch = [p \in Publishers |-> {}]
    /\ current = [p \in Publishers |-> NoEvent]
    /\ queued = [p \in Publishers |-> [e \in Events |-> 0]]
    /\ log = [e \in Events |-> 0]
    /\ refused = [e \in Events |-> 0]
    /\ faults = 0
    /\ deaths = 0

\* A budgeted failure of one kind.
Fault(kind) == kind \in FaultKinds /\ faults < MaxFaults /\ faults' = faults + 1
NoFault == UNCHANGED faults

-----------------------------------------------------------------------------
(* Rows arriving and becoming due *)

\* e becomes due now, after every row that is already due.
BecomesDue(e) ==
    /\ due' = due \cup {e}
    /\ earlier' = earlier \cup (due \X {e})

\* Another component's transaction commits an outbox row: status and
\* available_at take their defaults 'pending' and now().
Enqueue(e) ==
    /\ status[e] = "absent"
    /\ status' = [status EXCEPT ![e] = "pending"]
    /\ BecomesDue(e)
    /\ UNCHANGED <<locked_by, worker, queued, kafka, faults, deaths>>

\* The retry time of a failed row passes.
BackoffElapsed(e) ==
    /\ status[e] = "failed" /\ e \notin due
    /\ BecomesDue(e)
    /\ UNCHANGED <<status, locked_by, worker, queued, kafka, faults, deaths>>

-----------------------------------------------------------------------------
(* The end of a process: its batch, its row in hand and its local producer *)
(* queue are memory; the table is not touched.                             *)

ProcessEnds(p) ==
    /\ pc' = [pc EXCEPT ![p] = "dead"]
    /\ batch' = [batch EXCEPT ![p] = {}]
    /\ current' = [current EXCEPT ![p] = NoEvent]
    /\ queued' = [queued EXCEPT ![p] = [e \in Events |-> 0]]
    /\ deaths' = deaths + 1

Crash(p) ==
    /\ pc[p] # "dead"
    /\ Fault("crash")
    /\ ProcessEnds(p)
    /\ UNCHANGED <<table, kafka>>

Restart(p) ==
    /\ pc[p] = "dead"
    /\ pc' = [pc EXCEPT ![p] = "polling"]
    /\ UNCHANGED <<table, batch, current, queued, kafka, faults, deaths>>

-----------------------------------------------------------------------------
(* claim_outbox_events *)

\* FOR UPDATE: the row locks of a claim live until its transaction ends.
Locked(e) == \E p \in Publishers : pc[p] = "claiming" /\ e \in batch[p]

\* Plausible bug: a plain SELECT that takes no row lock.
SelectableWithoutLock(e) == e \in due /\ status[e] \in Claimable

\* The WHERE clause with SKIP LOCKED: due rows that no open claim holds.
Selectable(e) == e \in due /\ status[e] \in Claimable /\ ~Locked(e)

\* Plausible bug: no ORDER BY available_at.
AnyFullBatch(S) ==
    Cardinality(S) = Min({BatchSize, Cardinality({e \in due : Selectable(e)})})

\* ORDER BY available_at LIMIT batch_size, of the rows that can be selected.
FirstInLine(S) ==
    LET free == {e \in due : Selectable(e)} IN
    /\ Cardinality(S) = Min({BatchSize, Cardinality(free)})
    /\ \A e \in S, f \in free \ S : <<f, e>> \notin earlier

\* The CTE of the claim runs: the first rows are locked.
ClaimSelect(p) ==
    /\ pc[p] = "polling"
    /\ \E S \in SUBSET {e \in due : Selectable(e)} :
          /\ S # {}
          /\ FirstInLine(S)
          /\ batch' = [batch EXCEPT ![p] = S]
    /\ pc' = [pc EXCEPT ![p] = "claiming"]
    /\ UNCHANGED <<table, current, queued, kafka, faults, deaths>>

\* Plausible bug: locked_by is not written.
MarkPublishingUnowned(p) ==
    /\ status' = [e \in Events |-> IF e \in batch[p] THEN "publishing" ELSE status[e]]
    /\ due' = due \ batch[p]
    /\ earlier' = {r \in earlier : r[1] \notin batch[p] /\ r[2] \notin batch[p]}
    /\ UNCHANGED locked_by

\* The effect of the claim's UPDATE when its transaction commits.
MarkPublishing(p) ==
    /\ status' = [e \in Events |-> IF e \in batch[p] THEN "publishing" ELSE status[e]]
    /\ locked_by' = [e \in Events |-> IF e \in batch[p] THEN WorkerName[p] ELSE locked_by[e]]
    /\ due' = due \ batch[p]
    /\ earlier' = {r \in earlier : r[1] \notin batch[p] /\ r[2] \notin batch[p]}

ClaimCommit(p) ==
    /\ pc[p] = "claiming"
    /\ MarkPublishing(p)
    /\ pc' = [pc EXCEPT ![p] = "next"]
    /\ UNCHANGED <<batch, current, queued, kafka, faults, deaths>>

\* The claim transaction rolls back; publish_batch raises and _run ends.
ClaimFails(p) ==
    /\ pc[p] = "claiming"
    /\ Fault("db_error")
    /\ ProcessEnds(p)
    /\ UNCHANGED <<table, kafka>>

\* The claim commits, but the worker only sees an exception, and ends.
ClaimAckLost(p) ==
    /\ pc[p] = "claiming"
    /\ Fault("ack_lost")
    /\ MarkPublishing(p)
    /\ ProcessEnds(p)
    /\ UNCHANGED kafka

-----------------------------------------------------------------------------
(* _publish_event *)

\* Serialise and produce: the message enters the local queue.
Produce(p, e) ==
    /\ pc[p] = "next" /\ e \in batch[p]
    /\ queued' = [queued EXCEPT ![p][e] = @ + 1]
    /\ current' = [current EXCEPT ![p] = e]
    /\ pc' = [pc EXCEPT ![p] = "flushing"]
    /\ UNCHANGED <<table, batch, kafka, faults, deaths>>

\* Contract lookup, serialisation or produce() raises; nothing is queued.  It
\* may do so for ever (the payload has no schema) or for a while (the local
\* queue is full): both are in the unbounded failures of a flaky row.
ProduceRaises(p, e) ==
    /\ pc[p] = "next" /\ e \in batch[p]
    /\ \/ e \in Flaky /\ NoFault
       \/ Fault("produce_error")
    /\ current' = [current EXCEPT ![p] = e]
    /\ pc' = [pc EXCEPT ![p] = "failing"]
    /\ UNCHANGED <<table, batch, queued, kafka, deaths>>

Outstanding(p) == \E e \in Events : queued[p][e] > 0

\* Plausible bug: the number flush() returns is not looked at.
FlushedUnchecked(p) == TRUE

\* flush(10.0) returned 0: the local queue is empty.
Flushed(p) == ~Outstanding(p)

FlushReturns(p) ==
    /\ pc[p] = "flushing" /\ Flushed(p)
    /\ pc' = [pc EXCEPT ![p] = "completing"]
    /\ UNCHANGED <<table, batch, current, queued, kafka, faults, deaths>>

\* flush(10.0) returned a positive number: RuntimeError; the messages stay queued.
FlushTimesOut(p) ==
    /\ pc[p] = "flushing" /\ Outstanding(p)
    /\ Fault("timeout")
    /\ pc' = [pc EXCEPT ![p] = "failing"]
    /\ UNCHANGED <<table, batch, current, queued, kafka, deaths>>

\* librdkafka's thread delivers a queued message, at any time.
Deliver(p, e) ==
    /\ queued[p][e] > 0
    /\ queued' = [queued EXCEPT ![p][e] = @ - 1]
    /\ log' = [log EXCEPT ![e] = @ + 1]
    /\ UNCHANGED <<table, worker, refused, faults, deaths>>

\* The broker appends a message, but librdkafka misses its acknowledgement and
\* keeps the message queued to send it again: the producer is not idempotent.
Resent(p, e) ==
    /\ queued[p][e] > 0
    /\ Fault("resent")
    /\ log' = [log EXCEPT ![e] = @ + 1]
    /\ UNCHANGED <<table, worker, queued, refused, deaths>>

\* The delivery of a message fails for good.  It leaves the queue; without
\* a delivery callback nobody is told.
DeliveryRefused(p, e) ==
    /\ queued[p][e] > 0
    /\ Fault("refused")
    /\ queued' = [queued EXCEPT ![p][e] = @ - 1]
    /\ refused' = [refused EXCEPT ![e] = @ + 1]
    /\ UNCHANGED <<table, worker, log, deaths>>

-----------------------------------------------------------------------------
(* complete_outbox_event and the except branch of publish_batch *)

\* Plausible bug: the row is completed without looking at its status.
CompletableInAnyStatus(p) == locked_by[current[p]] \in {WorkerName[p], NoWorker}

\* The WHERE clause; otherwise the function raises.
Completable(p) ==
    /\ status[current[p]] = "publishing"
    /\ locked_by[current[p]] = WorkerName[p]

\* Plausible bug: a failed attempt marks the row published.
CompletedRowAlwaysPublished(p, newStatus) ==
    /\ status' = [status EXCEPT ![current[p]] = "published"]
    /\ locked_by' = [locked_by EXCEPT ![current[p]] = NoWorker]
    /\ UNCHANGED <<due, earlier>>

\* Plausible bug: the branches of CASE WHEN succeeded are swapped.
CompletedRowSwapped(p, newStatus) ==
    /\ status' = [status EXCEPT ![current[p]] =
                     IF newStatus = "published" THEN "failed" ELSE "published"]
    /\ locked_by' = [locked_by EXCEPT ![current[p]] = NoWorker]
    /\ UNCHANGED <<due, earlier>>

\* Plausible bug: a status that the CHECK constraint does not know.
CompletedRowUnknown(p, newStatus) ==
    /\ status' = [status EXCEPT ![current[p]] = "done"]
    /\ locked_by' = [locked_by EXCEPT ![current[p]] = NoWorker]
    /\ UNCHANGED <<due, earlier>>

\* The UPDATE: new status, retry time in the future, lock released.
CompletedRow(p, newStatus) ==
    /\ status' = [status EXCEPT ![current[p]] = newStatus]
    /\ locked_by' = [locked_by EXCEPT ![current[p]] = NoWorker]
    /\ UNCHANGED <<due, earlier>>

\* Plausible bug: the loop returns after the first row.
BatchAbandoned(p) ==
    /\ batch' = [batch EXCEPT ![p] = {}]
    /\ current' = [current EXCEPT ![p] = NoEvent]
    /\ pc' = [pc EXCEPT ![p] = "polling"]

\* The for loop goes on with the rest of the batch, or publish_batch returns.
NextEvent(p) ==
    /\ batch' = [batch EXCEPT ![p] = @ \ {current[p]}]
    /\ current' = [current EXCEPT ![p] = NoEvent]
    /\ pc' = [pc EXCEPT ![p] = IF batch[p] = {current[p]} THEN "polling" ELSE "next"]

\* An exception of the first _complete is caught: the failure is recorded next.
CompletionCaught(p) ==
    /\ pc' = [pc EXCEPT ![p] = "failing"]
    /\ UNCHANGED <<batch, current>>

\* _complete(succeeded=True) commits.
CompletePublished(p) ==
    /\ pc[p] = "completing" /\ Completable(p)
    /\ CompletedRow(p, "published")
    /\ NextEvent(p)
    /\ UNCHANGED <<queued, kafka, faults, deaths>>

\* _complete(succeeded=True) raises, without or with its effect.
CompletePublishedRaises(p) ==
    /\ pc[p] = "completing" /\ Completable(p)
    /\ \/ Fault("db_error") /\ UNCHANGED table
       \/ Fault("ack_lost") /\ CompletedRow(p, "published")
    /\ CompletionCaught(p)
    /\ UNCHANGED <<queued, kafka, deaths>>

\* _complete(succeeded=False) commits.
CompleteFailed(p) ==
    /\ pc[p] = "failing" /\ Completable(p)
    /\ CompletedRow(p, "failed")
    /\ NextEvent(p)
    /\ UNCHANGED <<queued, kafka, faults, deaths>>

\* _complete(succeeded=False) raises inside the except branch: the worker ends.
CompleteFailedRaises(p) ==
    /\ pc[p] = "failing" /\ Completable(p)
    /\ \/ Fault("db_error") /\ UNCHANGED table
       \/ Fault("ack_lost") /\ CompletedRow(p, "failed")
    /\ ProcessEnds(p)
    /\ UNCHANGED kafka

\* NOT FOUND: 'outbox event % is not claimed by worker %'.
CompleteNotClaimed(p) ==
    /\ pc[p] \in {"completing", "failing"} /\ ~Completable(p)
    /\ \/ pc[p] = "completing" /\ CompletionCaught(p) /\ UNCHANGED <<queued, deaths>>
       \/ pc[p] = "failing" /\ ProcessEnds(p)
    /\ UNCHANGED <<table, kafka, faults>>

-----------------------------------------------------------------------------
(* The steps of a publisher when nothing fails, and all of its steps *)

WorkStep(p) ==
    \/ ClaimSelect(p) \/ ClaimCommit(p)
    \/ \E e \in Events : Produce(p, e) \/ ProduceRaises(p, e)
    \/ FlushReturns(p)
    \/ CompletePublished(p) \/ CompleteFailed(p) \/ CompleteNotClaimed(p)

FailureStep(p) ==
    \/ Crash(p) \/ ClaimFails(p) \/ ClaimAckLost(p) \/ FlushTimesOut(p)
    \/ CompletePublishedRaises(p) \/ CompleteFailedRaises(p)

\* librdkafka's thread and the broker, for a message in p's local queue.
BrokerStep(p, e) == Deliver(p, e) \/ Resent(p, e) \/ DeliveryRefused(p, e)

PublisherStep(p) ==
    \/ WorkStep(p) \/ FailureStep(p) \/ Restart(p)
    \/ \E e \in Events : BrokerStep(p, e)

Next ==
    \/ \E e \in Events : Enqueue(e) \/ BackoffElapsed(e)
    \/ \E p \in Publishers : PublisherStep(p)

Spec == Init /\ [][Next]_vars

\* Time passes, running processes take their steps, the container restarts a
\* process that ended, and a producer that has queued messages delivers one.
Fairness ==
    /\ \A e \in Events : WF_vars(BackoffElapsed(e))
    /\ \A p \in Publishers :
          /\ WF_vars(WorkStep(p) \/ Restart(p))
          /\ WF_vars(\E e \in Events : Deliver(p, e))

FairSpec == Spec /\ Fairness

-----------------------------------------------------------------------------
(* Properties *)

TypeOK ==
    /\ status \in [Events -> {"absent", "pending", "publishing", "failed", "published"}]
    /\ locked_by \in [Events -> Workers \cup {NoWorker}]
    /\ due \subseteq Events
    /\ earlier \subseteq Events \X Events
    /\ pc \in [Publishers -> PcValues]
    /\ batch \in [Publishers -> SUBSET Events]
    /\ current \in [Publishers -> Events \cup {NoEvent}]
    /\ queued \in [Publishers -> [Events -> Nat]]
    /\ log \in [Events -> Nat]
    /\ refused \in [Events -> Nat]
    /\ faults \in 0..MaxFaults
    /\ deaths \in Nat

\* p has claimed rows it has not completed.
Holding(p) == pc[p] \in {"next", "flushing", "completing", "failing"}

\* No row is in the hands of two publishers, whatever names they use: SKIP
\* LOCKED keeps open claims apart and 'publishing' keeps committed ones apart.
ClaimsAreExclusive ==
    \A p, q \in Publishers : p # q => batch[p] \cap batch[q] = {}

\* A row that a publisher still has to publish is 'publishing' and locked by
\* its name in the table, so the WHERE clause of complete_outbox_event can
\* only miss a row whose completion was already committed.
HeldRowsAreLocked ==
    \A p \in Publishers : Holding(p) =>
        \A e \in batch[p] :
            \/ status[e] = "publishing" /\ locked_by[e] = WorkerName[p]
            \/ pc[p] = "failing" /\ e = current[p] /\ status[e] = "published"

\* Rows 'publishing' that no process has in hand: nobody will complete them.
Orphans == {e \in Events : status[e] = "publishing"
                           /\ \A p \in Publishers : ~(Holding(p) /\ e \in batch[p])}

\* Rows are left behind only by a process that ended, at most a batch by each:
\* every other path of publish_batch completes every row that it claimed.
OrphansComeFromDeaths == Cardinality(Orphans) <= BatchSize * deaths

\* The sum of f over S.
SumOver(f, S) == MapThenSumSet(LAMBDA x : f[x], S)

\* The copies of e that were handed to Kafka and are not lost with a process.
Copies(e) == log[e] + refused[e] + SumOver([p \in Publishers |-> queued[p][e]], Publishers)

Extra(e) == IF Copies(e) > 0 THEN Copies(e) - 1 ELSE 0

\* Every extra copy of a record is paid for by a failure: without a timeout, a
\* database error or an acknowledgement lost on the way to librdkafka, each row
\* is produced and appended once.
DuplicatesNeedFaults == SumOver([e \in Events |-> Extra(e)], Events) <= faults

\* A row is recorded as published only after a copy of it left the producer:
\* delivered or refused, never still queued or lost with the process.
PublishedHasLeftTheProducer ==
    \A e \in Events : status[e] = "published" => log[e] + refused[e] > 0

\* The strengthening that makes the invariants above inductive: rows an open
\* claim holds are still claimable; a busy publisher has a batch and a row of
\* it in hand; the row in hand has a copy in its own queue or one that has left.
InHand(p) == pc[p] \in {"flushing", "completing", "failing"}

Support ==
    /\ \A e \in due : status[e] \in Claimable
    /\ \A p \in Publishers :
          /\ pc[p] = "claiming" => batch[p] \subseteq due
          /\ pc[p] \in {"polling", "dead"} => batch[p] = {}
          /\ InHand(p) => current[p] \in batch[p]
          /\ pc[p] = "flushing" =>
                queued[p][current[p]] + log[current[p]] + refused[current[p]] > 0
          /\ pc[p] = "completing" => log[current[p]] + refused[current[p]] > 0
          /\ pc[p] = "failing" /\ status[current[p]] = "published" =>
                log[current[p]] + refused[current[p]] > 0

IInv ==
    /\ TypeOK
    /\ ClaimsAreExclusive
    /\ HeldRowsAreLocked
    /\ PublishedHasLeftTheProducer
    /\ Support

\* 'published' is final: no late completion, retry or claim undoes it.
PublishedIsFinal ==
    [][\A e \in Events : status[e] = "published" => status'[e] = "published"]_vars

\* What the publishers do is at-least-once delivery, seen through the table
\* the Kafka log and the messages Kafka refused.
Promise == INSTANCE AtLeastOnce WITH
    accepted <- {e \in Events : status[e] # "absent"},
    confirmed <- {e \in Events : status[e] = "published"},
    refused <- {e \in Events : refused[e] > 0}

DeliversAtLeastOnce == Promise!Spec

\* Work items: "Reliably publish committed PostgreSQL outbox rows to Kafka":
\* a row recorded as published is in Kafka.
PublishedIsInKafka == \A e \in Events : status[e] = "published" => log[e] > 0

\* Every row that can be produced is published in the end, in spite of rows
\* that fail for ever and of limited batches.
EventuallyPublished ==
    \A e \in Events \ Flaky : status[e] = "pending" ~> status[e] = "published"

\* A row that can be produced is published in the end, however often flushing
\* or completing it failed, and although rows that fail for ever are enough to
\* fill every batch.  The one excuse is a row left behind, and no more rows are
\* excused than the processes that ended can have had in hand.
PublishedOrLeftBehind ==
    \A e \in Events \ Flaky :
        status[e] # "absent" ~>
            (status[e] = "published" \/ (e \in Orphans /\ OrphansComeFromDeaths))
=============================================================================
