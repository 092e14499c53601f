---------------------------- MODULE OutboxProofs ----------------------------
(***************************************************************************)
(* Proofs about Outbox for any finite sets of publishers and rows, any     *)
(* batch size and any number of failures of any kind.                      *)
(*                                                                         *)
(* The invariants that matter (ClaimsAreExclusive, HeldRowsAreLocked,      *)
(* PublishedHasLeftTheProducer) are not inductive one by one: exclusion    *)
(* needs the table to agree with the publishers' memory, and that needs    *)
(* exclusion.  IInv is their conjunction with Support.  The two counts     *)
(* need more: OrphansComeFromDeaths that no batch exceeds the batch size   *)
(* (OrphanInv), DuplicatesNeedFaults that the one copy a row may have is   *)
(* not granted to a row that is still to be produced (CopiesPaidFor).      *)
(***************************************************************************)
EXTENDS Outbox, DataFacts

\* The initial state satisfies the inductive invariant.
LEMMA InitIInv == Init => IInv
    BY OutboxAssumption
    DEF Init, IInv, TypeOK, ClaimsAreExclusive, HeldRowsAreLocked, Holding,
        PublishedHasLeftTheProducer, Support, InHand, PcValues, Claimable

\* A process that ends leaves well-typed memory behind.
LEMMA ProcessEndsTypes ==
    ASSUME TypeOK, NEW p \in Publishers, ProcessEnds(p)
    PROVE  /\ pc' \in [Publishers -> PcValues]
           /\ batch' \in [Publishers -> SUBSET Events]
           /\ current' \in [Publishers -> Events \cup {NoEvent}]
           /\ queued' \in [Publishers -> [Events -> Nat]]
           /\ deaths' \in Nat
    BY DEF TypeOK, ProcessEnds, PcValues

\* Completing a row keeps the table well-typed.
LEMMA CompletedRowTypes ==
    ASSUME TypeOK, NEW p \in Publishers, NEW s \in {"published", "failed"},
           CompletedRow(p, s)
    PROVE  /\ status' \in [Events -> {"absent", "pending", "publishing", "failed", "published"}]
           /\ locked_by' \in [Events -> Workers \cup {NoWorker}]
           /\ due' \subseteq Events
           /\ earlier' \subseteq Events \X Events
    BY DEF TypeOK, CompletedRow

\* A failure stays within the budget.
LEMMA FaultTypes ==
    ASSUME TypeOK, NEW kind, Fault(kind)
    PROVE  faults' \in 0..MaxFaults
    BY OutboxAssumption DEF TypeOK, Fault

\* Every step keeps the variables in their types.
LEMMA NextTypeOK ==
    ASSUME TypeOK, Next
    PROVE  TypeOK'
  <1> USE OutboxAssumption DEF TypeOK, PcValues
  <1>1. ASSUME NEW e \in Events, Enqueue(e)  PROVE TypeOK'
    BY <1>1 DEF Enqueue, BecomesDue, worker, kafka
  <1>2. ASSUME NEW e \in Events, BackoffElapsed(e)  PROVE TypeOK'
    BY <1>2 DEF BackoffElapsed, BecomesDue, worker, kafka
  <1>3. ASSUME NEW p \in Publishers, Crash(p)  PROVE TypeOK'
    BY <1>3 DEF Crash, Fault, ProcessEnds, table, kafka
  <1>4. ASSUME NEW p \in Publishers, ClaimFails(p)  PROVE TypeOK'
    BY <1>4 DEF ClaimFails, Fault, ProcessEnds, table, kafka
  <1>5. ASSUME NEW p \in Publishers, ClaimAckLost(p)  PROVE TypeOK'
    BY <1>5 DEF ClaimAckLost, Fault, ProcessEnds, MarkPublishing, kafka
  <1>6. ASSUME NEW p \in Publishers, FlushTimesOut(p)  PROVE TypeOK'
    BY <1>6 DEF FlushTimesOut, Fault, table, kafka
  <1>7. ASSUME NEW p \in Publishers, CompletePublishedRaises(p)  PROVE TypeOK'
    <2>1. CASE Fault("db_error") /\ UNCHANGED table
      BY <1>7, <2>1 DEF CompletePublishedRaises, Fault, CompletionCaught, table, kafka
    <2>2. CASE Fault("ack_lost") /\ CompletedRow(p, "published")
      <3>1. /\ CompletionCaught(p)
            /\ UNCHANGED <<queued, log, refused, deaths>>
        BY <1>7 DEF CompletePublishedRaises, kafka
      <3>2. QED
        <4>1. /\ pc' \in [Publishers -> PcValues]
              /\ UNCHANGED <<batch, current>>
          BY <3>1 DEF CompletionCaught
        <4>2. QED
          BY <2>2, <3>1, <4>1, CompletedRowTypes, FaultTypes
    <2>3. QED
      BY <1>7, <2>1, <2>2 DEF CompletePublishedRaises
  <1>8. ASSUME NEW p \in Publishers, CompleteFailedRaises(p)  PROVE TypeOK'
    <2>1. CASE Fault("db_error") /\ UNCHANGED table
      BY <1>8, <2>1 DEF CompleteFailedRaises, Fault, ProcessEnds, table, kafka
    <2>2. CASE Fault("ack_lost") /\ CompletedRow(p, "failed")
      <3>1. /\ ProcessEnds(p)
            /\ UNCHANGED <<log, refused>>
        BY <1>8 DEF CompleteFailedRaises, kafka
      <3>2. QED
        BY <2>2, <3>1, ProcessEndsTypes, CompletedRowTypes, FaultTypes
    <2>3. QED
      BY <1>8, <2>1, <2>2 DEF CompleteFailedRaises
  <1>9. ASSUME NEW p \in Publishers, ClaimSelect(p)  PROVE TypeOK'
    BY <1>9 DEF ClaimSelect, table, kafka
  <1>10. ASSUME NEW p \in Publishers, ClaimCommit(p)  PROVE TypeOK'
    BY <1>10 DEF ClaimCommit, MarkPublishing, kafka
  <1>11. ASSUME NEW p \in Publishers, NEW e \in Events, Produce(p, e)  PROVE TypeOK'
    BY <1>11 DEF Produce, table, kafka
  <1>12. ASSUME NEW p \in Publishers, NEW e \in Events, ProduceRaises(p, e)  PROVE TypeOK'
    BY <1>12 DEF ProduceRaises, Fault, NoFault, table, kafka
  <1>13. ASSUME NEW p \in Publishers, FlushReturns(p)  PROVE TypeOK'
    BY <1>13 DEF FlushReturns, table, kafka
  <1>14. ASSUME NEW p \in Publishers, CompletePublished(p)  PROVE TypeOK'
    BY <1>14 DEF CompletePublished, CompletedRow, NextEvent, kafka
  <1>15. ASSUME NEW p \in Publishers, CompleteFailed(p)  PROVE TypeOK'
    BY <1>15 DEF CompleteFailed, CompletedRow, NextEvent, kafka
  <1>16. ASSUME NEW p \in Publishers, CompleteNotClaimed(p)  PROVE TypeOK'
    <2>1. CASE pc[p] = "completing"
      <3>1. /\ CompletionCaught(p)
            /\ UNCHANGED <<status, locked_by, due, earlier, queued, log, refused, faults, deaths>>
        BY <1>16, <2>1 DEF CompleteNotClaimed, table, kafka
      <3>2. QED
        BY <3>1 DEF CompletionCaught
    <2>2. CASE pc[p] # "completing"
      <3>1. /\ ProcessEnds(p)
            /\ UNCHANGED <<status, locked_by, due, earlier, log, refused, faults>>
        BY <1>16, <2>2 DEF CompleteNotClaimed, table, kafka
      <3>2. QED
        BY <3>1, ProcessEndsTypes
    <2>3. QED
      BY <2>1, <2>2
  <1>17. ASSUME NEW p \in Publishers, Restart(p)  PROVE TypeOK'
    BY <1>17 DEF Restart, table, kafka
  <1>18. ASSUME NEW p \in Publishers, NEW e \in Events, Deliver(p, e)  PROVE TypeOK'
    BY <1>18 DEF Deliver, table, worker
  <1>19. ASSUME NEW p \in Publishers, NEW e \in Events, DeliveryRefused(p, e)  PROVE TypeOK'
    BY <1>19 DEF DeliveryRefused, Fault, table, worker
  <1>20. ASSUME NEW p \in Publishers, NEW e \in Events, Resent(p, e)  PROVE TypeOK'
    BY <1>20 DEF Resent, Fault, table, worker
  <1>21. QED
    BY <1>1, <1>2, <1>3, <1>4, <1>5, <1>6, <1>7, <1>8, <1>9, <1>10, <1>11, <1>12,
       <1>13, <1>14, <1>15, <1>16, <1>17, <1>18, <1>19, <1>20
    DEF Next, PublisherStep, BrokerStep, WorkStep, FailureStep

-----------------------------------------------------------------------------
(* The inductive step *)

\* The parts of IInv that relate the table, the publishers and Kafka.
Relations ==
    /\ ClaimsAreExclusive
    /\ HeldRowsAreLocked
    /\ PublishedHasLeftTheProducer
    /\ Support

\* A process that ends with no effect on the table keeps the relations: its
\* rows stay as they are and nobody else's rows are touched.
LEMMA EndKeepsRelations ==
    ASSUME IInv, TypeOK', NEW p \in Publishers, ProcessEnds(p),
           UNCHANGED <<status, locked_by, due, log, refused>>
    PROVE  Relations'
  <1> USE DEF IInv, TypeOK, ProcessEnds
  <1>1. ClaimsAreExclusive'
    BY DEF ClaimsAreExclusive
  <1>2. HeldRowsAreLocked'
    BY DEF HeldRowsAreLocked, Holding
  <1>3. PublishedHasLeftTheProducer'
    BY DEF PublishedHasLeftTheProducer
  <1>4. Support'
    BY DEF Support, InHand
  <1>5. QED
    BY <1>1, <1>2, <1>3, <1>4 DEF Relations

\* Arrivals and elapsed retry times touch no row a publisher has.
LEMMA ArrivalKeepsRelations ==
    ASSUME IInv, TypeOK', NEW e \in Events, Enqueue(e) \/ BackoffElapsed(e)
    PROVE  Relations'
  <1> USE DEF IInv, TypeOK
  <1>1. UNCHANGED <<locked_by, pc, batch, current, queued, log, refused>>
    BY DEF Enqueue, BackoffElapsed, worker, kafka
  <1>2. /\ due' = due \cup {e}
        /\ status[e] \in {"absent", "failed"}
        /\ status'[e] \in {"pending", "failed"}
        /\ \A f \in Events \ {e} : status'[f] = status[f]
    BY DEF Enqueue, BackoffElapsed, BecomesDue
  <1>3. ClaimsAreExclusive'
    BY <1>1 DEF ClaimsAreExclusive
  <1>4. HeldRowsAreLocked'
    BY <1>1, <1>2 DEF HeldRowsAreLocked, Holding
  <1>5. PublishedHasLeftTheProducer'
    BY <1>1, <1>2 DEF PublishedHasLeftTheProducer
  <1>6. Support'
    BY <1>1, <1>2 DEF Support, InHand, HeldRowsAreLocked, Holding, Claimable
  <1>7. QED
    BY <1>3, <1>4, <1>5, <1>6 DEF Relations

\* A claim selects only rows that no open claim has locked, and a row in the
\* hands of a publisher that has committed its claim is not due.
LEMMA ClaimSelectKeepsRelations ==
    ASSUME IInv, TypeOK', NEW p \in Publishers, ClaimSelect(p)
    PROVE  Relations'
  <1> USE DEF IInv, TypeOK
  <1>1. PICK S \in SUBSET {e \in due : Selectable(e)} :
           /\ S # {}
           /\ batch' = [batch EXCEPT ![p] = S]
    BY DEF ClaimSelect
  <1>2. /\ pc[p] = "polling"
        /\ pc' = [pc EXCEPT ![p] = "claiming"]
        /\ UNCHANGED <<status, locked_by, due, current, queued, log, refused>>
    BY DEF ClaimSelect, table, kafka
  <1>3. ASSUME NEW q \in Publishers, NEW e \in S, e \in batch[q]
        PROVE  FALSE
    <2>1. e \in due /\ status[e] \in Claimable /\ ~Locked(e)
      BY DEF Selectable
    <2>2. pc[q] # "claiming"
      BY <1>3, <2>1 DEF Locked
    <2>3. Holding(q)
      BY <1>3, <2>2 DEF Support, Holding, PcValues
    <2>4. QED
      BY <1>3, <2>1, <2>3 DEF HeldRowsAreLocked, Claimable, Support
  <1>4. ClaimsAreExclusive'
    BY <1>1, <1>3 DEF ClaimsAreExclusive
  <1>5. HeldRowsAreLocked'
    BY <1>1, <1>2 DEF HeldRowsAreLocked, Holding
  <1>6. PublishedHasLeftTheProducer'
    BY <1>2 DEF PublishedHasLeftTheProducer
  <1>7. Support'
    BY <1>1, <1>2 DEF Support, InHand
  <1>8. QED
    BY <1>4, <1>5, <1>6, <1>7 DEF Relations

\* When a claim commits, its rows become 'publishing' under the claimant's
\* name; they were due, so they belong to nobody else.
LEMMA MarkPublishingRows ==
    ASSUME IInv, NEW p \in Publishers, pc[p] = "claiming", MarkPublishing(p)
    PROVE  /\ \A e \in batch[p] : status[e] \in Claimable
           /\ \A e \in batch[p] : status'[e] = "publishing" /\ locked_by'[e] = WorkerName[p]
           /\ \A e \in Events \ batch[p] : status'[e] = status[e] /\ locked_by'[e] = locked_by[e]
           /\ due' = due \ batch[p]
           /\ \A q \in Publishers \ {p} : \A e \in batch[q] : e \notin batch[p]
    BY DEF IInv, TypeOK, Support, MarkPublishing, ClaimsAreExclusive

LEMMA ClaimCommitKeepsRelations ==
    ASSUME IInv, TypeOK', NEW p \in Publishers, ClaimCommit(p)
    PROVE  Relations'
  <1> USE DEF IInv, TypeOK
  <1>1. /\ pc[p] = "claiming" /\ MarkPublishing(p)
        /\ pc' = [pc EXCEPT ![p] = "next"]
        /\ UNCHANGED <<batch, current, queued, log, refused>>
    BY DEF ClaimCommit, kafka
  <1>2. ClaimsAreExclusive'
    BY <1>1 DEF ClaimsAreExclusive
  <1>3. HeldRowsAreLocked'
    BY <1>1, MarkPublishingRows DEF HeldRowsAreLocked, Holding
  <1>4. PublishedHasLeftTheProducer'
    BY <1>1, MarkPublishingRows DEF PublishedHasLeftTheProducer
  <1>5. Support'
    BY <1>1, MarkPublishingRows DEF Support, InHand
  <1>6. QED
    BY <1>2, <1>3, <1>4, <1>5 DEF Relations

LEMMA ClaimAckLostKeepsRelations ==
    ASSUME IInv, TypeOK', NEW p \in Publishers, ClaimAckLost(p)
    PROVE  Relations'
  <1> USE DEF IInv, TypeOK
  <1>1. /\ pc[p] = "claiming" /\ MarkPublishing(p) /\ ProcessEnds(p)
        /\ UNCHANGED <<log, refused>>
    BY DEF ClaimAckLost, kafka
  <1>2. ClaimsAreExclusive'
    BY <1>1 DEF ClaimsAreExclusive, ProcessEnds
  <1>3. HeldRowsAreLocked'
    BY <1>1, MarkPublishingRows DEF HeldRowsAreLocked, Holding, ProcessEnds
  <1>4. PublishedHasLeftTheProducer'
    BY <1>1, MarkPublishingRows DEF PublishedHasLeftTheProducer
  <1>5. Support'
    BY <1>1, MarkPublishingRows DEF Support, InHand, ProcessEnds
  <1>6. QED
    BY <1>2, <1>3, <1>4, <1>5 DEF Relations

\* Producing and flushing touch the publisher's queue and pc only.
LEMMA PublishKeepsRelations ==
    ASSUME IInv, TypeOK', NEW p \in Publishers,
           \/ \E e \in Events : Produce(p, e) \/ ProduceRaises(p, e)
           \/ FlushReturns(p) \/ FlushTimesOut(p)
    PROVE  Relations'
  <1> USE DEF IInv, TypeOK
  <1>1. UNCHANGED <<status, locked_by, due, batch, log, refused>>
    BY DEF Produce, ProduceRaises, FlushReturns, FlushTimesOut, table, kafka
  <1>2. ClaimsAreExclusive' /\ PublishedHasLeftTheProducer'
    BY <1>1 DEF ClaimsAreExclusive, PublishedHasLeftTheProducer
  <1>3. HeldRowsAreLocked'
    <2>1. /\ Holding(p)
          /\ \A e \in batch[p] : status[e] = "publishing" /\ locked_by[e] = WorkerName[p]
      BY DEF HeldRowsAreLocked, Holding, Produce, ProduceRaises, FlushReturns, FlushTimesOut
    <2>2. \A q \in Publishers \ {p} : pc'[q] = pc[q] /\ current'[q] = current[q]
      BY DEF Produce, ProduceRaises, FlushReturns, FlushTimesOut
    <2>3. ASSUME NEW q \in Publishers, Holding(q)', NEW e \in batch'[q]
          PROVE  \/ status'[e] = "publishing" /\ locked_by'[e] = WorkerName[q]
                 \/ pc'[q] = "failing" /\ e = current'[q] /\ status'[e] = "published"
      <3>1. e \in batch[q] /\ status'[e] = status[e] /\ locked_by'[e] = locked_by[e]
        BY <1>1, <2>3
      <3>2. CASE q = p
        BY <2>1, <3>1, <3>2
      <3>3. CASE q # p
        <4>1. pc'[q] = pc[q] /\ current'[q] = current[q] /\ Holding(q)
          BY <2>2, <2>3, <3>3 DEF Holding
        <4>2. QED
          BY <3>1, <4>1 DEF HeldRowsAreLocked
      <3>4. QED
        BY <3>2, <3>3
    <2>4. QED
      BY <2>3 DEF HeldRowsAreLocked
  <1>4. Support'
    <2>1. CASE \E e \in Events : Produce(p, e)
      BY <1>1, <2>1 DEF Produce, Support, InHand
    <2>2. CASE \E e \in Events : ProduceRaises(p, e)
      BY <1>1, <2>2 DEF ProduceRaises, Support, InHand, HeldRowsAreLocked, Holding
    <2>3. CASE FlushReturns(p)
      BY <1>1, <2>3 DEF FlushReturns, Flushed, Outstanding, Support, InHand
    <2>4. CASE FlushTimesOut(p)
      BY <1>1, <2>4 DEF FlushTimesOut, Support, InHand, HeldRowsAreLocked, Holding
    <2>5. QED
      BY <2>1, <2>2, <2>3, <2>4
  <1>5. QED
    BY <1>2, <1>3, <1>4 DEF Relations

\* A message that leaves a queue, or is appended and stays in it, is counted in
\* Kafka or among the refused.
LEMMA SettleKeepsRelations ==
    ASSUME IInv, TypeOK', NEW p \in Publishers, NEW e \in Events,
           BrokerStep(p, e)
    PROVE  Relations'
  <1> USE DEF IInv, TypeOK
  <1>1. /\ UNCHANGED <<status, locked_by, due, pc, batch, current>>
        /\ queued[p][e] > 0
        /\ queued' \in {queued, [queued EXCEPT ![p][e] = @ - 1]}
        /\ log'[e] + refused'[e] = log[e] + refused[e] + 1
        /\ \A f \in Events \ {e} : log'[f] = log[f] /\ refused'[f] = refused[f]
    <2>1. CASE Deliver(p, e)
      BY <2>1 DEF Deliver, table, worker
    <2>2. CASE DeliveryRefused(p, e)
      BY <2>2 DEF DeliveryRefused, table, worker
    <2>3. CASE Resent(p, e)
      BY <2>3 DEF Resent, table, worker
    <2>4. QED
      BY <2>1, <2>2, <2>3 DEF BrokerStep
  <1>2. ClaimsAreExclusive' /\ HeldRowsAreLocked'
    BY <1>1 DEF ClaimsAreExclusive, HeldRowsAreLocked, Holding
  <1>3. \A f \in Events : log'[f] + refused'[f] >= log[f] + refused[f]
    BY <1>1
  <1>4. PublishedHasLeftTheProducer'
    BY <1>1, <1>3 DEF PublishedHasLeftTheProducer
  <1>5. Support'
    <2>1. ASSUME NEW q \in Publishers, pc[q] = "flushing", NEW f \in Events, f = current[q]
          PROVE  queued'[q][f] + log'[f] + refused'[f] > 0
      <3>1. queued[q][f] + log[f] + refused[f] > 0
        BY <2>1 DEF Support
      <3>2. CASE q = p /\ f = e
        BY <1>1, <3>2
      <3>3. CASE ~(q = p /\ f = e)
        <4>1. queued'[q][f] = queued[q][f]
          BY <1>1, <3>3
        <4>2. QED
          BY <1>3, <3>1, <4>1
      <3>4. QED
        BY <3>2, <3>3
    <2>2. \A q \in Publishers : InHand(q) => current[q] \in Events
      BY DEF Support
    <2>3. \A q \in Publishers : pc[q] = "flushing" =>
             queued'[q][current[q]] + log'[current[q]] + refused'[current[q]] > 0
      BY <2>1, <2>2 DEF InHand
    <2>4. \A q \in Publishers :
             InHand(q) /\ log[current[q]] + refused[current[q]] > 0 =>
                log'[current[q]] + refused'[current[q]] > 0
      BY <1>3, <2>2
    <2>5. QED
      BY <1>1, <2>3, <2>4 DEF Support, InHand
  <1>6. QED
    BY <1>2, <1>4, <1>5 DEF Relations

\* A completion releases the row in hand, and only a row whose record has left
\* the producer is recorded as published.
LEMMA NextEventKeepsRelations ==
    ASSUME IInv, TypeOK', NEW p \in Publishers, CompletePublished(p) \/ CompleteFailed(p)
    PROVE  Relations'
  <1> USE DEF IInv, TypeOK
  <1> DEFINE e == current[p]
  <1>1. PICK s \in {"published", "failed"} :
           /\ InHand(p) /\ Completable(p) /\ CompletedRow(p, s) /\ NextEvent(p)
           /\ s = "published" => pc[p] = "completing"
           /\ UNCHANGED <<queued, log, refused>>
    BY DEF CompletePublished, CompleteFailed, InHand, kafka
  <1>2. /\ e \in Events /\ e \in batch[p]
        /\ status[e] = "publishing"
        /\ status'[e] = s
        /\ \A f \in Events \ {e} : status'[f] = status[f] /\ locked_by'[f] = locked_by[f]
        /\ due' = due
    BY <1>1 DEF CompletedRow, Completable, Support
  <1>3. /\ batch' = [batch EXCEPT ![p] = @ \ {e}]
        /\ \A q \in Publishers \ {p} : pc'[q] = pc[q] /\ current'[q] = current[q]
        /\ pc'[p] \in {"polling", "next"}
        /\ pc'[p] = "polling" => batch'[p] = {}
    BY <1>1 DEF NextEvent
  <1>4. \A q \in Publishers \ {p} : e \notin batch[q]
    BY <1>2 DEF ClaimsAreExclusive
  <1>5. s = "published" => log[e] + refused[e] > 0
    BY <1>1 DEF Support
  <1>6. ClaimsAreExclusive'
    BY <1>3 DEF ClaimsAreExclusive
  <1>7. HeldRowsAreLocked'
    <2>1. ASSUME NEW f \in batch'[p]
          PROVE  status'[f] = "publishing" /\ locked_by'[f] = WorkerName[p]
      <3>1. f \in batch[p] /\ f # e
        BY <1>3
      <3>2. Holding(p)
        BY <1>1 DEF InHand, Holding
      <3>3. QED
        BY <1>2, <3>1, <3>2 DEF HeldRowsAreLocked
    <2>2. ASSUME NEW q \in Publishers \ {p}, Holding(q), NEW f \in batch[q]
          PROVE  \/ status'[f] = "publishing" /\ locked_by'[f] = WorkerName[q]
                 \/ pc'[q] = "failing" /\ f = current'[q] /\ status'[f] = "published"
      BY <1>2, <1>3, <1>4, <2>2 DEF HeldRowsAreLocked
    <2>3. QED
      BY <1>3, <2>1, <2>2 DEF HeldRowsAreLocked, Holding
  <1>8. PublishedHasLeftTheProducer'
    BY <1>1, <1>2, <1>5 DEF PublishedHasLeftTheProducer
  <1>9. Support'
    <2>1. \A f \in due' : status'[f] \in Claimable
      BY <1>2 DEF Support, Claimable
    <2>2. \A q \in Publishers \ {p} : InHand(q) => current[q] # e
      BY <1>4 DEF Support
    <2>3. QED
      BY <1>1, <1>2, <1>3, <2>1, <2>2 DEF Support, InHand
  <1>10. QED
    BY <1>6, <1>7, <1>8, <1>9 DEF Relations

\* The first _complete raised: the row is in doubt, and stays in hand.
LEMMA RaisedCompletionKeepsRelations ==
    ASSUME IInv, TypeOK', NEW p \in Publishers, CompletePublishedRaises(p)
    PROVE  Relations'
  <1> USE DEF IInv, TypeOK
  <1> DEFINE e == current[p]
  <1>1. /\ pc[p] = "completing" /\ Completable(p)
        /\ pc' = [pc EXCEPT ![p] = "failing"]
        /\ UNCHANGED <<batch, current, queued, log, refused>>
    BY DEF CompletePublishedRaises, CompletionCaught, kafka
  <1>2. /\ e \in Events /\ e \in batch[p]
        /\ status[e] = "publishing" /\ locked_by[e] = WorkerName[p]
        /\ log[e] + refused[e] > 0
        /\ \A q \in Publishers \ {p} : e \notin batch[q]
    BY <1>1 DEF Completable, Support, InHand, ClaimsAreExclusive, HeldRowsAreLocked, Holding
  <1>3. /\ due' = due
        /\ \/ status'[e] = "publishing" /\ locked_by'[e] = WorkerName[p]
           \/ status'[e] = "published"
        /\ \A f \in Events \ {e} : status'[f] = status[f] /\ locked_by'[f] = locked_by[f]
    BY <1>2 DEF CompletePublishedRaises, CompletedRow, table
  <1>4. ClaimsAreExclusive'
    BY <1>1 DEF ClaimsAreExclusive
  <1>5. HeldRowsAreLocked'
    BY <1>1, <1>2, <1>3 DEF HeldRowsAreLocked, Holding
  <1>6. PublishedHasLeftTheProducer'
    BY <1>1, <1>2, <1>3 DEF PublishedHasLeftTheProducer
  <1>7. Support'
    BY <1>1, <1>2, <1>3 DEF Support, InHand, Claimable
  <1>8. QED
    BY <1>4, <1>5, <1>6, <1>7 DEF Relations

\* The second _complete raised: the worker ends, with the row failed or not.
LEMMA RaisedFailureKeepsRelations ==
    ASSUME IInv, TypeOK', NEW p \in Publishers, CompleteFailedRaises(p)
    PROVE  Relations'
  <1> USE DEF IInv, TypeOK
  <1> DEFINE e == current[p]
  <1>1. /\ pc[p] = "failing" /\ Completable(p) /\ ProcessEnds(p)
        /\ UNCHANGED <<log, refused>>
    BY DEF CompleteFailedRaises, kafka
  <1>2. CASE UNCHANGED table
    BY <1>1, <1>2, EndKeepsRelations DEF table
  <1>3. CASE CompletedRow(p, "failed")
    <2>1. /\ e \in Events
          /\ status[e] = "publishing" /\ status'[e] = "failed"
          /\ \A f \in Events \ {e} : status'[f] = status[f] /\ locked_by'[f] = locked_by[f]
          /\ due' = due
          /\ \A q \in Publishers \ {p} : e \notin batch[q]
      BY <1>1, <1>3 DEF CompletedRow, Completable, Support, InHand, ClaimsAreExclusive
    <2>2. ClaimsAreExclusive'
      BY <1>1 DEF ClaimsAreExclusive, ProcessEnds
    <2>3. HeldRowsAreLocked'
      BY <1>1, <2>1 DEF HeldRowsAreLocked, Holding, ProcessEnds
    <2>4. PublishedHasLeftTheProducer'
      BY <1>1, <2>1 DEF PublishedHasLeftTheProducer
    <2>5. Support'
      BY <1>1, <2>1 DEF Support, InHand, Claimable, ProcessEnds
    <2>6. QED
      BY <2>2, <2>3, <2>4, <2>5 DEF Relations
  <1>4. QED
    BY <1>2, <1>3 DEF CompleteFailedRaises

\* complete_outbox_event misses only the row of a completion that committed,
\* and then it is the failure that is being recorded: the worker ends.
LEMMA MissKeepsRelations ==
    ASSUME IInv, TypeOK', NEW p \in Publishers, CompleteNotClaimed(p)
    PROVE  Relations'
  <1> USE DEF IInv
  <1>1. pc[p] # "completing"
    BY DEF CompleteNotClaimed, Completable, HeldRowsAreLocked, Holding, Support, InHand
  <1>2. ProcessEnds(p) /\ UNCHANGED <<status, locked_by, due, log, refused>>
    BY <1>1 DEF CompleteNotClaimed, table, kafka
  <1>3. QED
    BY <1>2, EndKeepsRelations

LEMMA RestartKeepsRelations ==
    ASSUME IInv, TypeOK', NEW p \in Publishers, Restart(p)
    PROVE  Relations'
  <1> USE DEF IInv, TypeOK
  <1>1. /\ pc[p] = "dead" /\ pc' = [pc EXCEPT ![p] = "polling"]
        /\ UNCHANGED <<status, locked_by, due, batch, current, queued, log, refused>>
    BY DEF Restart, table, kafka
  <1>2. ClaimsAreExclusive' /\ PublishedHasLeftTheProducer'
    BY <1>1 DEF ClaimsAreExclusive, PublishedHasLeftTheProducer
  <1>3. HeldRowsAreLocked' /\ Support'
    BY <1>1 DEF HeldRowsAreLocked, Holding, Support, InHand
  <1>4. QED
    BY <1>2, <1>3 DEF Relations

\* Every step of the system, and stuttering, preserve the inductive invariant.
LEMMA NextIInv ==
    ASSUME IInv, [Next]_vars
    PROVE  IInv'
  <1>1. CASE UNCHANGED vars
    BY <1>1 DEF vars, table, worker, kafka, IInv, TypeOK, ClaimsAreExclusive, HeldRowsAreLocked,
                Holding, PublishedHasLeftTheProducer, Support, InHand
  <1>2. CASE Next
    <2>1. TypeOK'
      BY <1>2, NextTypeOK DEF IInv
    <2>2. ASSUME NEW e \in Events, Enqueue(e) \/ BackoffElapsed(e)  PROVE Relations'
      BY <2>1, <2>2, ArrivalKeepsRelations
    <2>3. ASSUME NEW p \in Publishers, WorkStep(p)  PROVE Relations'
      BY <2>1, <2>3, ClaimSelectKeepsRelations, ClaimCommitKeepsRelations, PublishKeepsRelations,
         NextEventKeepsRelations, MissKeepsRelations
      DEF WorkStep
    <2>4. ASSUME NEW p \in Publishers, FailureStep(p)  PROVE Relations'
      <3>1. CASE Crash(p) \/ ClaimFails(p)
        <4>1. ProcessEnds(p) /\ UNCHANGED <<status, locked_by, due, log, refused>>
          BY <3>1 DEF Crash, ClaimFails, table, kafka
        <4>2. QED
          BY <2>1, <4>1, EndKeepsRelations
      <3>2. QED
        BY <2>1, <2>4, <3>1, ClaimAckLostKeepsRelations, PublishKeepsRelations,
           RaisedCompletionKeepsRelations, RaisedFailureKeepsRelations
        DEF FailureStep
    <2>5. ASSUME NEW p \in Publishers, NEW e \in Events, BrokerStep(p, e)
          PROVE  Relations'
      BY <2>1, <2>5, SettleKeepsRelations
    <2>6. Relations'
      BY <1>2, <2>1, <2>2, <2>3, <2>4, <2>5, RestartKeepsRelations DEF Next, PublisherStep
    <2>7. QED
      BY <2>1, <2>6 DEF IInv, Relations
  <1>3. QED
    BY <1>1, <1>2

-----------------------------------------------------------------------------
(* Theorems *)

\* The inductive invariant holds in every reachable state.
THEOREM InductiveInvariant == Spec => []IInv
  <1>1. QED
    BY InitIInv, NextIInv, PTL DEF Spec

\* Every variable keeps its type, and failures stay within their budget.
THEOREM TypeCorrect == Spec => []TypeOK
  <1>1. IInv => TypeOK
    BY DEF IInv
  <1>2. QED
    BY <1>1, InductiveInvariant, PTL

\* claim_outbox_events never gives one row to two publishers, even if they
\* share a worker name and their claims overlap.
THEOREM ExclusiveClaims == Spec => []ClaimsAreExclusive
  <1>1. IInv => ClaimsAreExclusive
    BY DEF IInv
  <1>2. QED
    BY <1>1, InductiveInvariant, PTL

\* What a publisher believes it holds is what the table says, except for a
\* completion whose acknowledgement was lost.
THEOREM HeldRowsLocked == Spec => []HeldRowsAreLocked
  <1>1. IInv => HeldRowsAreLocked
    BY DEF IInv
  <1>2. QED
    BY <1>1, InductiveInvariant, PTL

\* A row is recorded as published only after a copy has left the producer.
THEOREM PublishedHasLeft == Spec => []PublishedHasLeftTheProducer
  <1>1. IInv => PublishedHasLeftTheProducer
    BY DEF IInv
  <1>2. QED
    BY <1>1, InductiveInvariant, PTL

\* A step that changes the table touches no published row.
LEMMA NextKeepsPublished ==
    ASSUME IInv, [Next]_vars, NEW e \in Events, status[e] = "published"
    PROVE  status'[e] = "published"
  <1> USE DEF IInv, TypeOK
  <1>1. ASSUME NEW f \in Events, Enqueue(f)  PROVE status'[e] = "published"
    BY <1>1 DEF Enqueue
  <1>2. ASSUME NEW p \in Publishers, pc[p] = "claiming", MarkPublishing(p)
        PROVE  status'[e] = "published"
    BY <1>2, MarkPublishingRows DEF Claimable
  <1>3. ASSUME NEW p \in Publishers, Completable(p), NEW s, CompletedRow(p, s)
        PROVE  status'[e] = "published"
    BY <1>3 DEF Completable, CompletedRow
  <1>4. CASE UNCHANGED status
    BY <1>4
  <1>5. QED
    <2>1. ASSUME NEW p \in Publishers, WorkStep(p)  PROVE status'[e] = "published"
      BY <2>1, <1>2, <1>3, <1>4
      DEF WorkStep, ClaimSelect, ClaimCommit, Produce, ProduceRaises, FlushReturns,
          CompletePublished, CompleteFailed, CompleteNotClaimed, table
    <2>2. ASSUME NEW p \in Publishers, FailureStep(p)  PROVE status'[e] = "published"
      BY <2>2, <1>2, <1>3, <1>4
      DEF FailureStep, Crash, ClaimFails, ClaimAckLost, FlushTimesOut,
          CompletePublishedRaises, CompleteFailedRaises, table
    <2>3. ASSUME NEW p \in Publishers, PublisherStep(p)  PROVE status'[e] = "published"
      BY <2>1, <2>2, <2>3, <1>4
      DEF PublisherStep, Restart, BrokerStep, Deliver, Resent, DeliveryRefused, table
    <2>4. CASE UNCHANGED vars
      BY <2>4, <1>4 DEF vars, table
    <2>5. QED
      BY <1>1, <1>4, <2>3, <2>4 DEF Next, BackoffElapsed

\* 'published' is final.
THEOREM PublishedFinal == Spec => PublishedIsFinal
  <1>1. ASSUME IInv, [Next]_vars
        PROVE  [\A e \in Events : status[e] = "published" => status'[e] = "published"]_vars
    BY <1>1, NextKeepsPublished
  <1>2. QED
    BY <1>1, InductiveInvariant, PTL DEF Spec, PublishedIsFinal

-----------------------------------------------------------------------------
(* Refinement: Outbox implements AtLeastOnce. *)

\* What the mapping needs beside IInv: only accepted rows are in a producer's
\* queue.
MappingInv ==
    \A p \in Publishers, e \in Events : queued[p][e] > 0 => status[e] # "absent"

\* How each kind of step looks to the table's status column.
LEMMA StatusSteps ==
    ASSUME IInv, [Next]_vars
    PROVE  \/ UNCHANGED status
           \/ \E e \in Events : Enqueue(e)
           \/ \E p \in Publishers : pc[p] = "claiming" /\ MarkPublishing(p) /\ UNCHANGED kafka
           \/ \E p \in Publishers, s \in {"published", "failed"} :
                 /\ Completable(p) /\ CompletedRow(p, s) /\ UNCHANGED kafka
                 /\ s = "published" => pc[p] = "completing"
                 /\ InHand(p)
  <1>1. ASSUME NEW p \in Publishers, WorkStep(p)
        PROVE  \/ UNCHANGED status
               \/ pc[p] = "claiming" /\ MarkPublishing(p) /\ UNCHANGED kafka
               \/ \E s \in {"published", "failed"} :
                     /\ Completable(p) /\ CompletedRow(p, s) /\ UNCHANGED kafka
                     /\ s = "published" => pc[p] = "completing"
                     /\ InHand(p)
    BY <1>1 DEF WorkStep, ClaimSelect, ClaimCommit, Produce, ProduceRaises, FlushReturns,
                CompletePublished, CompleteFailed, CompleteNotClaimed, table, InHand
  <1>2. ASSUME NEW p \in Publishers, FailureStep(p)
        PROVE  \/ UNCHANGED status
               \/ pc[p] = "claiming" /\ MarkPublishing(p) /\ UNCHANGED kafka
               \/ \E s \in {"published", "failed"} :
                     /\ Completable(p) /\ CompletedRow(p, s) /\ UNCHANGED kafka
                     /\ s = "published" => pc[p] = "completing"
                     /\ InHand(p)
    BY <1>2 DEF FailureStep, Crash, ClaimFails, ClaimAckLost, FlushTimesOut,
                CompletePublishedRaises, CompleteFailedRaises, table, InHand
  <1>3. QED
    BY <1>1, <1>2
    DEF Next, PublisherStep, Restart, BrokerStep, Deliver, Resent, DeliveryRefused,
        BackoffElapsed, vars, table

\* How each step looks to the producer queues and the Kafka log.
LEMMA QueueSteps ==
    ASSUME IInv, [Next]_vars
    PROVE  \/ \E p \in Publishers, e \in Events : BrokerStep(p, e)
           \/ \E p \in Publishers, e \in Events : Produce(p, e) /\ UNCHANGED kafka
           \/ /\ UNCHANGED kafka
              /\ \A p \in Publishers, e \in Events :
                    queued'[p][e] = queued[p][e] \/ queued'[p][e] = 0
  <1> DEFINE Same == /\ UNCHANGED kafka
                     /\ \A p \in Publishers, e \in Events :
                           queued'[p][e] = queued[p][e] \/ queued'[p][e] = 0
  <1>1. ASSUME NEW p \in Publishers, ProcessEnds(p), UNCHANGED kafka
        PROVE  Same
    BY <1>1 DEF ProcessEnds, IInv, TypeOK
  <1>2. ASSUME UNCHANGED <<queued, kafka>>
        PROVE  Same
    BY <1>2
  <1> HIDE DEF Same
  <1>3. ASSUME NEW p \in Publishers, WorkStep(p)
        PROVE  Same \/ (\E e \in Events : Produce(p, e))
    BY <1>1, <1>2, <1>3
    DEF WorkStep, ClaimSelect, ClaimCommit, ProduceRaises, FlushReturns,
        CompletePublished, CompleteFailed, CompleteNotClaimed
  <1>4. ASSUME NEW p \in Publishers, FailureStep(p)
        PROVE  Same
    BY <1>1, <1>2, <1>4
    DEF FailureStep, Crash, ClaimFails, ClaimAckLost, FlushTimesOut,
        CompletePublishedRaises, CompleteFailedRaises
  <1>5. ASSUME UNCHANGED vars
        PROVE  Same
    BY <1>2, <1>5 DEF vars
  <1>7. \A p \in Publishers, e \in Events : Produce(p, e) => UNCHANGED kafka
    BY DEF Produce
  <1>8. \/ Same
        \/ \E p \in Publishers, e \in Events :
              BrokerStep(p, e) \/ Produce(p, e)
    <2>1. ASSUME NEW e \in Events, Enqueue(e) \/ BackoffElapsed(e)
          PROVE  Same
      BY <2>1, <1>2 DEF Enqueue, BackoffElapsed
    <2>2. ASSUME NEW p \in Publishers, Restart(p)
          PROVE  Same
      BY <2>2, <1>2 DEF Restart
    <2>3. QED
      BY <1>3, <1>4, <1>5, <2>1, <2>2 DEF Next, PublisherStep
  <1>9. QED
    BY <1>7, <1>8 DEF Same

LEMMA NextMappingInv ==
    ASSUME IInv, MappingInv, [Next]_vars
    PROVE  MappingInv'
  <1> USE DEF IInv, TypeOK
  <1>1. \A e \in Events : status[e] # "absent" => status'[e] # "absent"
    <2>1. ASSUME NEW p \in Publishers, pc[p] = "claiming", MarkPublishing(p)
          PROVE  \A e \in Events : status[e] # "absent" => status'[e] # "absent"
      BY <2>1, MarkPublishingRows
    <2>2. QED
      BY <2>1, StatusSteps DEF Enqueue, CompletedRow
  <1>2. ASSUME NEW p \in Publishers, NEW e \in Events, queued'[p][e] > 0
        PROVE  status[e] # "absent"
    <2>1. CASE \E q \in Publishers, f \in Events : BrokerStep(q, f)
      <3>1. PICK q \in Publishers, f \in Events :
               /\ queued[q][f] > 0
               /\ queued' \in {queued, [queued EXCEPT ![q][f] = @ - 1]}
        BY <2>1 DEF BrokerStep, Deliver, Resent, DeliveryRefused
      <3>2. queued[p][e] > 0
        BY <1>2, <3>1
      <3>3. QED
        BY <3>2 DEF MappingInv
    <2>2. CASE \E q \in Publishers, f \in Events : Produce(q, f)
      <3>1. PICK q \in Publishers, f \in Events : Produce(q, f)
        BY <2>2
      <3>2. status[f] # "absent"
        BY <3>1 DEF Produce, HeldRowsAreLocked, Holding
      <3>3. CASE e = f
        BY <3>2, <3>3
      <3>4. CASE e # f
        <4>1. queued'[p][e] = queued[p][e]
          BY <3>1, <3>4 DEF Produce
        <4>2. QED
          BY <1>2, <4>1 DEF MappingInv
      <3>5. QED
        BY <3>3, <3>4
    <2>3. QED
      BY <1>2, <2>1, <2>2, QueueSteps DEF MappingInv
  <1>3. QED
    BY <1>1, <1>2 DEF MappingInv

\* Every step of Outbox is a step of AtLeastOnce, or changes nothing it sees.
LEMMA StepRefines ==
    ASSUME IInv, MappingInv, [Next]_vars
    PROVE  [Promise!Next]_(Promise!vars)
  <1> USE DEF IInv, TypeOK
  <1> DEFINE Acc == {e \in Events : status[e] # "absent"}
             Conf == {e \in Events : status[e] = "published"}
             Ref == {e \in Events : refused[e] > 0}
  <1>1. ASSUME UNCHANGED <<status, kafka>>
        PROVE  UNCHANGED Promise!vars
    BY <1>1 DEF Promise!vars, kafka
  <1>2. ASSUME NEW p \in Publishers, NEW e \in Events, Deliver(p, e)
        PROVE  Promise!Append(e)
    BY <1>2 DEF Deliver, table, MappingInv, Promise!Append
  <1>2b. ASSUME NEW p \in Publishers, NEW e \in Events, Resent(p, e)
         PROVE  Promise!Append(e)
    BY <1>2b DEF Resent, table, MappingInv, Promise!Append
  <1>2a. ASSUME NEW p \in Publishers, NEW e \in Events, DeliveryRefused(p, e)
         PROVE  Promise!Refuse(e)
    <2>1. e \in Acc /\ UNCHANGED <<status, log>>
      BY <1>2a DEF DeliveryRefused, table, MappingInv
    <2>2. Ref' = Ref \cup {e}
      BY <1>2a DEF DeliveryRefused
    <2>3. QED
      BY <2>1, <2>2 DEF Promise!Refuse
  <1>3. ASSUME NEW e \in Events, Enqueue(e)
        PROVE  Promise!Accept(e)
    <2>1. /\ status[e] = "absent" /\ status' = [status EXCEPT ![e] = "pending"]
          /\ log' = log /\ refused' = refused
      BY <1>3 DEF Enqueue, kafka
    <2>2. e \notin Acc /\ Acc' = Acc \cup {e} /\ Conf' = Conf
      BY <2>1
    <2>3. QED
      BY <2>1, <2>2 DEF Promise!Accept
  <1>4. ASSUME NEW p \in Publishers, pc[p] = "claiming", MarkPublishing(p), UNCHANGED kafka
        PROVE  UNCHANGED Promise!vars
    <2>1. /\ \A e \in Events : status[e] = "absent" <=> status'[e] = "absent"
          /\ \A e \in Events : status[e] = "published" <=> status'[e] = "published"
      BY <1>4, MarkPublishingRows DEF Claimable
    <2>2. Acc' = Acc /\ Conf' = Conf /\ log' = log /\ Ref' = Ref
      BY <1>4, <2>1 DEF kafka
    <2>3. QED
      BY <2>2 DEF Promise!vars
  <1>5. ASSUME NEW p \in Publishers, NEW s \in {"published", "failed"},
               Completable(p), CompletedRow(p, s), UNCHANGED kafka,
               s = "published" => pc[p] = "completing", InHand(p)
        PROVE  (\E e \in Events : Promise!Confirm(e)) \/ UNCHANGED Promise!vars
    <2>0. PICK e \in Events : e = current[p]
      BY <1>5 DEF Support
    <2>1. /\ e \in Events /\ status[e] = "publishing"
          /\ status' = [status EXCEPT ![e] = s]
          /\ log' = log /\ refused' = refused
      BY <1>5, <2>0 DEF Completable, CompletedRow, kafka
    <2>2. CASE s = "published"
      <3>1. log[e] > 0 \/ e \in Ref
        BY <1>5, <2>0, <2>1, <2>2 DEF Support
      <3>2. e \in Acc \ Conf /\ Acc' = Acc /\ Conf' = Conf \cup {e}
        BY <2>1, <2>2
      <3>3. QED
        BY <2>1, <3>1, <3>2 DEF Promise!Confirm
    <2>3. CASE s = "failed"
      <3>1. Acc' = Acc /\ Conf' = Conf
        BY <2>1, <2>3
      <3>2. QED
        BY <2>1, <3>1 DEF Promise!vars
    <2>4. QED
      BY <2>2, <2>3
  <1>6. CASE UNCHANGED status
    <2>1. \/ UNCHANGED kafka
          \/ \E p \in Publishers, e \in Events : BrokerStep(p, e)
      BY QueueSteps
    <2>2. QED
      BY <1>1, <1>2, <1>2a, <1>2b, <1>6, <2>1 DEF BrokerStep, Promise!Next
  <1>8. CASE \E e \in Events : Enqueue(e)
    BY <1>3, <1>8 DEF Promise!Next
  <1>9. CASE \E p \in Publishers : pc[p] = "claiming" /\ MarkPublishing(p) /\ UNCHANGED kafka
    BY <1>4, <1>9
  <1>10. CASE \E p \in Publishers, s \in {"published", "failed"} :
                 /\ Completable(p) /\ CompletedRow(p, s) /\ UNCHANGED kafka
                 /\ s = "published" => pc[p] = "completing"
                 /\ InHand(p)
    <2>1. PICK p \in Publishers, s \in {"published", "failed"} :
                 /\ Completable(p) /\ CompletedRow(p, s) /\ UNCHANGED kafka
                 /\ s = "published" => pc[p] = "completing"
                 /\ InHand(p)
      BY <1>10
    <2>2. (\E e \in Events : Promise!Confirm(e)) \/ UNCHANGED Promise!vars
      BY <1>5, <2>1
    <2>3. QED
      BY <2>2 DEF Promise!Next
  <1>11. QED
    BY <1>6, <1>8, <1>9, <1>10, StatusSteps

\* The outbox delivers at least once, as AtLeastOnce states it, whatever
\* crashes, timeouts, refused messages and database errors happen.
THEOREM OutboxDeliversAtLeastOnce == Spec => DeliversAtLeastOnce
  <1>1. Init => MappingInv /\ Promise!Init
    BY DEF Init, MappingInv, Promise!Init
  <1>2. ASSUME IInv, MappingInv, [Next]_vars
        PROVE  MappingInv'
    BY <1>2, NextMappingInv
  <1>3. ASSUME IInv, MappingInv, [Next]_vars
        PROVE  [Promise!Next]_(Promise!vars)
    BY <1>3, StepRefines
  <1>4. QED
    BY <1>1, <1>2, <1>3, InductiveInvariant, PTL DEF Spec, DeliversAtLeastOnce, Promise!Spec

-----------------------------------------------------------------------------
(* Rows left behind: a process that ends leaves at most its batch. *)

\* A row stops being held without leaving 'publishing' only when its holder ends.
LEMMA EndOrphans ==
    ASSUME IInv, NEW p \in Publishers, ProcessEnds(p),
           \A e \in Events \ batch[p] : status'[e] = status[e]
    PROVE  Orphans' \subseteq Orphans \cup batch[p]
  <1> USE DEF IInv, TypeOK
  <1>1. SUFFICES ASSUME NEW e \in Events, status'[e] = "publishing", e \notin batch[p],
                        \A q \in Publishers : ~(Holding(q)' /\ e \in batch'[q])
                 PROVE  e \in Orphans
    BY DEF Orphans, Holding
  <1>2. \A q \in Publishers \ {p} : pc'[q] = pc[q] /\ batch'[q] = batch[q]
    BY DEF ProcessEnds
  <1>3. \A q \in Publishers : ~(Holding(q) /\ e \in batch[q])
    BY <1>1, <1>2 DEF Holding
  <1>4. QED
    BY <1>1, <1>3 DEF Orphans

\* Steps that only touch rows nobody holds, and leave who holds what as it is.
LEMMA SameHolders ==
    ASSUME IInv, batch' = batch, \A q \in Publishers : Holding(q) => Holding(q)',
           \A e \in Events : status'[e] = "publishing" => status[e] = "publishing"
    PROVE  Orphans' \subseteq Orphans
    BY DEF Orphans

\* A row that is completed is 'publishing' no longer, and the rest of its batch
\* stays in the hands of its publisher.
LEMMA CompletionOrphans ==
    ASSUME IInv, NEW p \in Publishers, NEW s \in {"published", "failed"},
           CompletedRow(p, s), NextEvent(p), InHand(p)
    PROVE  Orphans' \subseteq Orphans
  <1> USE DEF IInv, TypeOK
  <1>1. PICK c \in Events : c = current[p] /\ c \in batch[p]
    BY DEF Support
  <1>2. SUFFICES ASSUME NEW e \in Events, status'[e] = "publishing",
                        \A q \in Publishers : ~(Holding(q)' /\ e \in batch'[q])
                 PROVE  e \in Orphans
    BY DEF Orphans, Holding
  <1>3. e # c /\ status[e] = "publishing"
    BY <1>1, <1>2 DEF CompletedRow
  <1>4. \A q \in Publishers \ {p} : pc'[q] = pc[q] /\ batch'[q] = batch[q]
    BY DEF NextEvent
  <1>5. e \notin batch[p]
    <2>1. SUFFICES ASSUME e \in batch[p] PROVE FALSE
      OBVIOUS
    <2>2. e \in batch'[p] /\ pc'[p] = "next"
      BY <1>1, <1>3, <2>1 DEF NextEvent
    <2>3. QED
      BY <1>2, <2>2 DEF Holding
  <1>6. \A q \in Publishers : ~(Holding(q) /\ e \in batch[q])
    BY <1>2, <1>4, <1>5 DEF Holding
  <1>7. QED
    BY <1>3, <1>6 DEF Orphans

\* What the steps of a publisher leave behind.
LEMMA WorkOrphans ==
    ASSUME IInv, NEW p \in Publishers, WorkStep(p)
    PROVE  \/ Orphans' \subseteq Orphans /\ deaths' = deaths
           \/ /\ Orphans' \subseteq Orphans \cup batch[p]
              /\ deaths' = deaths + 1 /\ ProcessEnds(p)
  <1> USE DEF IInv, TypeOK
  <1>1. CASE ClaimSelect(p)
    <2>1. /\ status' = status /\ deaths' = deaths
          /\ \A q \in Publishers : q # p => pc'[q] = pc[q] /\ batch'[q] = batch[q]
          /\ pc[p] = "polling"
      BY <1>1 DEF ClaimSelect, table
    <2>2. QED
      BY <2>1 DEF Orphans, Holding
  <1>2. CASE ClaimCommit(p)
    <2>1. /\ pc[p] = "claiming" /\ MarkPublishing(p) /\ batch' = batch /\ deaths' = deaths
          /\ pc' = [pc EXCEPT ![p] = "next"]
      BY <1>2 DEF ClaimCommit
    <2>2. SUFFICES ASSUME NEW e \in Events, status'[e] = "publishing",
                          \A q \in Publishers : ~(Holding(q)' /\ e \in batch'[q])
                   PROVE  e \in Orphans
      BY <2>1 DEF Orphans, Holding
    <2>3. e \notin batch[p]
      BY <2>1, <2>2 DEF Holding
    <2>4. status[e] = "publishing"
      BY <2>1, <2>2, <2>3, MarkPublishingRows
    <2>5. \A q \in Publishers : ~(Holding(q) /\ e \in batch[q])
      BY <2>1, <2>2, <2>3 DEF Holding
    <2>6. QED
      BY <2>4, <2>5 DEF Orphans
  <1>3. ASSUME NEW e \in Events, Produce(p, e) \/ ProduceRaises(p, e)
        PROVE  Orphans' \subseteq Orphans /\ deaths' = deaths
    <2>1. /\ batch' = batch /\ status' = status /\ deaths' = deaths
          /\ \A q \in Publishers : Holding(q) => Holding(q)'
      BY <1>3 DEF Produce, ProduceRaises, Holding, table
    <2>2. QED
      BY <2>1, SameHolders
  <1>4. CASE FlushReturns(p)
    <2>1. /\ batch' = batch /\ status' = status /\ deaths' = deaths
          /\ \A q \in Publishers : Holding(q) => Holding(q)'
      BY <1>4 DEF FlushReturns, Holding, table
    <2>2. QED
      BY <2>1, SameHolders
  <1>5. CASE CompletePublished(p) \/ CompleteFailed(p)
    BY <1>5, CompletionOrphans DEF CompletePublished, CompleteFailed, InHand
  <1>6. CASE CompleteNotClaimed(p)
    <2>1. status' = status
      BY <1>6 DEF CompleteNotClaimed, table
    <2>2. CASE CompletionCaught(p) /\ UNCHANGED <<queued, deaths>>
      <3>1. /\ batch' = batch /\ deaths' = deaths
            /\ \A q \in Publishers : Holding(q) => Holding(q)'
        BY <2>2 DEF CompletionCaught, Holding
      <3>2. QED
        BY <2>1, <3>1, SameHolders
    <2>3. CASE ProcessEnds(p)
      <3>1. deaths' = deaths + 1
        BY <2>3 DEF ProcessEnds
      <3>2. QED
        BY <2>1, <2>3, <3>1, EndOrphans
    <2>4. QED
      BY <1>6, <2>2, <2>3 DEF CompleteNotClaimed
  <1>7. QED
    BY <1>1, <1>2, <1>3, <1>4, <1>5, <1>6 DEF WorkStep

\* What the failures of a publisher leave behind.
LEMMA FailureOrphans ==
    ASSUME IInv, NEW p \in Publishers, FailureStep(p)
    PROVE  \/ Orphans' \subseteq Orphans /\ deaths' = deaths
           \/ /\ Orphans' \subseteq Orphans \cup batch[p]
              /\ deaths' = deaths + 1 /\ ProcessEnds(p)
  <1> USE DEF IInv, TypeOK
  <1>1. ASSUME ProcessEnds(p), \A e \in Events \ batch[p] : status'[e] = status[e]
        PROVE  /\ Orphans' \subseteq Orphans \cup batch[p]
               /\ deaths' = deaths + 1
    BY <1>1, EndOrphans DEF ProcessEnds
  <1>2. CASE Crash(p) \/ ClaimFails(p)
    BY <1>1, <1>2 DEF Crash, ClaimFails, table
  <1>3. CASE ClaimAckLost(p)
    <2>1. pc[p] = "claiming" /\ MarkPublishing(p) /\ ProcessEnds(p)
      BY <1>3 DEF ClaimAckLost
    <2>2. \A e \in Events \ batch[p] : status'[e] = status[e]
      BY <2>1, MarkPublishingRows
    <2>3. QED
      BY <1>1, <2>1, <2>2
  <1>4. CASE FlushTimesOut(p)
    <2>1. /\ batch' = batch /\ status' = status /\ deaths' = deaths
          /\ \A q \in Publishers : Holding(q) => Holding(q)'
      BY <1>4 DEF FlushTimesOut, Holding, table
    <2>2. QED
      BY <2>1, SameHolders
  <1>5. CASE CompletePublishedRaises(p)
    <2>1. /\ batch' = batch /\ deaths' = deaths
          /\ \A q \in Publishers : Holding(q) => Holding(q)'
      BY <1>5 DEF CompletePublishedRaises, CompletionCaught, Holding
    <2>2. \A e \in Events : status'[e] = "publishing" => status[e] = "publishing"
      BY <1>5 DEF CompletePublishedRaises, CompletedRow, table
    <2>3. QED
      BY <2>1, <2>2, SameHolders
  <1>6. CASE CompleteFailedRaises(p)
    <2>1. ProcessEnds(p) /\ current[p] \in batch[p]
      BY <1>6 DEF CompleteFailedRaises, Support, InHand
    <2>2. \A e \in Events \ batch[p] : status'[e] = status[e]
      BY <1>6, <2>1 DEF CompleteFailedRaises, CompletedRow, table
    <2>3. QED
      BY <1>1, <2>1, <2>2
  <1>7. QED
    BY <1>2, <1>3, <1>4, <1>5, <1>6 DEF FailureStep

\* No claim takes more than BatchSize rows, and a batch only shrinks after it.
LEMMA BatchesBounded ==
    ASSUME IInv, [Next]_vars, \A p \in Publishers : Cardinality(batch[p]) <= BatchSize,
           NEW p \in Publishers
    PROVE  Cardinality(batch'[p]) <= BatchSize
  <1> USE DEF IInv, TypeOK
  <1>1. BatchSize \in Nat /\ IsFiniteSet(Events)
    BY OutboxAssumption
  <1>2. CASE batch'[p] \subseteq batch[p]
    <2>1. IsFiniteSet(batch[p])
      BY <1>1, FS_Subset
    <2>2. Cardinality(batch'[p]) <= Cardinality(batch[p])
      BY <1>2, <2>1, FS_Subset
    <2>3. Cardinality(batch[p]) \in Nat /\ Cardinality(batch'[p]) \in Nat
      BY <1>2, <2>1, FS_Subset, FS_CardinalityType
    <2>4. QED
      BY <1>1, <2>2, <2>3
  <1>3. CASE ClaimSelect(p)
    <2>1. PICK S \in SUBSET {e \in due : Selectable(e)} : FirstInLine(S) /\ batch'[p] = S
      BY <1>3 DEF ClaimSelect
    <2>2. IsFiniteSet({e \in due : Selectable(e)})
      BY <1>1, FS_Subset
    <2>3. Cardinality({e \in due : Selectable(e)}) \in Nat
      BY <2>2, FS_CardinalityType
    <2>4. Cardinality(S) = Min({BatchSize, Cardinality({e \in due : Selectable(e)})})
      BY <2>1 DEF FirstInLine
    <2>5. QED
      BY <1>1, <2>1, <2>3, <2>4, MinIsLeast
  <1>4. ASSUME NEW q \in Publishers, ClaimSelect(q), q # p  PROVE batch'[p] = batch[p]
    BY <1>4 DEF ClaimSelect
  <1>5. ASSUME NEW q \in Publishers, ProcessEnds(q) \/ NextEvent(q) \/ batch' = batch
        PROVE  batch'[p] \subseteq batch[p]
    BY <1>5 DEF ProcessEnds, NextEvent
  <1>6. ASSUME NEW q \in Publishers, PublisherStep(q)
        PROVE  ClaimSelect(q) \/ ProcessEnds(q) \/ NextEvent(q) \/ batch' = batch
    BY <1>6
    DEF PublisherStep, WorkStep, FailureStep, ClaimCommit, Produce, ProduceRaises,
        FlushReturns, CompletePublished, CompleteFailed, CompleteNotClaimed,
        CompletionCaught, Crash, ClaimFails, ClaimAckLost, FlushTimesOut,
        CompletePublishedRaises, CompleteFailedRaises, Restart, BrokerStep, Deliver, Resent,
        DeliveryRefused, worker
  <1>7. CASE batch' = batch
    BY <1>2, <1>7
  <1>8. QED
    BY <1>2, <1>3, <1>4, <1>5, <1>6, <1>7
    DEF Next, Enqueue, BackoffElapsed, vars, worker

OrphanInv ==
    /\ \A p \in Publishers : Cardinality(batch[p]) <= BatchSize
    /\ OrphansComeFromDeaths

LEMMA InitOrphanInv == Init => OrphanInv
  <1> SUFFICES ASSUME Init PROVE OrphanInv
    OBVIOUS
  <1>1. Cardinality({}) = 0 /\ BatchSize \in Nat
    BY FS_EmptySet, OutboxAssumption
  <1>2. Orphans = {} /\ \A p \in Publishers : batch[p] = {}
    BY DEF Init, Orphans
  <1>3. BatchSize * deaths = 0
    BY <1>1 DEF Init
  <1>4. QED
    BY <1>1, <1>2, <1>3 DEF OrphanInv, OrphansComeFromDeaths

LEMMA NextOrphanInv ==
    ASSUME IInv, OrphanInv, [Next]_vars
    PROVE  OrphanInv'
  <1> USE DEF IInv, TypeOK
  <1>1. BatchSize \in Nat /\ IsFiniteSet(Events) /\ deaths \in Nat
    BY OutboxAssumption
  <1>2. \A p \in Publishers : Cardinality(batch'[p]) <= BatchSize
    BY BatchesBounded DEF OrphanInv
  <1>3. IsFiniteSet(Orphans) /\ Cardinality(Orphans) \in Nat
    BY <1>1, FS_Subset, FS_CardinalityType DEF Orphans
  <1>4. CASE Orphans' \subseteq Orphans /\ deaths' = deaths
    <2>1. Cardinality(Orphans') <= Cardinality(Orphans) /\ Cardinality(Orphans') \in Nat
      BY <1>3, <1>4, FS_Subset, FS_CardinalityType
    <2>2. BatchSize * deaths \in Nat
      BY <1>1
    <2>3. OrphansComeFromDeaths'
      BY <1>3, <1>4, <2>1, <2>2 DEF OrphanInv, OrphansComeFromDeaths
    <2>4. QED
      BY <1>2, <2>3 DEF OrphanInv
  <1>5. ASSUME NEW p \in Publishers, Orphans' \subseteq Orphans \cup batch[p],
               deaths' = deaths + 1
        PROVE  OrphanInv'
    <2>1. IsFiniteSet(batch[p]) /\ Cardinality(batch[p]) \in Nat
      BY <1>1, FS_Subset, FS_CardinalityType
    <2>2. /\ Cardinality(Orphans') \in Nat
          /\ Cardinality(Orphans') <= Cardinality(Orphans) + Cardinality(batch[p])
      BY <1>3, <1>5, <2>1, UnionBound
    <2>3. Cardinality(batch[p]) <= BatchSize
      BY DEF OrphanInv
    <2>4. BatchSize * (deaths + 1) = BatchSize * deaths + BatchSize
      BY <1>1
    <2>5. BatchSize * deaths \in Nat
      BY <1>1
    <2>6. Cardinality(Orphans') <= BatchSize * deaths + BatchSize
      BY <1>1, <1>3, <2>1, <2>2, <2>3, <2>5 DEF OrphanInv, OrphansComeFromDeaths
    <2>7. OrphansComeFromDeaths'
      BY <1>5, <2>4, <2>6 DEF OrphansComeFromDeaths
    <2>8. QED
      BY <1>2, <2>7 DEF OrphanInv
  <1>6. ASSUME status' = status, batch' = batch, deaths' = deaths,
               \A q \in Publishers : Holding(q) => Holding(q)'
        PROVE  OrphanInv'
    BY <1>4, <1>6, SameHolders
  <1>7. ASSUME NEW e \in Events, Enqueue(e) \/ BackoffElapsed(e)
        PROVE  OrphanInv'
    <2>1. /\ batch' = batch /\ deaths' = deaths
          /\ \A q \in Publishers : Holding(q) => Holding(q)'
          /\ \A f \in Events : status'[f] = "publishing" => status[f] = "publishing"
      BY <1>7 DEF Enqueue, BackoffElapsed, worker, Holding
    <2>2. QED
      BY <1>4, <2>1, SameHolders
  <1>8. ASSUME NEW p \in Publishers, NEW e \in Events, BrokerStep(p, e)
        PROVE  OrphanInv'
    BY <1>6, <1>8 DEF BrokerStep, Deliver, Resent, DeliveryRefused, table, worker, Holding
  <1>9. ASSUME NEW p \in Publishers, Restart(p)
        PROVE  OrphanInv'
    BY <1>6, <1>9 DEF Restart, table, Holding
  <1>10. CASE UNCHANGED vars
    BY <1>6, <1>10 DEF vars, table, worker, Holding
  <1>11. ASSUME NEW p \in Publishers, WorkStep(p) \/ FailureStep(p)
         PROVE  OrphanInv'
    BY <1>4, <1>5, <1>11, WorkOrphans, FailureOrphans
  <1>12. QED
    BY <1>7, <1>8, <1>9, <1>10, <1>11 DEF Next, PublisherStep

\* A row can be stuck in 'publishing' only because a publisher process ended
\* with it in hand: at most a batch for each process that ended, however many
\* publishers there are, whatever else fails.
THEOREM LeftBehindByTheDead == Spec => []OrphansComeFromDeaths
  <1>1. OrphanInv => OrphansComeFromDeaths
    BY DEF OrphanInv
  <1>2. QED
    BY <1>1, InitOrphanInv, NextOrphanInv, InductiveInvariant, PTL DEF Spec

-----------------------------------------------------------------------------
(* Copies: every extra one is paid for by a failure. *)

LEMMA SumOverType ==
    ASSUME NEW S, IsFiniteSet(S), NEW f \in [S -> Nat]
    PROVE  SumOver(f, S) \in Nat
  BY SumType DEF SumOver

LEMMA SumOverMonotone ==
    ASSUME NEW S, IsFiniteSet(S), NEW f \in [S -> Nat], NEW g \in [S -> Nat],
           \A x \in S : f[x] <= g[x]
    PROVE  SumOver(f, S) <= SumOver(g, S)
  BY SumMonotone DEF SumOver

LEMMA SumOverPlusOne ==
    ASSUME NEW S, IsFiniteSet(S), NEW f \in [S -> Nat], NEW g \in [S -> Nat],
           NEW a \in S, g[a] = f[a] + 1, \A x \in S \ {a} : g[x] = f[x]
    PROVE  SumOver(g, S) = SumOver(f, S) + 1
  BY SumPlusOne DEF SumOver

LEMMA SumOverZeros ==
    ASSUME NEW S, IsFiniteSet(S), NEW f \in [S -> Nat], \A x \in S : f[x] = 0
    PROVE  SumOver(f, S) = 0
  BY SumOfZeros DEF SumOver

\* The copies of e in the producers' queues q.
InQueues(q, e) == SumOver([p \in Publishers |-> q[p][e]], Publishers)

Queues == [Publishers -> [Events -> Nat]]

LEMMA InQueuesFacts ==
    ASSUME NEW q \in Queues, NEW r \in Queues, NEW e \in Events
    PROVE  /\ InQueues(q, e) \in Nat
           /\ (\A p \in Publishers : r[p][e] <= q[p][e]) => InQueues(r, e) <= InQueues(q, e)
           /\ \A a \in Publishers :
                 r[a][e] = q[a][e] + 1 /\ (\A p \in Publishers \ {a} : r[p][e] = q[p][e])
                 => InQueues(r, e) = InQueues(q, e) + 1
  <1> DEFINE f == [p \in Publishers |-> q[p][e]]
             g == [p \in Publishers |-> r[p][e]]
  <1>1. f \in [Publishers -> Nat] /\ g \in [Publishers -> Nat] /\ IsFiniteSet(Publishers)
    BY OutboxAssumption DEF Queues
  <1>2. \A p \in Publishers : f[p] = q[p][e] /\ g[p] = r[p][e]
    OBVIOUS
  <1>3. InQueues(q, e) = SumOver(f, Publishers) /\ InQueues(r, e) = SumOver(g, Publishers)
    BY DEF InQueues
  <1> HIDE DEF f, g
  <1>4. InQueues(q, e) \in Nat
    BY <1>1, <1>3, SumOverType
  <1>5. ASSUME \A p \in Publishers : r[p][e] <= q[p][e]
        PROVE  InQueues(r, e) <= InQueues(q, e)
    BY <1>1, <1>2, <1>3, <1>5, SumOverMonotone
  <1>6. ASSUME NEW a \in Publishers, r[a][e] = q[a][e] + 1,
               \A p \in Publishers \ {a} : r[p][e] = q[p][e]
        PROVE  InQueues(r, e) = InQueues(q, e) + 1
    BY <1>1, <1>2, <1>3, <1>6, SumOverPlusOne
  <1>7. QED
    BY <1>4, <1>5, <1>6

LEMMA CopiesCounted ==
    ASSUME TypeOK, TypeOK', NEW e \in Events
    PROVE  /\ Copies(e) = log[e] + refused[e] + InQueues(queued, e)
           /\ Copies(e)' = log'[e] + refused'[e] + InQueues(queued', e)
           /\ queued \in Queues /\ queued' \in Queues
           /\ Copies(e) \in Nat /\ Copies(e)' \in Nat
  <1>1. queued \in Queues /\ queued' \in Queues
    BY DEF TypeOK, Queues
  <1>2. InQueues(queued, e) \in Nat /\ InQueues(queued', e) \in Nat
    BY <1>1, InQueuesFacts
  <1>3. /\ log[e] \in Nat /\ refused[e] \in Nat
        /\ log'[e] \in Nat /\ refused'[e] \in Nat
    BY DEF TypeOK
  <1>4. /\ Copies(e) = log[e] + refused[e] + InQueues(queued, e)
        /\ Copies(e)' = log'[e] + refused'[e] + InQueues(queued', e)
    BY DEF Copies, InQueues
  <1>5. QED
    BY <1>1, <1>2, <1>3, <1>4

\* Only produce() and a message sent again make a copy: a delivery moves one, and
\* the end of a process loses those in its queue.
LEMMA CopySteps ==
    ASSUME IInv, TypeOK', [Next]_vars
    PROVE  \/ \A e \in Events : Copies(e)' <= Copies(e)
           \/ \E p \in Publishers, f \in Events :
                 /\ Produce(p, f) \/ Resent(p, f)
                 /\ Copies(f)' <= Copies(f) + 1
                 /\ \A e \in Events \ {f} : Copies(e)' <= Copies(e)
  <1> USE DEF IInv
  <1>1. ASSUME NEW p \in Publishers, NEW f \in Events, Deliver(p, f) \/ DeliveryRefused(p, f),
               NEW e \in Events
        PROVE  Copies(e)' <= Copies(e)
    <2>1. /\ queued[p][f] > 0
          /\ queued' = [queued EXCEPT ![p][f] = @ - 1]
          /\ \/ log' = [log EXCEPT ![f] = @ + 1] /\ refused' = refused
             \/ refused' = [refused EXCEPT ![f] = @ + 1] /\ log' = log
      BY <1>1 DEF BrokerStep, Deliver, Resent, DeliveryRefused
    <2>2. log \in [Events -> Nat] /\ refused \in [Events -> Nat] /\ queued \in Queues
      BY DEF TypeOK, Queues
    <2>3. CASE e = f
      <3>1. /\ queued[p][e] = queued'[p][e] + 1
            /\ \A r \in Publishers \ {p} : queued[r][e] = queued'[r][e]
        BY <2>1, <2>2, <2>3 DEF Queues
      <3>2. InQueues(queued, e) = InQueues(queued', e) + 1
        BY <3>1, CopiesCounted, InQueuesFacts
      <3>3. log'[e] + refused'[e] = log[e] + refused[e] + 1
        BY <2>1, <2>2, <2>3
      <3>4. InQueues(queued', e) \in Nat /\ log[e] \in Nat /\ refused[e] \in Nat
            /\ log'[e] \in Nat /\ refused'[e] \in Nat
        BY CopiesCounted, InQueuesFacts DEF TypeOK
      <3>5. QED
        BY <3>2, <3>3, <3>4, CopiesCounted
    <2>4. CASE e # f
      <3>1. log'[e] = log[e] /\ refused'[e] = refused[e]
        BY <2>1, <2>2, <2>4
      <3>2. \A r \in Publishers : queued'[r][e] <= queued[r][e]
        BY <2>1, <2>2, <2>4 DEF Queues
      <3>3. InQueues(queued', e) <= InQueues(queued, e)
        BY <3>2, CopiesCounted, InQueuesFacts
      <3>4. InQueues(queued', e) \in Nat /\ InQueues(queued, e) \in Nat
            /\ log[e] \in Nat /\ refused[e] \in Nat
        BY CopiesCounted, InQueuesFacts DEF TypeOK
      <3>5. QED
        BY <3>1, <3>3, <3>4, CopiesCounted
    <2>5. QED
      BY <2>3, <2>4
  <1>2. ASSUME UNCHANGED kafka, NEW e \in Events,
               \A p \in Publishers : queued'[p][e] <= queued[p][e]
        PROVE  Copies(e)' <= Copies(e)
    <2>1. InQueues(queued', e) <= InQueues(queued, e)
      BY <1>2, CopiesCounted, InQueuesFacts
    <2>2. /\ InQueues(queued', e) \in Nat /\ InQueues(queued, e) \in Nat
          /\ log[e] \in Nat /\ refused[e] \in Nat
          /\ log'[e] = log[e] /\ refused'[e] = refused[e]
      BY <1>2, CopiesCounted, InQueuesFacts DEF TypeOK, kafka
    <2>3. QED
      BY <2>1, <2>2, CopiesCounted
  <1>3. ASSUME NEW p \in Publishers, NEW f \in Events, Produce(p, f), UNCHANGED kafka
        PROVE  /\ Copies(f)' <= Copies(f) + 1
               /\ \A e \in Events \ {f} : Copies(e)' <= Copies(e)
    <2>1. queued' = [queued EXCEPT ![p][f] = @ + 1] /\ queued \in Queues
      BY <1>3 DEF Produce, TypeOK, Queues
    <2>2. ASSUME NEW e \in Events \ {f} PROVE Copies(e)' <= Copies(e)
      <3>1. \A r \in Publishers : queued'[r][e] = queued[r][e] /\ queued[r][e] \in Nat
        BY <2>1 DEF Queues
      <3>2. \A r \in Publishers : queued'[r][e] <= queued[r][e]
        BY <3>1
      <3>3. QED
        BY <1>2, <1>3, <3>2
    <2>3. Copies(f)' <= Copies(f) + 1
      <3>1. /\ queued'[p][f] = queued[p][f] + 1
            /\ \A r \in Publishers \ {p} : queued'[r][f] = queued[r][f]
        BY <2>1 DEF Queues
      <3>2. InQueues(queued', f) = InQueues(queued, f) + 1
        BY <3>1, CopiesCounted, InQueuesFacts
      <3>3. /\ InQueues(queued, f) \in Nat /\ log[f] \in Nat /\ refused[f] \in Nat
            /\ log'[f] = log[f] /\ refused'[f] = refused[f]
        BY <1>3, CopiesCounted, InQueuesFacts DEF TypeOK, kafka
      <3>4. QED
        BY <3>2, <3>3, CopiesCounted
    <2>4. QED
      BY <2>2, <2>3
  <1>4. ASSUME UNCHANGED kafka,
               \A p \in Publishers, e \in Events :
                  queued'[p][e] = queued[p][e] \/ queued'[p][e] = 0
        PROVE  \A e \in Events : Copies(e)' <= Copies(e)
    <2>1. ASSUME NEW p \in Publishers, NEW e \in Events
          PROVE  queued'[p][e] <= queued[p][e]
      <3>1. queued[p][e] \in Nat
        BY DEF TypeOK
      <3>2. QED
        BY <1>4, <3>1
    <2>2. QED
      BY <1>2, <1>4, <2>1
  <1>5. ASSUME NEW p \in Publishers, NEW f \in Events, Resent(p, f)
        PROVE  /\ Copies(f)' <= Copies(f) + 1
               /\ \A e \in Events \ {f} : Copies(e)' <= Copies(e)
    <2>1. /\ log' = [log EXCEPT ![f] = @ + 1] /\ refused' = refused /\ queued' = queued
          /\ log \in [Events -> Nat] /\ refused \in [Events -> Nat]
      BY <1>5 DEF Resent, TypeOK
    <2>2. ASSUME NEW e \in Events
          PROVE  /\ InQueues(queued, e) \in Nat /\ log[e] \in Nat /\ refused[e] \in Nat
                 /\ log'[e] = (IF e = f THEN log[e] + 1 ELSE log[e])
                 /\ Copies(e) = log[e] + refused[e] + InQueues(queued, e)
                 /\ Copies(e)' = log'[e] + refused[e] + InQueues(queued, e)
      BY <2>1, CopiesCounted, InQueuesFacts
    <2>3. QED
      BY <2>2
  <1>6. \A p \in Publishers, f \in Events :
           BrokerStep(p, f) => Resent(p, f) \/ Deliver(p, f) \/ DeliveryRefused(p, f)
    BY DEF BrokerStep
  <1>7. QED
    BY <1>1, <1>3, <1>4, <1>5, <1>6, QueueSteps

\* p holds e and will record it as failed or produce it (again).
StillOpen(p, e) ==
    /\ Holding(p) /\ e \in batch[p]
    /\ pc[p] \in {"flushing", "completing"} => e # current[p]

\* A row that may be produced again although nothing fails from now on.
Owing(e) ==
    \/ status[e] \in {"absent", "pending", "failed"}
    \/ status[e] = "publishing" /\ \E p \in Publishers : StillOpen(p, e)

\* All copies of a row that is still owed are superfluous: one is to come.
Spent(e) == IF Owing(e) THEN Copies(e) ELSE Extra(e)

CopiesPaidFor == SumOver([e \in Events |-> Spent(e)], Events) <= faults

LEMMA SameOpen ==
    ASSUME NEW e \in Events, status'[e] = status[e],
           \A p \in Publishers : StillOpen(p, e)' => StillOpen(p, e)
    PROVE  Owing(e)' => Owing(e)
  BY DEF Owing

\* The end of a process opens nothing.
LEMMA EndOwes ==
    ASSUME TypeOK, NEW p \in Publishers, ProcessEnds(p), NEW e \in Events, NEW q \in Publishers
    PROVE  StillOpen(q, e)' => StillOpen(q, e)
  BY DEF ProcessEnds, StillOpen, Holding, TypeOK

\* A claim takes rows that are owed already.
LEMMA ClaimOwes ==
    ASSUME IInv, NEW p \in Publishers, pc[p] = "claiming", MarkPublishing(p), NEW e \in Events,
           \A q \in Publishers \ {p} : StillOpen(q, e)' => StillOpen(q, e),
           batch'[p] \subseteq batch[p]
    PROVE  Owing(e)' => Owing(e)
  <1>1. CASE e \in batch[p]
    <2>1. status[e] \in Claimable
      BY <1>1 DEF IInv, Support
    <2>2. QED
      BY <2>1 DEF Owing, Claimable
  <1>2. CASE e \notin batch[p]
    <2>1. status'[e] = status[e]
      BY <1>2, MarkPublishingRows DEF IInv, TypeOK
    <2>2. ~ StillOpen(p, e)'
      BY <1>2 DEF StillOpen
    <2>3. QED
      BY <2>1, <2>2, SameOpen
  <1>3. QED
    BY <1>1, <1>2

\* With the copy that produce() makes, a row is owed no more.
LEMMA ProduceOwes ==
    ASSUME IInv, NEW p \in Publishers, NEW f \in Events, Produce(p, f)
    PROVE  /\ Owing(f) /\ ~ Owing(f)'
           /\ \A e \in Events : Owing(e)' => Owing(e)
  <1>1. status[f] = "publishing" /\ status' = status /\ Holding(p) /\ f \in batch[p]
    BY DEF Produce, Holding, IInv, HeldRowsAreLocked, table
  <1>2. Owing(f)
    BY <1>1 DEF Owing, StillOpen, Produce
  <1>3. \A q \in Publishers, e \in Events : StillOpen(q, e)' => StillOpen(q, e)
    BY DEF Produce, StillOpen, Holding, IInv, TypeOK
  <1>4. ASSUME NEW q \in Publishers PROVE ~ StillOpen(q, f)'
    <2>1. CASE q = p
      BY <2>1 DEF Produce, StillOpen, IInv, TypeOK
    <2>2. CASE q # p
      BY <1>1, <2>2 DEF Produce, StillOpen, IInv, ClaimsAreExclusive
    <2>3. QED
      BY <2>1, <2>2
  <1>5. ~ Owing(f)'
    BY <1>1, <1>4 DEF Owing
  <1>6. QED
    BY <1>1, <1>2, <1>3, <1>5, SameOpen

\* Completing a row ends what was open, if a row is completed only once.
LEMMA CompletionOwes ==
    ASSUME IInv, NEW p \in Publishers, CompletePublished(p) \/ CompleteFailed(p),
           NEW e \in Events
    PROVE  Owing(e)' => Owing(e)
  <1>1. /\ current[p] \in batch[p] /\ current[p] \in Events
        /\ status[current[p]] = "publishing"
        /\ pc[p] \in {"completing", "failing"}
        /\ batch' = [batch EXCEPT ![p] = @ \ {current[p]}]
        /\ pc' = [pc EXCEPT ![p] = IF batch[p] = {current[p]} THEN "polling" ELSE "next"]
        /\ current' = [current EXCEPT ![p] = NoEvent]
    BY DEF CompletePublished, CompleteFailed, Completable, NextEvent, IInv, Support, TypeOK,
           InHand
  <1>2. \A q \in Publishers : StillOpen(q, e)' => StillOpen(q, e)
    <2>1. ASSUME NEW q \in Publishers \ {p} PROVE StillOpen(q, e)' => StillOpen(q, e)
      BY <1>1 DEF StillOpen, Holding, IInv, TypeOK
    <2>2. StillOpen(p, e)' => e \in batch[p] /\ e # current[p]
      BY <1>1 DEF StillOpen, IInv, TypeOK
    <2>3. QED
      BY <1>1, <2>1, <2>2 DEF StillOpen, Holding
  <1>3. CASE e # current[p]
    <2>1. status'[e] = status[e]
      BY <1>3 DEF CompletePublished, CompleteFailed, CompletedRow, IInv, TypeOK
    <2>2. QED
      BY <1>2, <2>1, SameOpen
  <1>4. CASE e = current[p]
    <2>1. CASE CompletePublished(p)
      <3>1. status'[e] = "published"
        BY <1>4, <2>1 DEF CompletePublished, CompletedRow, IInv, TypeOK
      <3>2. QED
        BY <3>1 DEF Owing
    <2>2. CASE CompleteFailed(p)
      <3>1. StillOpen(p, e)
        BY <1>1, <1>4, <2>2 DEF CompleteFailed, StillOpen, Holding
      <3>2. QED
        BY <1>1, <1>4, <3>1 DEF Owing
    <2>3. QED
      BY <2>1, <2>2
  <1>5. QED
    BY <1>3, <1>4

\* Without a failure, nothing becomes owed that was not.
LEMMA WorkOwes ==
    ASSUME IInv, NEW p \in Publishers, WorkStep(p), NEW e \in Events
    PROVE  Owing(e)' => Owing(e)
  <1>1. CASE ClaimSelect(p)
    BY <1>1, SameOpen DEF ClaimSelect, table, StillOpen, Holding, IInv, TypeOK
  <1>2. CASE ClaimCommit(p)
    <2>1. \A q \in Publishers \ {p} : StillOpen(q, e)' => StillOpen(q, e)
      BY <1>2 DEF ClaimCommit, StillOpen, Holding, IInv, TypeOK
    <2>2. QED
      BY <1>2, <2>1, ClaimOwes DEF ClaimCommit
  <1>3. ASSUME NEW f \in Events, Produce(p, f) PROVE Owing(e)' => Owing(e)
    BY <1>3, ProduceOwes
  <1>4. ASSUME NEW f \in Events, ProduceRaises(p, f) PROVE Owing(e)' => Owing(e)
    <2>1. status' = status /\ batch' = batch
      BY <1>4 DEF ProduceRaises, table
    <2>2. \A q \in Publishers : StillOpen(q, e)' => StillOpen(q, e)
      BY <1>4 DEF ProduceRaises, StillOpen, Holding, IInv, TypeOK
    <2>3. QED
      BY <2>1, <2>2, SameOpen
  <1>5. CASE FlushReturns(p)
    BY <1>5, SameOpen DEF FlushReturns, table, StillOpen, Holding, IInv, TypeOK
  <1>6. CASE CompletePublished(p) \/ CompleteFailed(p)
    BY <1>6, CompletionOwes
  <1>7. CASE CompleteNotClaimed(p)
    <2>1. status' = status
      BY <1>7 DEF CompleteNotClaimed, table
    <2>2. pc[p] = "failing" /\ ProcessEnds(p)
      BY <1>7 DEF CompleteNotClaimed, Completable, IInv, HeldRowsAreLocked, Support,
                  Holding, InHand
    <2>3. QED
      BY <2>1, <2>2, EndOwes, SameOpen DEF IInv
  <1>8. QED
    BY <1>1, <1>2, <1>3, <1>4, <1>5, <1>6, <1>7 DEF WorkStep

\* A failure makes at most one row owed again, and touches no copy then.
LEMMA FailureOwes ==
    ASSUME IInv, NEW p \in Publishers, FailureStep(p)
    PROVE  \/ \A e \in Events : Owing(e)' => Owing(e)
           \/ /\ faults' = faults + 1
              /\ \E a \in Events : \A e \in Events \ {a} : Owing(e)' => Owing(e)
  <1>1. CASE Crash(p) \/ ClaimFails(p)
    <2>1. status' = status /\ ProcessEnds(p)
      BY <1>1 DEF Crash, ClaimFails, table
    <2>2. QED
      BY <2>1, EndOwes, SameOpen DEF IInv
  <1>2. CASE ClaimAckLost(p)
    <2>1. /\ pc[p] = "claiming" /\ MarkPublishing(p) /\ ProcessEnds(p)
          /\ batch'[p] \subseteq batch[p]
      BY <1>2 DEF ClaimAckLost, ProcessEnds, IInv, TypeOK
    <2>2. QED
      BY <2>1, EndOwes, ClaimOwes DEF IInv
  <1>3. CASE FlushTimesOut(p) \/ CompletePublishedRaises(p)
    <2>1. /\ faults' = faults + 1
          /\ current[p] \in Events
          /\ \A e \in Events \ {current[p]} : status'[e] = status[e]
      BY <1>3 DEF FlushTimesOut, CompletePublishedRaises, Fault, CompletedRow, table, IInv,
                  TypeOK, Support, InHand
    <2>2. \A e \in Events \ {current[p]}, q \in Publishers :
             StillOpen(q, e)' => StillOpen(q, e)
      BY <1>3 DEF FlushTimesOut, CompletePublishedRaises, CompletionCaught, StillOpen, Holding,
                  IInv, TypeOK
    <2>3. QED
      BY <2>1, <2>2, SameOpen
  <1>4. CASE CompleteFailedRaises(p)
    <2>1. /\ ProcessEnds(p) /\ current[p] \in Events
          /\ \A e \in Events \ {current[p]} : status'[e] = status[e]
          /\ Owing(current[p])
      BY <1>4 DEF CompleteFailedRaises, Completable, CompletedRow, table, IInv, TypeOK,
                  Support, InHand, Owing, StillOpen, Holding
    <2>2. QED
      BY <2>1, EndOwes, SameOpen DEF IInv
  <1>5. QED
    BY <1>1, <1>2, <1>3, <1>4 DEF FailureStep

LEMMA OwingSteps ==
    ASSUME IInv, [Next]_vars
    PROVE  \/ \A e \in Events : Owing(e)' => Owing(e)
           \/ /\ faults' = faults + 1
              /\ \E a \in Events : \A e \in Events \ {a} : Owing(e)' => Owing(e)
  <1>1. ASSUME NEW f \in Events, Enqueue(f) \/ BackoffElapsed(f), NEW e \in Events
        PROVE  Owing(e)' => Owing(e)
    <2>1. worker' = worker /\ (status'[e] = status[e] \/ status[e] = "absent")
      BY <1>1 DEF Enqueue, BackoffElapsed, IInv, TypeOK
    <2>2. \A p \in Publishers : StillOpen(p, e)' => StillOpen(p, e)
      BY <2>1 DEF StillOpen, Holding, worker
    <2>3. QED
      BY <2>1, <2>2, SameOpen DEF Owing
  <1>2. ASSUME NEW p \in Publishers, Restart(p), NEW e \in Events
        PROVE  Owing(e)' => Owing(e)
    BY <1>2, SameOpen DEF Restart, table, StillOpen, Holding, IInv, TypeOK
  <1>3. ASSUME UNCHANGED <<table, worker>>, NEW e \in Events
        PROVE  Owing(e)' => Owing(e)
    BY <1>3, SameOpen DEF table, worker, StillOpen, Holding
  <1>4. ASSUME NEW p \in Publishers, NEW f \in Events, BrokerStep(p, f)
        PROVE  UNCHANGED <<table, worker>>
    BY <1>4 DEF BrokerStep, Deliver, Resent, DeliveryRefused
  <1>5. QED
    BY <1>1, <1>2, <1>3, <1>4, WorkOwes, FailureOwes DEF Next, PublisherStep, vars

LEMMA FaultsGrow ==
    ASSUME TypeOK, TypeOK', [Next]_vars
    PROVE  faults \in Nat /\ faults' \in Nat /\ faults <= faults'
  <1>1. faults \in Nat /\ faults' \in Nat
    BY OutboxAssumption DEF TypeOK
  <1>2. faults' = faults \/ faults' = faults + 1
    <2>1. ASSUME NEW p \in Publishers, WorkStep(p)
          PROVE  faults' = faults \/ faults' = faults + 1
      BY <2>1 DEF WorkStep, ClaimSelect, ClaimCommit, Produce, ProduceRaises, FlushReturns,
                  CompletePublished, CompleteFailed, CompleteNotClaimed, Fault, NoFault
    <2>2. ASSUME NEW p \in Publishers, FailureStep(p)
          PROVE  faults' = faults \/ faults' = faults + 1
      BY <2>2 DEF FailureStep, Crash, ClaimFails, ClaimAckLost, FlushTimesOut,
                  CompletePublishedRaises, CompleteFailedRaises, Fault
    <2>3. QED
      BY <2>1, <2>2 DEF Next, PublisherStep, Fault, Enqueue, BackoffElapsed, Restart, BrokerStep,
                        Deliver, Resent, DeliveryRefused, vars
  <1>3. QED
    BY <1>1, <1>2

\* What is spent on a row grows only with its copies or when it is owed again.
LEMMA SpentFacts ==
    ASSUME TypeOK, TypeOK', NEW e \in Events
    PROVE  /\ Spent(e) \in Nat /\ Spent(e)' \in Nat
           /\ Extra(e) \in Nat /\ Extra(e) <= Spent(e)
           /\ Copies(e)' <= Copies(e) => Spent(e)' <= Spent(e) + 1
           /\ Copies(e)' <= Copies(e) /\ (Owing(e)' => Owing(e)) => Spent(e)' <= Spent(e)
           /\ Copies(e)' <= Copies(e) + 1 /\ Owing(e) /\ ~ Owing(e)' => Spent(e)' <= Spent(e)
           /\ Copies(e)' <= Copies(e) + 1 /\ (Owing(e)' => Owing(e)) =>
                 Spent(e)' <= Spent(e) + 1
  <1>1. Copies(e) \in Nat /\ Copies(e)' \in Nat
    BY CopiesCounted
  <1>2. Extra(e) = (IF Copies(e) > 0 THEN Copies(e) - 1 ELSE 0)
    BY DEF Extra
  <1>3. Extra(e)' = (IF Copies(e)' > 0 THEN Copies(e)' - 1 ELSE 0)
    BY DEF Extra
  <1>4. Spent(e) = (IF Owing(e) THEN Copies(e) ELSE Extra(e))
    BY DEF Spent
  <1>5. Spent(e)' = (IF Owing(e)' THEN Copies(e)' ELSE Extra(e)')
    BY DEF Spent
  <1>6. QED
    BY <1>1, <1>2, <1>3, <1>4, <1>5

\* A step spends at most what it fails.
LEMMA SpentSteps ==
    ASSUME IInv, TypeOK', [Next]_vars
    PROVE  \/ \A e \in Events : Spent(e)' <= Spent(e)
           \/ /\ faults' = faults + 1
              /\ \E a \in Events : /\ Spent(a)' <= Spent(a) + 1
                                   /\ \A e \in Events \ {a} : Spent(e)' <= Spent(e)
  <1>1. CASE \A e \in Events : Copies(e)' <= Copies(e)
    BY <1>1, OwingSteps, SpentFacts DEF IInv
  <1>2. ASSUME NEW p \in Publishers, NEW f \in Events, Produce(p, f),
               Copies(f)' <= Copies(f) + 1,
               \A e \in Events \ {f} : Copies(e)' <= Copies(e)
        PROVE  \A e \in Events : Spent(e)' <= Spent(e)
    BY <1>2, ProduceOwes, SpentFacts DEF IInv
  <1>3. ASSUME NEW p \in Publishers, NEW f \in Events, Resent(p, f),
               Copies(f)' <= Copies(f) + 1,
               \A e \in Events \ {f} : Copies(e)' <= Copies(e)
        PROVE  /\ faults' = faults + 1
               /\ Spent(f)' <= Spent(f) + 1
               /\ \A e \in Events \ {f} : Spent(e)' <= Spent(e)
    <2>1. faults' = faults + 1 /\ \A e \in Events : Owing(e)' => Owing(e)
      BY <1>3, SameOpen DEF Resent, Fault, table, worker, StillOpen, Holding
    <2>2. QED
      BY <1>3, <2>1, SpentFacts DEF IInv
  <1>4. QED
    BY <1>1, <1>2, <1>3, CopySteps

LEMMA NextCopiesPaidFor ==
    ASSUME IInv, TypeOK', CopiesPaidFor, [Next]_vars
    PROVE  CopiesPaidFor'
  <1> DEFINE before == [e \in Events |-> Spent(e)]
             after == [e \in Events |-> Spent(e)']
             more(a) == [before EXCEPT ![a] = @ + 1]
  <1>1. before \in [Events -> Nat] /\ after \in [Events -> Nat] /\ IsFiniteSet(Events)
    BY SpentFacts, OutboxAssumption DEF IInv
  <1>2. /\ CopiesPaidFor <=> SumOver(before, Events) <= faults
        /\ CopiesPaidFor' <=> SumOver(after, Events) <= faults'
    BY DEF CopiesPaidFor
  <1>3. \A e \in Events : before[e] = Spent(e) /\ after[e] = Spent(e)'
    OBVIOUS
  <1> HIDE DEF before, after
  <1>4. SumOver(before, Events) \in Nat /\ SumOver(after, Events) \in Nat
    BY <1>1, SumOverType
  <1>5. faults \in Nat /\ faults' \in Nat /\ faults <= faults'
    BY FaultsGrow DEF IInv
  <1>6. CASE \A e \in Events : Spent(e)' <= Spent(e)
    <2>1. SumOver(after, Events) <= SumOver(before, Events)
      BY <1>1, <1>3, <1>6, SumOverMonotone
    <2>2. QED
      BY <1>2, <1>4, <1>5, <2>1
  <1>7. ASSUME faults' = faults + 1, NEW a \in Events, Spent(a)' <= Spent(a) + 1,
               \A e \in Events \ {a} : Spent(e)' <= Spent(e)
        PROVE  CopiesPaidFor'
    <2>1. /\ more(a) \in [Events -> Nat]
          /\ more(a)[a] = before[a] + 1
          /\ \A e \in Events \ {a} : more(a)[e] = before[e]
      BY <1>1
    <2> HIDE DEF more
    <2>2. SumOver(more(a), Events) = SumOver(before, Events) + 1
      BY <1>1, <2>1, SumOverPlusOne
    <2>3. \A e \in Events : after[e] <= more(a)[e]
      BY <1>3, <1>7, <2>1
    <2>4. SumOver(after, Events) <= SumOver(more(a), Events)
      BY <1>1, <2>1, <2>3, SumOverMonotone
    <2>5. QED
      BY <1>2, <1>4, <1>5, <1>7, <2>2, <2>4
  <1>8. QED
    BY <1>6, <1>7, SpentSteps

LEMMA InitCopiesPaidFor == Init => CopiesPaidFor
  <1> SUFFICES ASSUME Init PROVE CopiesPaidFor
    OBVIOUS
  <1> DEFINE none == [p \in Publishers |-> 0]
             nothing == [e \in Events |-> 0]
  <1>1. SumOver(none, Publishers) = 0 /\ SumOver(nothing, Events) = 0
    <2>1. /\ none \in [Publishers -> Nat] /\ nothing \in [Events -> Nat]
          /\ (\A p \in Publishers : none[p] = 0) /\ \A e \in Events : nothing[e] = 0
      OBVIOUS
    <2>2. QED
      BY <2>1, OutboxAssumption, SumOverZeros
  <1>2. ASSUME NEW e \in Events PROVE Spent(e) = 0
    <2>1. [p \in Publishers |-> queued[p][e]] = none /\ log[e] = 0 /\ refused[e] = 0
      BY DEF Init
    <2>2. Copies(e) = 0
      BY <1>1, <2>1 DEF Copies
    <2>3. QED
      BY <2>2 DEF Spent, Extra
  <1>3. [e \in Events |-> Spent(e)] = nothing
    BY <1>2
  <1>4. QED
    BY <1>1, <1>3 DEF CopiesPaidFor, Init

\* Every extra copy of a record is paid for by a failure of its own, whatever
\* the publishers do at the same time, however many rows they claim and however
\* often they die: without a failure, each committed row is produced once.
THEOREM DuplicatesArePaidFor == Spec => []DuplicatesNeedFaults
  <1>1. ASSUME TypeOK, TypeOK', CopiesPaidFor
        PROVE  DuplicatesNeedFaults
    <2> DEFINE extra == [e \in Events |-> Extra(e)]
               spent == [e \in Events |-> Spent(e)]
    <2>1. /\ extra \in [Events -> Nat] /\ spent \in [Events -> Nat]
          /\ \A e \in Events : extra[e] <= spent[e]
      BY <1>1, SpentFacts
    <2>2. SumOver(extra, Events) <= SumOver(spent, Events)
      BY <2>1, SumOverMonotone, OutboxAssumption
    <2>3. SumOver(extra, Events) \in Nat /\ SumOver(spent, Events) \in Nat
      BY <2>1, SumOverType, OutboxAssumption
    <2>4. faults \in Nat
      BY <1>1, OutboxAssumption DEF TypeOK
    <2>5. QED
      BY <1>1, <2>2, <2>3, <2>4 DEF CopiesPaidFor, DuplicatesNeedFaults
  <1>2. IInv => TypeOK
    BY DEF IInv
  <1>3. QED
    BY <1>1, <1>2, InitCopiesPaidFor, NextCopiesPaidFor, InductiveInvariant, PTL DEF Spec

\* Where the broker refuses no message for good, a row recorded as published is
\* in Kafka: the missing delivery callback is the only way around it, not a
\* crash, a timeout or a lost acknowledgement.
THEOREM PublishedReachesKafka ==
    ASSUME "refused" \notin FaultKinds
    PROVE  Spec => []PublishedIsInKafka
  <1> DEFINE Unrefused == \A e \in Events : refused[e] = 0
  <1>1. Init => Unrefused
    BY DEF Init
  <1>2. ASSUME IInv, Unrefused, [Next]_vars
        PROVE  Unrefused'
    <2>1. \A p \in Publishers, e \in Events : Deliver(p, e) \/ Resent(p, e) => refused' = refused
      BY DEF Deliver, Resent
    <2>2. \A p \in Publishers, e \in Events : ~ DeliveryRefused(p, e)
      BY DEF DeliveryRefused, Fault
    <2>3. refused' = refused
      BY <1>2, <2>1, <2>2, QueueSteps DEF BrokerStep, kafka
    <2>4. QED
      BY <1>2, <2>3
  <1>3. ASSUME IInv, Unrefused
        PROVE  PublishedIsInKafka
    <2>1. ASSUME NEW e \in Events, status[e] = "published"
          PROVE  log[e] > 0
      <3>1. log[e] + refused[e] > 0 /\ refused[e] = 0 /\ log[e] \in Nat
        BY <1>3, <2>1 DEF IInv, TypeOK, PublishedHasLeftTheProducer
      <3>2. QED
        BY <3>1
    <2>2. QED
      BY <2>1 DEF PublishedIsInKafka
  <1> HIDE DEF Unrefused
  <1>4. QED
    BY <1>1, <1>2, <1>3, InductiveInvariant, PTL DEF Spec
=============================================================================
