--------------------------- MODULE FetcherProofs ---------------------------
(***************************************************************************)
(* Proofs about Fetcher for any consumers, log, sources and fault budget.  *)
(* IInv joins the three properties with the order in which a consumer      *)
(* takes the records of its partition: without it a commit could           *)
(* acknowledge a record that nobody has processed.                         *)
(***************************************************************************)
EXTENDS Fetcher, TLAPS

\* An element of the log is a document.
LEMMA LogIsDocuments ==
    ASSUME NEW i \in 1..Len(Log)
    PROVE  Log[i] \in Documents
BY FetcherAssumption

\* Initially nothing is processed and nothing is acknowledged.
LEMMA InitEstablishes == Init => IInv
<1> SUFFICES ASSUME Init PROVE IInv
  OBVIOUS
<1> USE FetcherAssumption DEF Init
<1>1. TypeOK
  BY DEF TypeOK, PcValues
<1>2. OneHandoff
  BY DEF OneHandoff
<1>3. AcknowledgedIsProcessed
  BY DEF AcknowledgedIsProcessed
<1>4. HandoffAgreesWithTables
  BY DEF HandoffAgreesWithTables
<1>5. ConsumerOrder
  BY DEF ConsumerOrder, ProcessedBefore
<1>6. UntouchedUntilClaimed
  BY DEF UntouchedUntilClaimed
<1> QED
  BY <1>1, <1>2, <1>3, <1>4, <1>5, <1>6 DEF IInv

\* The facts about the tables alone.
TableFacts == OneHandoff /\ HandoffAgreesWithTables /\ UntouchedUntilClaimed

TableTypes ==
    /\ processed \subseteq Documents
    /\ docStatus \in [Documents -> {"submitted", "fetched", "failed", "extracted"}]
    /\ inspection \in [Documents -> {"pending", "valid", "invalid"}]
    /\ failures \in [Documents -> Nat]
    /\ fetched \in [Documents -> Nat]
    /\ rejected \in [Documents -> Nat]

\* The transaction of process keeps the facts about the tables, claims its
\* event and never takes a document's status back.
LEMMA EffectKeepsTables ==
    ASSUME TableTypes, TableFacts, NEW f \in Fetchers, NEW d \in Documents,
           Effect(f, d), UNCHANGED extracted
    PROVE  /\ TableTypes' /\ TableFacts'
           /\ processed' = processed \cup {d}
           /\ \A e \in Documents : docStatus'[e] # docStatus[e] =>
                 Progress(docStatus'[e]) > Progress(docStatus[e])
<1>1. CASE d \in processed
  BY <1>1 DEF Effect, Claims, database, TableTypes, TableFacts, OneHandoff,
              HandoffAgreesWithTables, UntouchedUntilClaimed
<1>2. CASE d \notin processed
  <2>1. processed' = processed \cup {d}
    BY <1>2 DEF Effect, Claims
  <2>2. fetched[d] = 0 /\ rejected[d] = 0 /\ docStatus[d] = "submitted" /\ failures[d] = 0
    BY <1>2 DEF TableFacts, TableTypes, OneHandoff, UntouchedUntilClaimed
  <2>3. CASE d \in Unversioned /\ RejectUnknown(d)
    <3>1. TableTypes'
      BY <2>1, <2>3 DEF TableTypes, RejectUnknown
    <3>2. TableFacts'
      BY <2>1, <2>2, <2>3 DEF TableTypes, TableFacts, RejectUnknown, OneHandoff,
         HandoffAgreesWithTables, UntouchedUntilClaimed
    <3> QED
      BY <2>1, <2>3, <3>1, <3>2 DEF RejectUnknown
  <2>4. CASE d \notin Unversioned /\ RejectVersion(d)
    <3>1. TableTypes'
      BY <2>1, <2>4 DEF TableTypes, RejectVersion
    <3>2. TableFacts'
      BY <2>1, <2>2, <2>4 DEF TableTypes, TableFacts, RejectVersion, OneHandoff,
         HandoffAgreesWithTables, UntouchedUntilClaimed
    <3>3. \A e \in Documents : docStatus'[e] # docStatus[e] =>
                 Progress(docStatus'[e]) > Progress(docStatus[e])
      BY <2>2, <2>4 DEF TableTypes, RejectVersion, Progress
    <3> QED
      BY <2>1, <3>1, <3>2, <3>3
  <2>5. CASE d \notin Unversioned /\ AcceptVersion(d)
    <3>1. TableTypes'
      BY <2>1, <2>5 DEF TableTypes, AcceptVersion
    <3>2. TableFacts'
      BY <2>1, <2>2, <2>5 DEF TableTypes, TableFacts, AcceptVersion, OneHandoff,
         HandoffAgreesWithTables, UntouchedUntilClaimed
    <3>3. \A e \in Documents : docStatus'[e] # docStatus[e] =>
                 Progress(docStatus'[e]) > Progress(docStatus[e])
      BY <2>2, <2>5 DEF TableTypes, AcceptVersion, Progress
    <3> QED
      BY <2>1, <3>1, <3>2, <3>3
  <2> QED
    BY <1>2, <2>3, <2>4, <2>5 DEF Effect, Claims
<1> QED
  BY <1>1, <1>2

\* Whatever the next step, a processed document stays processed.
LEMMA ProcessedGrows ==
    ASSUME [Next]_vars
    PROVE  processed \subseteq processed'
<1>1. ASSUME NEW f \in Fetchers, NEW d, Effect(f, d) PROVE processed \subseteq processed'
  BY <1>1 DEF Effect, database
<1>2. ASSUME NEW f \in Fetchers, WorkStep(f) PROVE processed \subseteq processed'
  BY <1>1, <1>2 DEF WorkStep, Poll, Inspect, GetRaises, Process, CommitOffset, database
<1>3. ASSUME NEW f \in Fetchers, FailureStep(f) PROVE processed \subseteq processed'
  BY <1>1, <1>3 DEF FailureStep, Crash, ProcessRaises, RolledBack, CommitRaises, database
<1>4. ASSUME NEW f \in Fetchers, Assign(f) \/ Restart(f) PROVE processed \subseteq processed'
  BY <1>4 DEF Assign, Restart, database
<1> QED
  BY <1>2, <1>3, <1>4 DEF Next, ExtractorFinishes, vars, database

-----------------------------------------------------------------------------
(* The consumers *)

GroupTypes ==
    /\ owner \in Fetchers \cup {NoFetcher}
    /\ committed \in 1..(Len(Log) + 1)
    /\ position \in [Fetchers -> 1..(Len(Log) + 1)]
    /\ pc \in [Fetchers -> PcValues]
    /\ offset \in [Fetchers -> 0..Len(Log)]
    /\ inspected \in [Fetchers -> {"none", "valid", "invalid"}]

GroupFacts == GroupTypes /\ ConsumerOrder /\ AcknowledgedIsProcessed

OtherTypes == extracted \subseteq Documents /\ faults \in 0..MaxFaults

LEMMA IInvParts ==
    IInv <=> GroupFacts /\ TableTypes /\ TableFacts /\ OtherTypes
BY DEF IInv, TypeOK, GroupFacts, GroupTypes, TableTypes, TableFacts, OtherTypes

\* A worker that ends leaves its record to the next owner.
LEMMA EndKeepsGroup ==
    ASSUME GroupFacts, NEW f \in Fetchers, WorkerEnds(f), processed \subseteq processed'
    PROVE  GroupFacts'
<1> USE FetcherAssumption DEF GroupFacts
<1>1. GroupTypes'
  BY DEF GroupTypes, WorkerEnds, PcValues
<1>2. AcknowledgedIsProcessed'
  BY DEF WorkerEnds, AcknowledgedIsProcessed
<1>3. ConsumerOrder'
  <2> SUFFICES ASSUME NEW g \in Fetchers
               PROVE  /\ pc'[g] \in {"polling", "dead"} => offset'[g] = 0
                      /\ pc'[g] = "dead" => owner' # g
                      /\ pc'[g] \in {"inspecting", "processing", "committing"} =>
                            /\ offset'[g] \in 1..Len(Log)
                            /\ position'[g] = offset'[g] + 1
                            /\ \A j \in 1..(offset'[g] - 1) : Log[j] \in processed'
                      /\ pc'[g] = "committing" => Log[offset'[g]] \in processed'
                      /\ pc'[g] = "polling" /\ owner' = g =>
                            \A j \in 1..(position'[g] - 1) : Log[j] \in processed'
    BY DEF ConsumerOrder, ProcessedBefore
  <2>1. CASE g = f
    BY <2>1 DEF GroupTypes, WorkerEnds
  <2>2. CASE g # f
    BY <2>2 DEF GroupTypes, WorkerEnds, ConsumerOrder, ProcessedBefore
  <2> QED
    BY <2>1, <2>2
<1> QED
  BY <1>1, <1>2, <1>3

\* Steps of the consumer group and of one consumer that leave the tables alone.
LEMMA QuietKeepsGroup ==
    ASSUME GroupFacts, NEW f \in Fetchers, UNCHANGED processed,
           Assign(f) \/ Restart(f) \/ Poll(f) \/ Inspect(f) \/ CommitOffset(f)
    PROVE  GroupFacts'
<1> USE FetcherAssumption DEF GroupFacts
<1>0. ASSUME NEW g \in Fetchers
      PROVE  /\ pc[g] \in {"polling", "dead"} => offset[g] = 0
             /\ pc[g] = "dead" => owner # g
             /\ pc[g] \in {"inspecting", "processing", "committing"} =>
                   /\ offset[g] \in 1..Len(Log)
                   /\ position[g] = offset[g] + 1
                   /\ \A j \in 1..(offset[g] - 1) : Log[j] \in processed
             /\ pc[g] = "committing" => Log[offset[g]] \in processed
             /\ pc[g] = "polling" /\ owner = g =>
                   \A j \in 1..(position[g] - 1) : Log[j] \in processed
  BY DEF ConsumerOrder, ProcessedBefore
<1>00. \A j \in 1..(committed - 1) : Log[j] \in processed
  BY DEF AcknowledgedIsProcessed
<1>1. CASE Assign(f)
  BY <1>0, <1>00, <1>1 DEF Assign, consumer, GroupTypes, AcknowledgedIsProcessed,
     ConsumerOrder, ProcessedBefore, PcValues
<1>2. CASE Restart(f)
  <2>1. owner # f
    BY <1>0, <1>2 DEF Restart
  <2> QED
    BY <1>0, <1>00, <1>2, <2>1 DEF Restart, Goto, group, GroupTypes, AcknowledgedIsProcessed,
       ConsumerOrder, ProcessedBefore, PcValues
<1>3. CASE Poll(f)
  BY <1>0, <1>00, <1>3 DEF Poll, Goto, GroupTypes, AcknowledgedIsProcessed,
     ConsumerOrder, ProcessedBefore, PcValues
<1>4. CASE Inspect(f)
  BY <1>0, <1>00, <1>4 DEF Inspect, Goto, group, GroupTypes, AcknowledgedIsProcessed,
     ConsumerOrder, ProcessedBefore, PcValues
<1>5. CASE CommitOffset(f)
  <2>1. \A j \in 1..offset[f] : Log[j] \in processed
    BY <1>0, <1>5 DEF CommitOffset, GroupTypes
  <2> QED
    BY <1>0, <1>00, <1>5, <2>1 DEF CommitOffset, Acknowledges, Goto, GroupTypes,
       AcknowledgedIsProcessed, ConsumerOrder, ProcessedBefore, PcValues
<1> QED
  BY <1>1, <1>2, <1>3, <1>4, <1>5

\* The claim's transaction and the step to the commit, or the exception after it.
LEMMA ProcessKeepsGroup ==
    ASSUME GroupFacts, NEW f \in Fetchers, Process(f),
           processed' = processed \cup {Document(f)}
    PROVE  GroupFacts'
<1> USE FetcherAssumption DEF GroupFacts
<1>1. GroupTypes'
  BY DEF GroupTypes, Process, Goto, group, PcValues
<1>2. AcknowledgedIsProcessed'
  BY DEF Process, group, AcknowledgedIsProcessed
<1>3. Log[offset[f]] \in processed'
  BY DEF Process, Document, ConsumerOrder, GroupTypes
<1>4. ConsumerOrder'
  BY <1>3 DEF Process, Goto, group, GroupTypes, ConsumerOrder, ProcessedBefore
<1> QED
  BY <1>1, <1>2, <1>4

\* The record in hand while the transaction runs is a document.
LEMMA InHand ==
    ASSUME GroupFacts, NEW f \in Fetchers, pc[f] = "processing"
    PROVE  Document(f) \in Documents
BY LogIsDocuments DEF GroupFacts, ConsumerOrder, Document

-----------------------------------------------------------------------------

\* No step forward in the tables is ever undone, and IInv is inductive.
Forward ==
    \A d \in Documents :
        docStatus'[d] # docStatus[d] => Progress(docStatus'[d]) > Progress(docStatus[d])

LEMMA StepPreserves ==
    ASSUME IInv, [Next]_vars
    PROVE  IInv' /\ Forward
<1> USE FetcherAssumption
<1>0. GroupFacts /\ TableTypes /\ TableFacts /\ OtherTypes
  BY IInvParts
<1> SUFFICES GroupFacts' /\ TableTypes' /\ TableFacts' /\ OtherTypes' /\ Forward
  BY DEF IInv, TypeOK, GroupFacts, GroupTypes, TableTypes, TableFacts, OtherTypes
<1>1. ASSUME UNCHANGED <<database, extracted>>
      PROVE  TableTypes' /\ TableFacts' /\ Forward
  BY <1>0, <1>1 DEF database, TableTypes, TableFacts, Forward, OneHandoff,
     HandoffAgreesWithTables, UntouchedUntilClaimed
<1>2. ASSUME NEW f \in Fetchers, pc[f] = "processing", Effect(f, Document(f)), UNCHANGED extracted
      PROVE  /\ TableTypes' /\ TableFacts' /\ Forward
             /\ processed' = processed \cup {Document(f)}
  BY <1>0, <1>2, InHand, EffectKeepsTables DEF Forward
<1>3. ASSUME NEW f \in Fetchers,
             Poll(f) \/ Inspect(f) \/ CommitOffset(f) \/ Assign(f) \/ Restart(f)
      PROVE  GroupFacts' /\ TableTypes' /\ TableFacts' /\ OtherTypes' /\ Forward
  <2>1. UNCHANGED <<database, extracted>> /\ faults' \in 0..MaxFaults
    BY <1>0, <1>3 DEF Poll, Inspect, CommitOffset, Assign, Restart, Fault, NoFault, OtherTypes
  <2>2. GroupFacts'
    BY <1>0, <1>3, <2>1, QuietKeepsGroup DEF database
  <2> QED
    BY <1>0, <1>1, <2>1, <2>2 DEF OtherTypes
<1>4. ASSUME NEW f \in Fetchers, GetRaises(f) \/ Crash(f) \/ CommitRaises(f)
      PROVE  GroupFacts' /\ TableTypes' /\ TableFacts' /\ OtherTypes' /\ Forward
  <2>1. UNCHANGED <<database, extracted>> /\ faults' \in 0..MaxFaults /\ WorkerEnds(f)
    BY <1>0, <1>4 DEF GetRaises, Unhandled, Crash, CommitRaises, Fault, NoFault, OtherTypes
  <2>2. GroupFacts'
    BY <1>0, <2>1, EndKeepsGroup DEF database
  <2> QED
    BY <1>0, <1>1, <2>1, <2>2 DEF OtherTypes
<1>5. ASSUME NEW f \in Fetchers, Process(f)
      PROVE  GroupFacts' /\ TableTypes' /\ TableFacts' /\ OtherTypes' /\ Forward
  <2>1. pc[f] = "processing" /\ Effect(f, Document(f)) /\ UNCHANGED <<extracted, faults>>
    BY <1>5 DEF Process
  <2>2. /\ TableTypes' /\ TableFacts' /\ Forward
        /\ processed' = processed \cup {Document(f)}
    BY <1>2, <2>1
  <2>3. GroupFacts'
    BY <1>0, <1>5, <2>2, ProcessKeepsGroup
  <2> QED
    BY <1>0, <2>1, <2>2, <2>3 DEF OtherTypes
<1>6. ASSUME NEW f \in Fetchers, ProcessRaises(f)
      PROVE  GroupFacts' /\ TableTypes' /\ TableFacts' /\ OtherTypes' /\ Forward
  <2>1. pc[f] = "processing" /\ WorkerEnds(f) /\ UNCHANGED extracted /\ faults' \in 0..MaxFaults
    BY <1>0, <1>6 DEF ProcessRaises, RolledBack, Fault, OtherTypes
  <2>2. GroupFacts'
    BY <1>0, <2>1, EndKeepsGroup, ProcessedGrows
  <2>3. CASE UNCHANGED database
    BY <1>0, <1>1, <2>1, <2>2, <2>3 DEF OtherTypes
  <2>4. CASE Effect(f, Document(f))
    BY <1>0, <1>2, <2>1, <2>2, <2>4 DEF OtherTypes
  <2> QED
    BY <1>6, <2>3, <2>4 DEF ProcessRaises, RolledBack
<1>7. ASSUME NEW d \in Documents, ExtractorFinishes(d)
      PROVE  GroupFacts' /\ TableTypes' /\ TableFacts' /\ OtherTypes' /\ Forward
  <2>1. GroupFacts' /\ OtherTypes'
    BY <1>0, <1>7 DEF ExtractorFinishes, group, consumer, GroupFacts, GroupTypes,
       ConsumerOrder, ProcessedBefore, AcknowledgedIsProcessed, OtherTypes
  <2>2. docStatus[d] = "fetched" /\ d \in processed /\ rejected[d] = 0
    BY <1>0, <1>7 DEF ExtractorFinishes, TableTypes, TableFacts, OneHandoff, UntouchedUntilClaimed
  <2>3. Forward
    BY <1>0, <1>7, <2>2 DEF ExtractorFinishes, TableTypes, Forward, Progress
  <2>4. TableTypes' /\ TableFacts'
    BY <1>0, <1>7, <2>2 DEF ExtractorFinishes, TableTypes, TableFacts, OneHandoff,
       HandoffAgreesWithTables, UntouchedUntilClaimed
  <2> QED
    BY <2>1, <2>3, <2>4
<1>8. CASE UNCHANGED vars
  <2>1. UNCHANGED <<group, consumer, database, extracted, faults>>
    BY <1>8 DEF vars
  <2>2. GroupFacts' /\ OtherTypes'
    BY <1>0, <2>1 DEF group, consumer, database, GroupFacts, GroupTypes, ConsumerOrder,
       ProcessedBefore, AcknowledgedIsProcessed, OtherTypes
  <2> QED
    BY <1>1, <2>1, <2>2
<1> QED
  BY <1>3, <1>4, <1>5, <1>6, <1>7, <1>8 DEF Next, WorkStep, FailureStep

-----------------------------------------------------------------------------

\* IInv holds in every reachable state: it is the invariant the properties of
\* handle, process and _run rest on.
THEOREM InductiveInvariant == Spec => []IInv
<1>1. Init => IInv
  BY InitEstablishes
<1>2. IInv /\ [Next]_vars => IInv'
  BY StepPreserves
<1> QED
  BY <1>1, <1>2, PTL DEF Spec

\* Types are kept by every step of the fetchers.
THEOREM TypeCorrect == Spec => []TypeOK
<1>1. IInv => TypeOK
  BY DEF IInv
<1> QED
  BY <1>1, InductiveInvariant, PTL

\* process hands each event on exactly once, whatever is redelivered and
\* whichever consumers race for it.
THEOREM HandedOnOnce == Spec => []OneHandoff
<1>1. IInv => OneHandoff
  BY DEF IInv
<1> QED
  BY <1>1, InductiveInvariant, PTL

\* _run acknowledges no record whose transaction has not committed.
THEOREM NoEventIsLost == Spec => []AcknowledgedIsProcessed
<1>1. IInv => AcknowledgedIsProcessed
  BY DEF IInv
<1> QED
  BY <1>1, InductiveInvariant, PTL

\* The outbox rows of process agree with the tables it updates.
THEOREM HandoffsAgree == Spec => []HandoffAgreesWithTables
<1>1. IInv => HandoffAgreesWithTables
  BY DEF IInv
<1> QED
  BY <1>1, InductiveInvariant, PTL

\* No redelivery takes a document's status back.
THEOREM StatusMovesForward == Spec => StatusNeverRegresses
<1>1. IInv /\ [Next]_vars => [Forward]_vars
  BY StepPreserves
<1>2. Spec => [][Forward]_vars
  BY <1>1, InductiveInvariant, PTL DEF Spec
<1> QED
  BY <1>2 DEF StatusNeverRegresses, Forward

-----------------------------------------------------------------------------
(* Refinement: Fetcher implements IdempotentConsumer. *)

\* What the mapping needs beside IInv: the inspection in hand is the one that
\* the bytes of the document in hand deserve.
InspectionAgrees ==
    \A f \in Fetchers : pc[f] = "processing" =>
        /\ Source[Document(f)] # "missing"
        /\ inspected[f] = IF Source[Document(f)] = "not_pdf" THEN "invalid" ELSE "valid"

\* A step that leaves a consumer in process leaves its record and inspection
\* alone, or has just inspected the record.
LEMMA InspectionSteps ==
    ASSUME IInv, [Next]_vars, NEW f \in Fetchers, pc'[f] = "processing"
    PROVE  /\ offset'[f] = offset[f]
           /\ \/ pc[f] = "processing" /\ inspected'[f] = inspected[f]
              \/ Inspect(f)
<1> USE DEF IInv, TypeOK, Goto
<1>2. ASSUME NEW g \in Fetchers, WorkStep(g)
      PROVE  /\ offset'[f] = offset[f]
             /\ \/ pc[f] = "processing" /\ inspected'[f] = inspected[f]
                \/ Inspect(f)
  <2>1. CASE g = f
    BY <1>2, <2>1 DEF WorkStep, Poll, Inspect, GetRaises, Unhandled, Process, CommitOffset,
                      WorkerEnds
  <2>2. CASE g # f
    BY <1>2, <2>2 DEF WorkStep, Poll, Inspect, GetRaises, Unhandled, Process, CommitOffset,
                      WorkerEnds
  <2> QED
    BY <2>1, <2>2
<1>3. ASSUME NEW g \in Fetchers, FailureStep(g) \/ Assign(g) \/ Restart(g)
      PROVE  pc[f] = "processing" /\ UNCHANGED <<offset[f], inspected[f]>>
  BY <1>3
  DEF FailureStep, Crash, ProcessRaises, RolledBack, CommitRaises, WorkerEnds, Assign, Restart,
              consumer
<1>4. ASSUME NEW d \in Documents, ExtractorFinishes(d)
      PROVE  pc[f] = "processing" /\ UNCHANGED <<offset[f], inspected[f]>>
  BY <1>4 DEF ExtractorFinishes, consumer
<1>5. CASE UNCHANGED vars
  BY <1>5 DEF vars, consumer
<1> QED
  BY <1>2, <1>3, <1>4, <1>5 DEF Next

\* No step makes the inspection in hand disagree with the document in hand.
LEMMA InspectionKept ==
    ASSUME IInv, InspectionAgrees, [Next]_vars
    PROVE  InspectionAgrees'
<1> SUFFICES ASSUME NEW f \in Fetchers, pc'[f] = "processing"
             PROVE  /\ Source[Document(f)'] # "missing"
                    /\ inspected'[f] =
                          IF Source[Document(f)'] = "not_pdf" THEN "invalid" ELSE "valid"
  BY DEF InspectionAgrees
<1>1. Document(f)' = Document(f)
  BY InspectionSteps DEF Document
<1>2. CASE pc[f] = "processing" /\ inspected'[f] = inspected[f]
  BY <1>1, <1>2 DEF InspectionAgrees
<1>3. CASE Inspect(f)
  BY <1>1, <1>3 DEF Inspect, IInv, TypeOK
<1> QED
  BY <1>2, <1>3, InspectionSteps

\* The transaction of process decides its event as the document deserves, or
\* finds it decided.
LEMMA EffectRefines ==
    ASSUME IInv, InspectionAgrees, NEW f \in Fetchers, pc[f] = "processing",
           Effect(f, Document(f))
    PROVE  [Consumer!Next]_(Consumer!vars)
<1> DEFINE d == Document(f)
<1> USE DEF IInv, TypeOK
<1>1. d \in Documents
  BY LogIsDocuments DEF Document, ConsumerOrder
<1>2. CASE d \in processed
  BY <1>2 DEF Effect, Claims, database, Consumer!vars
<1>3. CASE d \notin processed
  <2>1. Consumer!Undecided(d)
    BY <1>1, <1>3 DEF OneHandoff, Consumer!Undecided
  <2>2. ASSUME d \in Acceptable
        PROVE  AcceptVersion(d)
    BY <1>3, <2>2 DEF Effect, Claims, Accepts, Acceptable, InspectionAgrees
  <2>3. ASSUME d \notin Acceptable
        PROVE  RejectUnknown(d) \/ RejectVersion(d)
    BY <1>1, <1>3, <2>3, FetcherAssumption
    DEF Effect, Claims, Accepts, Acceptable, InspectionAgrees, SourceKinds
  <2>4. CASE d \in Acceptable
    BY <1>1, <2>1, <2>2, <2>4 DEF AcceptVersion, Consumer!Accept, Consumer!Next
  <2>5. CASE d \notin Acceptable
    BY <1>1, <2>1, <2>3, <2>5
    DEF RejectUnknown, RejectVersion, Consumer!Reject, Consumer!Next
  <2> QED
    BY <2>4, <2>5
<1> QED
  BY <1>2, <1>3

\* Every other step leaves the handoffs alone.
LEMMA StepRefines ==
    ASSUME IInv, InspectionAgrees, [Next]_vars
    PROVE  [Consumer!Next]_(Consumer!vars)
<1>1. ASSUME UNCHANGED database  PROVE  UNCHANGED Consumer!vars
  BY <1>1 DEF database, Consumer!vars
<1>2. ASSUME NEW f \in Fetchers, WorkStep(f)
      PROVE  [Consumer!Next]_(Consumer!vars)
  BY <1>1, <1>2, EffectRefines
  DEF WorkStep, Poll, Inspect, GetRaises, Process, CommitOffset
<1>3. ASSUME NEW f \in Fetchers, FailureStep(f) \/ Assign(f) \/ Restart(f)
      PROVE  [Consumer!Next]_(Consumer!vars)
  BY <1>1, <1>3, EffectRefines
  DEF FailureStep, Crash, ProcessRaises, RolledBack, CommitRaises, Assign, Restart
<1>4. ASSUME NEW d \in Documents, ExtractorFinishes(d)
      PROVE  UNCHANGED Consumer!vars
  BY <1>4 DEF ExtractorFinishes, Consumer!vars
<1>5. CASE UNCHANGED vars
  BY <1>1, <1>5 DEF vars
<1> QED
  BY <1>2, <1>3, <1>4, <1>5 DEF Next

\* The fetch stage decides each event once and as its document deserves, for
\* any consumers, any log with any duplicates, and any failures.
THEOREM FetcherDecidesOnce == Spec => DecidesEachEventOnce
<1>1. Init => InspectionAgrees /\ Consumer!Init
  BY DEF Init, InspectionAgrees, Consumer!Init
<1>2. IInv /\ InspectionAgrees /\ [Next]_vars => InspectionAgrees'
  BY InspectionKept
<1>3. IInv /\ InspectionAgrees /\ [Next]_vars => [Consumer!Next]_(Consumer!vars)
  BY StepRefines
<1> QED
  BY <1>1, <1>2, <1>3, InductiveInvariant, PTL DEF Spec, DecidesEachEventOnce, Consumer!Spec
=============================================================================
