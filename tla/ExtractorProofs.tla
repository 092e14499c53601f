--------------------------- MODULE ExtractorProofs ---------------------------
(***************************************************************************)
(* Proofs about Extractor for any workers, partitions, slots, logs and     *)
(* fault budget.  IInv is about what the tasks know, the tables and the    *)
(* pool; InOrder adds the order of the records when there is one slot.     *)
(***************************************************************************)
EXTENDS Extractor, DataFacts

-----------------------------------------------------------------------------
(* IInv in the parts that the steps disturb separately. *)

GroupTypes ==
    /\ owner \in [Partitions -> Workers \cup {NoWorker}]
    /\ committed \in [Partitions -> Nat \ {0}]
    /\ position \in [Workers -> [Partitions -> Nat \ {0}]]
    /\ \A p \in Partitions :
          /\ committed[p] <= Len(Log[p]) + 1
          /\ \A w \in Workers : position[w][p] <= Len(Log[p]) + 1

LoopTypes ==
    /\ held \in [Workers -> SUBSET Partitions]
    /\ paused \in [Workers -> BOOLEAN]
    /\ pc \in [Workers -> {"sweeping", "reaping", "polling", "dead"}]

LoopFacts == GroupTypes /\ LoopTypes /\ HeldOnlyWhilePaused

TaskTypes ==
    /\ inflight \in [Workers -> Seq(TaskRecords)]
    /\ \A w \in Workers : \A i \in DOMAIN inflight[w] :
          inflight[w][i].offset <= Len(Log[inflight[w][i].partition])

PoolFacts == free \in [Workers -> 0..MaxConcurrency] /\ PoolConserved

TableTypes ==
    /\ processed \subseteq Documents
    /\ docStatus \in [Documents -> {"fetched", "extracted", "failed"}]
    /\ extraction \in [Documents -> {"pending", "succeeded", "needs_review", "failed"}]
    /\ {recorded, normalized, manifest} \subseteq [Documents -> Releases]
    /\ completed \in [Documents -> Nat]
    /\ rejected \in [Documents -> Nat]

TableFacts ==
    TableTypes /\ ClaimedOnce /\ HandoffAgreesWithTables /\ ManifestDescribesDocument

FaultTypes == faults \in 0..MaxFaults

LEMMA IInvParts ==
    IInv <=> LoopFacts /\ TaskTypes /\ TasksAgree /\ PoolFacts /\ TableFacts /\ FaultTypes
BY DEF IInv, TypeOK, LoopFacts, GroupTypes, LoopTypes, TaskTypes, PoolFacts, TableFacts,
       TableTypes, FaultTypes

-----------------------------------------------------------------------------
(* Tasks *)

\* The record of a task is a document.
LEMMA TaskHasDocument ==
    ASSUME TaskTypes, NEW w \in Workers, NEW i \in DOMAIN inflight[w]
    PROVE  /\ inflight[w][i] \in TaskRecords
           /\ DocumentOf(inflight[w][i]) \in Documents
<1>1. inflight[w] \in Seq(TaskRecords)
  BY DEF TaskTypes
<1>2. inflight[w][i] \in TaskRecords
  BY <1>1
<1>3. Log[inflight[w][i].partition] \in Seq(Documents)
  BY <1>2, ExtractorAssumption DEF TaskRecords
<1>4. inflight[w][i].offset \in 1..Len(Log[inflight[w][i].partition])
  BY <1>2, <1>3 DEF TaskTypes, TaskRecords
<1> QED
  BY <1>2, <1>3, <1>4 DEF DocumentOf

\* Advance changes the step of one task and nothing else about any task.
LEMMA AdvanceFacts ==
    ASSUME TaskTypes, NEW w \in Workers, NEW i \in DOMAIN inflight[w],
           NEW step \in Steps, Advance(w, i, step)
    PROVE  /\ TaskTypes'
           /\ \A v \in Workers : DOMAIN inflight'[v] = DOMAIN inflight[v]
           /\ \A v \in Workers : \A j \in DOMAIN inflight[v] :
                 /\ inflight'[v][j].partition = inflight[v][j].partition
                 /\ inflight'[v][j].offset = inflight[v][j].offset
                 /\ inflight'[v][j].step =
                       IF v = w /\ j = i THEN step ELSE inflight[v][j].step
<1>1. \A v \in Workers : inflight[v] \in Seq(TaskRecords)
  BY DEF TaskTypes
<1>2. \A v \in Workers \ {w} : inflight'[v] = inflight[v]
  BY DEF Advance, TaskTypes
<1>3. inflight'[w] = [inflight[w] EXCEPT ![i] = [inflight[w][i] EXCEPT !.step = step]]
  BY DEF Advance, TaskTypes
<1>4. inflight[w][i] \in TaskRecords
  BY <1>1
<1>5. [inflight[w][i] EXCEPT !.step = step] \in TaskRecords
  BY <1>4 DEF TaskRecords
<1>6. inflight'[w] \in Seq(TaskRecords) /\ DOMAIN inflight'[w] = DOMAIN inflight[w]
  BY <1>1, <1>3, <1>5
<1>7. /\ inflight'[w][i] = [inflight[w][i] EXCEPT !.step = step]
      /\ \A j \in DOMAIN inflight[w] \ {i} : inflight'[w][j] = inflight[w][j]
  BY <1>1, <1>3
<1>8. /\ inflight'[w][i].partition = inflight[w][i].partition
      /\ inflight'[w][i].offset = inflight[w][i].offset
      /\ inflight'[w][i].step = step
  BY <1>4, <1>7 DEF TaskRecords
<1>9. \A v \in Workers : DOMAIN inflight'[v] = DOMAIN inflight[v]
  BY <1>2, <1>6
<1>10. \A v \in Workers : \A j \in DOMAIN inflight[v] :
                 /\ inflight'[v][j].partition = inflight[v][j].partition
                 /\ inflight'[v][j].offset = inflight[v][j].offset
                 /\ inflight'[v][j].step =
                       IF v = w /\ j = i THEN step ELSE inflight[v][j].step
  BY <1>2, <1>7, <1>8
<1>11. inflight' \in [Workers -> Seq(TaskRecords)]
  BY <1>1, <1>2, <1>6 DEF Advance, TaskTypes
<1>12. ASSUME NEW v \in Workers, NEW j \in DOMAIN inflight'[v]
       PROVE  inflight'[v][j].offset <= Len(Log[inflight'[v][j].partition])
  <2>1. j \in DOMAIN inflight[v]
    BY <1>9
  <2>2. inflight[v][j].offset <= Len(Log[inflight[v][j].partition])
    BY <2>1 DEF TaskTypes
  <2> QED
    BY <1>10, <2>1, <2>2
<1>13. TaskTypes'
  BY <1>11, <1>12 DEF TaskTypes
<1> QED
  BY <1>9, <1>10, <1>13

\* A task keeps its record.
LEMMA AdvanceSameRecord ==
    ASSUME TaskTypes, NEW w \in Workers, NEW i \in DOMAIN inflight[w],
           NEW step \in Steps, Advance(w, i, step)
    PROVE  DocumentOf(inflight[w][i])' = DocumentOf(inflight[w][i])
BY AdvanceFacts DEF DocumentOf

\* What the tables and the store say never becomes less.
StoreGrows ==
    /\ processed \subseteq processed'
    /\ \A d \in Documents :
          /\ normalized[d] # NoRelease => normalized'[d] # NoRelease
          /\ manifest[d] # NoRelease => manifest'[d] # NoRelease

LEMMA StepFactGrows ==
    ASSUME StoreGrows, NEW d \in Documents, NEW step, StepFact(d, step)
    PROVE  StepFact(d, step)'
BY DEF StoreGrows, StepFact, Rejectable, Acceptable, Convertible, Refusable

\* A task that goes on may do so if the fact its new step needs holds.
LEMMA AdvanceAgrees ==
    ASSUME TaskTypes, TasksAgree, StoreGrows, NEW w \in Workers, NEW i \in DOMAIN inflight[w],
           NEW step \in Steps, Advance(w, i, step),
           StepFact(DocumentOf(inflight[w][i]), step)'
    PROVE  TasksAgree'
<1> SUFFICES ASSUME NEW v \in Workers, NEW j \in DOMAIN inflight'[v]
             PROVE  StepFact(DocumentOf(inflight[v][j]), inflight[v][j].step)'
  BY DEF TasksAgree
<1>1. j \in DOMAIN inflight[v]
  BY AdvanceFacts
<1>2. DocumentOf(inflight[v][j])' = DocumentOf(inflight[v][j])
  BY <1>1, AdvanceFacts DEF DocumentOf
<1>3. CASE v = w /\ j = i
  <2>1. inflight'[v][j].step = step
    BY <1>1, <1>3, AdvanceFacts
  <2>2. DocumentOf(inflight[w][i])' = DocumentOf(inflight[v][j])'
    BY <1>3
  <2> QED
    BY <2>1, <2>2, <1>2, <1>3 DEF StepFact
<1>4. CASE ~ (v = w /\ j = i)
  <2>1. inflight'[v][j].step = inflight[v][j].step
    BY <1>1, <1>4, AdvanceFacts
  <2>2. StepFact(DocumentOf(inflight[v][j]), inflight[v][j].step)
    BY <1>1 DEF TasksAgree
  <2>3. DocumentOf(inflight[v][j]) \in Documents
    BY <1>1, TaskHasDocument
  <2> QED
    BY <1>2, <2>1, <2>2, <2>3
    DEF StoreGrows, StepFact, Rejectable, Acceptable, Convertible, Refusable
<1> QED
  BY <1>3, <1>4

-----------------------------------------------------------------------------
(* The pool *)

ConvertingIn(s) == {i \in DOMAIN s : s[i].step = "converting"}

\* The conversions of a worker can be counted.
LEMMA ConvertingFinite ==
    ASSUME NEW s \in Seq(TaskRecords)
    PROVE  IsFiniteSet(ConvertingIn(s)) /\ Cardinality(ConvertingIn(s)) \in Nat
<1>1. IsFiniteSet(1..Len(s)) /\ ConvertingIn(s) \in SUBSET (1..Len(s))
  BY FS_Interval DEF ConvertingIn
<1>2. IsFiniteSet(ConvertingIn(s))
  BY <1>1, FS_Subset
<1> QED
  BY <1>2, FS_CardinalityType

\* Taking out a task that does not convert leaves the number of conversions.
LEMMA RemoveKeepsConverting ==
    ASSUME NEW s \in Seq(TaskRecords), NEW i \in 1..Len(s), s[i].step # "converting"
    PROVE  Cardinality(ConvertingIn(RemoveAt(s, i))) = Cardinality(ConvertingIn(s))
<1> DEFINE r == RemoveAt(s, i)
           S == ConvertingIn(r)
           T == ConvertingIn(s)
           f == [j \in S |-> IF j < i THEN j ELSE j + 1]
<1>1. /\ DOMAIN s = 1..Len(s) /\ DOMAIN r = 1..(Len(s) - 1)
      /\ \A j \in 1..(Len(s) - 1) : r[j] = s[IF j < i THEN j ELSE j + 1]
  BY RemoveAtFacts
<1> HIDE DEF r
<1>2. f \in [S -> T]
  <2> SUFFICES ASSUME NEW j \in S PROVE (IF j < i THEN j ELSE j + 1) \in T
    OBVIOUS
  <2>1. j \in 1..(Len(s) - 1) /\ r[j].step = "converting"
    BY <1>1 DEF ConvertingIn
  <2> QED
    BY <1>1, <2>1 DEF ConvertingIn
<1>3. S \subseteq Int
  BY <1>1 DEF ConvertingIn
<1>4. f \in Injection(S, T)
  BY <1>2, <1>3 DEF Injection, IsInjective
<1>5. f \in Surjection(S, T)
  <2> SUFFICES ASSUME NEW k \in T PROVE \E j \in S : f[j] = k
    BY <1>2 DEF Surjection
  <2>1. k \in 1..Len(s) /\ s[k].step = "converting" /\ k # i
    BY <1>1 DEF ConvertingIn
  <2> DEFINE j == IF k < i THEN k ELSE k - 1
  <2>2. j \in 1..(Len(s) - 1) /\ (IF j < i THEN j ELSE j + 1) = k
    BY <2>1
  <2>3. r[j] = s[k]
    BY <1>1, <2>2
  <2>4. j \in S
    BY <1>1, <2>1, <2>2, <2>3 DEF ConvertingIn
  <2> HIDE DEF j
  <2>5. f[j] = k
    BY <2>2, <2>4
  <2> QED
    BY <2>4, <2>5
<1>6. ExistsBijection(S, T)
  BY <1>4, <1>5 DEF ExistsBijection, Bijection
<1>7. IsFiniteSet(S)
  BY RemoveAtFacts, ConvertingFinite DEF r
<1>8. Cardinality(T) = Cardinality(S)
  <2> HIDE DEF S, T
  <2> QED
    BY <1>6, <1>7, FS_Bijection
<1> QED
  BY <1>8 DEF r

\* A task that neither starts nor ends a conversion leaves the pool alone.
LEMMA AdvanceKeepsPool ==
    ASSUME TaskTypes, PoolFacts, UNCHANGED free, NEW w \in Workers,
           NEW i \in DOMAIN inflight[w], NEW step \in Steps, Advance(w, i, step),
           inflight[w][i].step # "converting", step # "converting"
    PROVE  PoolFacts'
<1>1. ASSUME NEW v \in Workers PROVE Converting(v)' = Converting(v)
  BY AdvanceFacts DEF Converting
<1> QED
  BY <1>1 DEF PoolFacts, PoolConserved

\* The task that got a converter is counted, and no other.
LEMMA TakeKeepsPool ==
    ASSUME TaskTypes, PoolFacts, NEW w \in Workers, NEW i \in DOMAIN inflight[w],
           TakeConverter(w, i)
    PROVE  PoolFacts'
<1>1. Advance(w, i, "converting") /\ inflight[w][i].step = "waiting" /\ free[w] > 0
  BY DEF TakeConverter, AtStep
<1>2. free' = [free EXCEPT ![w] = @ - 1]
  BY DEF TakeConverter
<1>3. "converting" \in Steps
  BY DEF Steps
<1>4. ASSUME NEW v \in Workers
      PROVE  Converting(v)' = IF v = w THEN Converting(v) \cup {i} ELSE Converting(v)
  BY <1>1, <1>3, AdvanceFacts DEF Converting
<1>5. IsFiniteSet(Converting(w)) /\ i \notin Converting(w)
  BY <1>1, ConvertingFinite DEF TaskTypes, Converting, ConvertingIn
<1>6. Cardinality(Converting(w)') = Cardinality(Converting(w)) + 1
  BY <1>4, <1>5, FS_AddElement
<1>7. Cardinality(Converting(w)) \in Nat
  BY <1>5, FS_CardinalityType
<1> QED
  BY <1>1, <1>2, <1>4, <1>6, <1>7, ExtractorAssumption DEF PoolFacts, PoolConserved

\* The task that put its converter back is no longer counted.
LEMMA ReturnKeepsPool ==
    ASSUME TaskTypes, PoolFacts, NEW w \in Workers, NEW i \in DOMAIN inflight[w],
           inflight[w][i].step = "converting", NEW step \in Steps, step # "converting",
           Advance(w, i, step), Returned(w, i)
    PROVE  PoolFacts'
<1>1. ASSUME NEW v \in Workers
      PROVE  Converting(v)' = IF v = w THEN Converting(v) \ {i} ELSE Converting(v)
  BY AdvanceFacts DEF Converting
<1>2. IsFiniteSet(Converting(w)) /\ i \in Converting(w)
  BY ConvertingFinite DEF TaskTypes, Converting, ConvertingIn
<1>3. Cardinality(Converting(w)') = Cardinality(Converting(w)) - 1
  BY <1>1, <1>2, FS_RemoveElement
<1>4. Cardinality(Converting(w)) \in Nat /\ Cardinality(Converting(w)') \in Nat
  BY <1>1, <1>2, FS_RemoveElement, FS_CardinalityType
<1> QED
  BY <1>1, <1>3, <1>4, ExtractorAssumption DEF Returned, PoolFacts, PoolConserved

-----------------------------------------------------------------------------
(* The tables and the store *)

\* complete records a document that has both artifacts, or finds it recorded.
LEMMA ResultKeepsTables ==
    ASSUME TableFacts, NEW w \in Workers, NEW d \in Documents, ~Unknown(d),
           Convertible(d),
           normalized[d] # NoRelease, manifest[d] # NoRelease,
           RecordResult(w, d), UNCHANGED artifacts
    PROVE  TableFacts' /\ StoreGrows /\ d \in processed'
<1> USE DEF TableFacts, artifacts
<1>1. CASE d \in processed
  BY <1>1
  DEF RecordResult, Claims, database, TableTypes, ClaimedOnce, OneHandoff,
      HandoffAgreesWithTables, ManifestDescribesDocument, StoreGrows
<1>2. CASE d \notin processed
  <2>1. /\ processed' = processed \cup {d}
        /\ extraction' = [extraction EXCEPT ![d] = Outcome(d)]
        /\ recorded' = [recorded EXCEPT ![d] = Release[w]]
        /\ docStatus' = [docStatus EXCEPT ![d] = StatusAfter(d)]
        /\ completed' = [completed EXCEPT ![d] = @ + 1]
        /\ rejected' = rejected
    BY <1>2 DEF RecordResult, Claims
  <2>2. completed[d] = 0 /\ rejected[d] = 0 /\ d \notin Unversioned
    BY <1>2 DEF ClaimedOnce, OneHandoff, TableTypes, Unknown, Claims
  <2>3. Release[w] \in Releases /\ Release[w] # NoRelease
    BY ExtractorAssumption DEF Releases
  <2>4. TableTypes'
    BY <2>1, <2>3 DEF TableTypes, Outcome, StatusAfter
  <2>5. ClaimedOnce'
    BY <1>2, <2>1, <2>2 DEF ClaimedOnce, OneHandoff, TableTypes
  <2>6. HandoffAgreesWithTables'
    BY <2>1, <2>2, <2>3 DEF HandoffAgreesWithTables, TableTypes, Outcome, StatusAfter
  <2>7. ManifestDescribesDocument' /\ StoreGrows /\ d \in processed'
    BY <2>1 DEF ManifestDescribesDocument, StoreGrows
  <2> QED
    BY <2>4, <2>5, <2>6, <2>7
<1> QED
  BY <1>1, <1>2

\* reject records a failure, or finds the event decided.
LEMMA RejectionKeepsTables ==
    ASSUME TableFacts, NEW d \in Documents, RecordRejection(d), UNCHANGED artifacts
    PROVE  TableFacts' /\ StoreGrows /\ d \in processed'
<1> USE DEF TableFacts, artifacts
<1>1. CASE d \in processed
  BY <1>1 DEF RecordRejection, Claims, database, TableTypes, ClaimedOnce, OneHandoff,
              HandoffAgreesWithTables, ManifestDescribesDocument, StoreGrows
<1>2. CASE d \notin processed
  <2>1. /\ processed' = processed \cup {d}
        /\ extraction' = [extraction EXCEPT ![d] = "failed"]
        /\ docStatus' = [docStatus EXCEPT ![d] = "failed"]
        /\ rejected' = [rejected EXCEPT ![d] = @ + 1]
        /\ recorded' = recorded /\ completed' = completed
    BY <1>2 DEF RecordRejection, Claims
  <2>2. completed[d] = 0 /\ rejected[d] = 0 /\ recorded[d] = NoRelease
    BY <1>2 DEF ClaimedOnce, OneHandoff, TableTypes
  <2>3. TableTypes'
    BY <2>1 DEF TableTypes
  <2>4. ClaimedOnce'
    BY <1>2, <2>1, <2>2 DEF ClaimedOnce, OneHandoff, TableTypes
  <2>5. HandoffAgreesWithTables'
    BY <2>1, <2>2 DEF HandoffAgreesWithTables, TableTypes
  <2>6. ManifestDescribesDocument' /\ StoreGrows /\ d \in processed'
    BY <2>1 DEF ManifestDescribesDocument, StoreGrows
  <2> QED
    BY <2>3, <2>4, <2>5, <2>6
<1> QED
  BY <1>1, <1>2

\* put_json may rewrite an artifact; it never removes one.
LEMMA ArtifactKeepsTables ==
    ASSUME TableFacts, UNCHANGED database, NEW w \in Workers, NEW d \in Documents,
           \/ PutNormalized(w, d) /\ UNCHANGED manifest
           \/ /\ normalized[d] # NoRelease /\ UNCHANGED normalized
              /\ manifest' = [manifest EXCEPT ![d] = Release[w]]
    PROVE  TableFacts' /\ StoreGrows
<1>1. Release[w] \in Releases /\ Release[w] # NoRelease
  BY ExtractorAssumption DEF Releases
<1>2. TableTypes'
  BY <1>1 DEF TableFacts, TableTypes, database, PutNormalized
<1>3. StoreGrows
  BY <1>1 DEF TableFacts, TableTypes, database, PutNormalized, StoreGrows
<1>4. ManifestDescribesDocument'
  BY <1>1 DEF TableFacts, TableTypes, ManifestDescribesDocument, PutNormalized
<1>5. ClaimedOnce'
  BY DEF TableFacts, ClaimedOnce, OneHandoff, database
<1>6. HandoffAgreesWithTables'
  BY <1>1, <1>3
  DEF TableFacts, TableTypes, HandoffAgreesWithTables, database, PutNormalized, StoreGrows
<1> QED
  BY <1>2, <1>3, <1>4, <1>5, <1>6 DEF TableFacts

\* Nothing is written.
LEMMA QuietKeepsTables ==
    ASSUME TableFacts, UNCHANGED <<database, artifacts>>
    PROVE  TableFacts' /\ StoreGrows
BY DEF TableFacts, TableTypes, ClaimedOnce, OneHandoff, HandoffAgreesWithTables,
       ManifestDescribesDocument,
       StoreGrows, database, artifacts

-----------------------------------------------------------------------------
(* The steps of a task *)

TaskPart == TaskTypes /\ TasksAgree /\ PoolFacts /\ TableFacts /\ FaultTypes

\* A task that goes on, outside a conversion, keeps all that the tables allow.
LEMMA MoveKeeps ==
    ASSUME TaskPart, NEW w \in Workers, NEW i \in DOMAIN inflight[w],
           NEW step \in Steps \ {"converting"}, inflight[w][i].step # "converting",
           Advance(w, i, step), UNCHANGED free, TableFacts', StoreGrows, FaultTypes',
           StepFact(DocumentOf(inflight[w][i]), step)'
    PROVE  TaskPart' /\ StoreGrows
BY AdvanceFacts, AdvanceAgrees, AdvanceKeepsPool DEF TaskPart

\* The budget of failures is not overdrawn.
LEMMA FaultKeeps ==
    ASSUME FaultTypes, NoFault \/ \E kind \in AllFaults : Fault(kind)
    PROVE  FaultTypes'
BY ExtractorAssumption DEF FaultTypes, NoFault, Fault

LEMMA GetKeeps ==
    ASSUME TaskPart, NEW w \in Workers, NEW i \in DOMAIN inflight[w], Get(w, i)
    PROVE  TaskPart' /\ StoreGrows
<1>1. PICK step \in {"waiting", "raised"} : Advance(w, i, step)
  BY DEF Get
<1>2. TableFacts' /\ StoreGrows
  BY QuietKeepsTables DEF Get, TaskPart
<1>3. FaultTypes'
  BY FaultKeeps DEF Get, TaskPart, AllFaults
<1>4. StepFact(DocumentOf(inflight[w][i]), step)'
  BY <1>1 DEF StepFact
<1> QED
  BY <1>1, <1>2, <1>3, <1>4, MoveKeeps DEF Get, AtStep, Steps

LEMMA TakeKeeps ==
    ASSUME TaskPart, NEW w \in Workers, NEW i \in DOMAIN inflight[w], TakeConverter(w, i)
    PROVE  TaskPart' /\ StoreGrows
<1>1. Advance(w, i, "converting") /\ "converting" \in Steps
  BY DEF TakeConverter, Steps
<1>2. TableFacts' /\ StoreGrows /\ FaultTypes'
  BY QuietKeepsTables DEF TakeConverter, TaskPart, FaultTypes
<1>3. StepFact(DocumentOf(inflight[w][i]), "converting")'
  BY DEF StepFact
<1> QED
  BY <1>1, <1>2, <1>3, AdvanceFacts, AdvanceAgrees, TakeKeepsPool DEF TaskPart

LEMMA ConvertKeeps ==
    ASSUME TaskPart, NEW w \in Workers, NEW i \in DOMAIN inflight[w], Convert(w, i)
    PROVE  TaskPart' /\ StoreGrows
<1> DEFINE d == DocumentOf(inflight[w][i])
<1>1. PICK step \in {"writing", "rejecting", "raised"} :
         /\ Advance(w, i, step)
         /\ step = "writing" => Convertible(d)
         /\ step = "rejecting" => Refusable(d) \/ "docling_error" \in FaultKinds
  BY DEF Convert, Fault
<1>2. TableFacts' /\ StoreGrows
  BY QuietKeepsTables DEF Convert, TaskPart
<1>3. FaultTypes'
  BY FaultKeeps DEF Convert, TaskPart, AllFaults
<1>4. d \in Documents
  BY TaskHasDocument DEF TaskPart
<1>6. step \in Steps /\ step # "converting"
  BY <1>1 DEF Steps
<1>0. d' = d
  BY <1>1, <1>6, AdvanceSameRecord DEF TaskPart
<1>5. StepFact(d, step)'
  BY <1>0, <1>1, <1>4 DEF StepFact, Rejectable, Acceptable, Convertible, Refusable
<1> HIDE DEF d
<1>7. TaskTypes' /\ TasksAgree'
  BY <1>1, <1>2, <1>5, <1>6, AdvanceFacts, AdvanceAgrees DEF TaskPart, d
<1>8. PoolFacts'
  BY <1>1, <1>6, ReturnKeepsPool DEF TaskPart, Convert, AtStep
<1> QED
  BY <1>2, <1>3, <1>7, <1>8 DEF TaskPart

LEMMA WriteNormalizedKeeps ==
    ASSUME TaskPart, NEW w \in Workers, NEW i \in DOMAIN inflight[w], WriteNormalized(w, i)
    PROVE  TaskPart' /\ StoreGrows
<1> DEFINE d == DocumentOf(inflight[w][i])
<1>1. inflight[w][i].step = "writing" /\ UNCHANGED <<free, database, manifest>>
  BY DEF WriteNormalized, AtStep
<1>2. d \in Documents /\ Convertible(d)
  BY <1>1, TaskHasDocument DEF TaskPart, TasksAgree, StepFact
<1>3. PICK step \in {"describing", "raised"} :
         /\ Advance(w, i, step)
         /\ PutNormalized(w, d) \/ (step = "raised" /\ UNCHANGED normalized)
  BY DEF WriteNormalized
<1>4. TableFacts' /\ StoreGrows
  BY <1>1, <1>2, <1>3, QuietKeepsTables, ArtifactKeepsTables DEF TaskPart, artifacts
<1>5. FaultTypes'
  BY FaultKeeps DEF WriteNormalized, TaskPart, AllFaults
<1>6. Release[w] # NoRelease
  BY ExtractorAssumption
<1>0. d' = d
  BY <1>3, AdvanceSameRecord DEF TaskPart, Steps
<1>7. StepFact(d, step)'
  BY <1>0, <1>2, <1>3, <1>6 DEF StepFact, PutNormalized, TaskPart, TableFacts, TableTypes
<1> QED
  BY <1>1, <1>3, <1>4, <1>5, <1>7, MoveKeeps DEF Steps

LEMMA WriteManifestKeeps ==
    ASSUME TaskPart, NEW w \in Workers, NEW i \in DOMAIN inflight[w], WriteManifest(w, i)
    PROVE  TaskPart' /\ StoreGrows
<1> DEFINE d == DocumentOf(inflight[w][i])
<1>1. inflight[w][i].step = "describing" /\ UNCHANGED <<free, database, normalized>>
  BY DEF WriteManifest, AtStep
<1>2. d \in Documents /\ Convertible(d) /\ normalized[d] # NoRelease
  BY <1>1, TaskHasDocument DEF TaskPart, TasksAgree, StepFact
<1>3. PICK step \in {"completing", "raised"} :
         /\ Advance(w, i, step)
         /\ \/ manifest' = [manifest EXCEPT ![d] = Release[w]]
            \/ step = "raised" /\ UNCHANGED manifest
  BY DEF WriteManifest
<1>4. TableFacts' /\ StoreGrows
  BY <1>1, <1>2, <1>3, QuietKeepsTables, ArtifactKeepsTables DEF TaskPart, artifacts
<1>5. FaultTypes'
  BY FaultKeeps DEF WriteManifest, TaskPart, AllFaults
<1>6. Release[w] # NoRelease
  BY ExtractorAssumption
<1>0. d' = d
  BY <1>3, AdvanceSameRecord DEF TaskPart, Steps
<1>7. StepFact(d, step)'
  BY <1>0, <1>1, <1>2, <1>3, <1>6 DEF StepFact, TaskPart, TableFacts, TableTypes
<1> QED
  BY <1>1, <1>3, <1>4, <1>5, <1>7, MoveKeeps DEF Steps

\* A transaction that keeps the tables and claims the event of its task.
LEMMA TransactionKeeps ==
    ASSUME TaskPart, NEW w \in Workers, NEW i \in DOMAIN inflight[w],
           inflight[w][i].step # "converting", UNCHANGED <<free, artifacts>>,
           NEW step \in {"done", "raised"}, Advance(w, i, step), FaultTypes',
           \/ UNCHANGED database /\ step = "raised"
           \/ TableFacts' /\ StoreGrows /\ DocumentOf(inflight[w][i]) \in processed'
    PROVE  TaskPart' /\ StoreGrows
<1>1. TableFacts' /\ StoreGrows
  BY QuietKeepsTables DEF TaskPart
<1>0. DocumentOf(inflight[w][i])' = DocumentOf(inflight[w][i])
  BY AdvanceSameRecord DEF TaskPart, Steps
<1>2. StepFact(DocumentOf(inflight[w][i]), step)'
  BY <1>0 DEF StepFact
<1> QED
  BY <1>1, <1>2, MoveKeeps DEF Steps

LEMMA CompleteKeeps ==
    ASSUME TaskPart, NEW w \in Workers, NEW i \in DOMAIN inflight[w], Complete(w, i)
    PROVE  TaskPart' /\ StoreGrows
<1> DEFINE d == DocumentOf(inflight[w][i])
<1>1. inflight[w][i].step = "completing" /\ UNCHANGED <<free, artifacts>>
  BY DEF Complete, AtStep
<1>2. /\ d \in Documents /\ Convertible(d)
      /\ normalized[d] # NoRelease /\ manifest[d] # NoRelease
  BY <1>1, TaskHasDocument DEF TaskPart, TasksAgree, StepFact
<1>3. FaultTypes'
  BY FaultKeeps DEF Complete, Transaction, RolledBack, TaskPart, AllFaults
<1>4. CASE Unknown(d)
  <2>1. Advance(w, i, "rejecting") /\ UNCHANGED database
    BY <1>4 DEF Complete, RolledBack
  <2>2. TableFacts' /\ StoreGrows
    BY <1>1, <2>1, QuietKeepsTables DEF TaskPart
  <2>0. d' = d
    BY <2>1, AdvanceSameRecord DEF TaskPart, Steps
  <2>3. StepFact(d, "rejecting")'
    BY <1>2, <1>4, <2>0 DEF StepFact, Unknown, Rejectable, Acceptable, Convertible, Refusable
  <2> QED
    BY <1>1, <1>3, <2>1, <2>2, <2>3, MoveKeeps DEF Steps
<1>5. CASE ~Unknown(d)
  <2>1. PICK step \in {"done", "raised"} :
           /\ Advance(w, i, step)
           /\ (UNCHANGED database /\ step = "raised") \/ RecordResult(w, d)
    BY <1>5 DEF Complete, Transaction, RolledBack
  <2>2. RecordResult(w, d) => TableFacts' /\ StoreGrows /\ d \in processed'
    BY <1>1, <1>2, <1>5, ResultKeepsTables DEF TaskPart
  <2> QED
    BY <1>1, <1>3, <2>1, <2>2, TransactionKeeps
<1> QED
  BY <1>4, <1>5

LEMMA RejectKeeps ==
    ASSUME TaskPart, NEW w \in Workers, NEW i \in DOMAIN inflight[w], Reject(w, i)
    PROVE  TaskPart' /\ StoreGrows
<1> DEFINE d == DocumentOf(inflight[w][i])
<1>1. inflight[w][i].step = "rejecting" /\ UNCHANGED <<free, artifacts>>
  BY DEF Reject, AtStep
<1>2. FaultTypes'
  BY FaultKeeps DEF Reject, Transaction, RolledBack, TaskPart, AllFaults
<1>3. PICK step \in {"done", "raised"} :
         /\ Advance(w, i, step)
         /\ (UNCHANGED database /\ step = "raised") \/ RecordRejection(d)
  BY DEF Reject, Transaction, RolledBack
<1>4. RecordRejection(d) => TableFacts' /\ StoreGrows /\ d \in processed'
  BY <1>1, TaskHasDocument, RejectionKeepsTables DEF TaskPart
<1> QED
  BY <1>1, <1>2, <1>3, <1>4, TransactionKeeps

\* No await of handle breaks what the stage has promised.
LEMMA TaskStepKeeps ==
    ASSUME TaskPart, NEW w \in Workers, NEW i \in DOMAIN inflight[w], TaskStep(w, i)
    PROVE  TaskPart' /\ StoreGrows /\ UNCHANGED <<group, loop>>
<1>1. UNCHANGED <<group, loop>>
  BY DEF TaskStep, Get, TakeConverter, Convert, WriteNormalized, WriteManifest, Complete, Reject
<1>2. TaskPart' /\ StoreGrows
  BY GetKeeps, TakeKeeps, ConvertKeeps, WriteNormalizedKeeps, WriteManifestKeeps, CompleteKeeps,
     RejectKeeps DEF TaskStep
<1> QED
  BY <1>1, <1>2

-----------------------------------------------------------------------------
(* The steps of the main loop and of the consumer group *)

\* Tasks that were there before, and new ones that have done nothing, agree
\* with tables that do not change.
KeptOrNew(v, j) ==
    \/ \E k \in DOMAIN inflight[v] :
          /\ inflight'[v][j].partition = inflight[v][k].partition
          /\ inflight'[v][j].offset = inflight[v][k].offset
          /\ inflight'[v][j].step = inflight[v][k].step
    \/ /\ inflight'[v][j].step = "getting"
       /\ inflight'[v][j].offset <= Len(Log[inflight'[v][j].partition])

LEMMA TasksKept ==
    ASSUME TaskTypes, TasksAgree, UNCHANGED <<database, artifacts>>,
           inflight' \in [Workers -> Seq(TaskRecords)],
           \A v \in Workers : \A j \in DOMAIN inflight'[v] : KeptOrNew(v, j)
    PROVE  TaskTypes' /\ TasksAgree'
<1>1. TaskTypes'
  <2> SUFFICES ASSUME NEW v \in Workers, NEW j \in DOMAIN inflight'[v]
               PROVE  inflight'[v][j].offset <= Len(Log[inflight'[v][j].partition])
    BY DEF TaskTypes
  <2> QED
    BY DEF TaskTypes, KeptOrNew
<1>2. TasksAgree'
  <2> SUFFICES ASSUME NEW v \in Workers, NEW j \in DOMAIN inflight'[v]
               PROVE  StepFact(DocumentOf(inflight[v][j]), inflight[v][j].step)'
    BY DEF TasksAgree
  <2>1. CASE inflight'[v][j].step = "getting"
    BY <2>1 DEF StepFact
  <2>2. ASSUME NEW k \in DOMAIN inflight[v],
               inflight'[v][j].partition = inflight[v][k].partition,
               inflight'[v][j].offset = inflight[v][k].offset,
               inflight'[v][j].step = inflight[v][k].step
        PROVE  StepFact(DocumentOf(inflight[v][j]), inflight[v][j].step)'
    <3>1. DocumentOf(inflight[v][j])' = DocumentOf(inflight[v][k])
      BY <2>2 DEF DocumentOf
    <3>2. StepFact(DocumentOf(inflight[v][k]), inflight[v][k].step)
      BY DEF TasksAgree
    <3> QED
      BY <2>2, <3>1, <3>2 DEF StepFact, database, artifacts
  <2> QED
    BY <2>1, <2>2 DEF KeptOrNew
<1> QED
  BY <1>1, <1>2

\* An ended worker has no task, a full pool and no partition.
LEMMA EndKeeps ==
    ASSUME LoopFacts, TaskTypes, TasksAgree, PoolFacts, UNCHANGED <<database, artifacts>>,
           NEW w \in Workers, WorkerEnds(w), UNCHANGED committed
    PROVE  LoopFacts' /\ TaskTypes' /\ TasksAgree' /\ PoolFacts'
<1>1. \A v \in Workers : inflight'[v] = IF v = w THEN <<>> ELSE inflight[v]
  BY DEF WorkerEnds, TaskTypes
<1>2. inflight' \in [Workers -> Seq(TaskRecords)]
  BY DEF WorkerEnds, TaskTypes
<1>0. DOMAIN inflight'[w] = {}
  <2>1. inflight'[w] \in Seq(TaskRecords) /\ Len(inflight'[w]) = 0
    BY <1>1, <1>2
  <2> QED
    BY <2>1
<1>3. TaskTypes' /\ TasksAgree'
  <2>1. \A v \in Workers : \A j \in DOMAIN inflight'[v] : KeptOrNew(v, j)
    BY <1>0, <1>1 DEF KeptOrNew
  <2> QED
    BY <1>2, <2>1, TasksKept
<1>4. PoolFacts'
  <2>1. \A v \in Workers \ {w} : Converting(v)' = Converting(v)
    BY <1>1 DEF Converting
  <2>0. Converting(w)' = {}
    BY <1>0 DEF Converting
  <2>2. Cardinality(Converting(w)') = 0
    BY <2>0, FS_EmptySet
  <2>3. free' = [free EXCEPT ![w] = MaxConcurrency]
    BY DEF WorkerEnds
  <2>4. free' \in [Workers -> 0..MaxConcurrency]
    BY <2>3, ExtractorAssumption DEF PoolFacts
  <2>5. ASSUME NEW v \in Workers
        PROVE  free'[v] + Cardinality(Converting(v)') = MaxConcurrency
    BY <2>1, <2>2, <2>3, ExtractorAssumption DEF PoolFacts, PoolConserved
  <2> QED
    BY <2>4, <2>5 DEF PoolFacts, PoolConserved
<1>5. LoopFacts'
  BY ExtractorAssumption
  DEF WorkerEnds, Goto, LoopFacts, GroupTypes, LoopTypes, HeldOnlyWhilePaused, Assigned
<1> QED
  BY <1>3, <1>4, <1>5

LEMMA SweepKeeps ==
    ASSUME LoopFacts, TaskTypes, TasksAgree, PoolFacts, NEW w \in Workers, Sweep(w)
    PROVE  LoopFacts' /\ TaskTypes' /\ TasksAgree' /\ PoolFacts'
<1>1. inflight[w] \in Seq(TaskRecords)
  BY DEF TaskTypes
<1>2. inflight'[w] = [i \in 1..Len(inflight[w]) |->
                        [inflight[w][i] EXCEPT !.seen = Finished(inflight[w][i])]]
  BY <1>1 DEF Sweep, TaskTypes
<1>3. ASSUME NEW i \in 1..Len(inflight[w])
      PROVE  /\ inflight'[w][i] \in TaskRecords
             /\ inflight'[w][i].partition = inflight[w][i].partition
             /\ inflight'[w][i].offset = inflight[w][i].offset
             /\ inflight'[w][i].step = inflight[w][i].step
  <2>1. inflight[w][i] \in TaskRecords
    BY <1>1
  <2>2. Finished(inflight[w][i]) \in BOOLEAN
    BY DEF Finished
  <2>3. inflight'[w][i] = [inflight[w][i] EXCEPT !.seen = Finished(inflight[w][i])]
    BY <1>2
  <2> QED
    BY <2>1, <2>2, <2>3 DEF TaskRecords
<1>4. inflight'[w] \in Seq(TaskRecords) /\ DOMAIN inflight'[w] = DOMAIN inflight[w]
  <2>1. Len(inflight[w]) \in Nat /\ DOMAIN inflight[w] = 1..Len(inflight[w])
    BY <1>1
  <2>2. inflight'[w] \in [1..Len(inflight[w]) -> TaskRecords]
    BY <1>2, <1>3
  <2> QED
    BY <2>1, <2>2
<1>5. \A v \in Workers \ {w} : inflight'[v] = inflight[v]
  BY DEF Sweep, TaskTypes
<1>6. inflight' \in [Workers -> Seq(TaskRecords)]
  BY <1>4, <1>5 DEF Sweep, TaskTypes
<1>7. \A v \in Workers : /\ DOMAIN inflight'[v] = DOMAIN inflight[v]
                         /\ \A i \in DOMAIN inflight[v] :
                               /\ inflight'[v][i].partition = inflight[v][i].partition
                               /\ inflight'[v][i].offset = inflight[v][i].offset
                               /\ inflight'[v][i].step = inflight[v][i].step
  BY <1>1, <1>3, <1>4, <1>5
<1>8. TaskTypes' /\ TasksAgree'
  <2>1. \A v \in Workers : \A j \in DOMAIN inflight'[v] : KeptOrNew(v, j)
    BY <1>7 DEF KeptOrNew
  <2> QED
    BY <1>6, <2>1, TasksKept DEF Sweep
<1>9. PoolFacts'
  <2>1. \A v \in Workers : Converting(v)' = Converting(v)
    BY <1>7 DEF Converting
  <2> QED
    BY <2>1 DEF PoolFacts, PoolConserved, Sweep
<1>10. LoopFacts'
  BY DEF Sweep, Goto, group, LoopFacts, GroupTypes, LoopTypes, HeldOnlyWhilePaused, Assigned
<1> QED
  BY <1>8, <1>9, <1>10

\* The task that is reaped.
LEMMA ReapedTask ==
    ASSUME TaskTypes, NEW w \in Workers, Seen(w) # {}
    PROVE  /\ Min(Seen(w)) \in 1..Len(inflight[w])
           /\ DOMAIN inflight[w] = 1..Len(inflight[w])
           /\ inflight[w] \in Seq(TaskRecords)
<1>1. inflight[w] \in Seq(TaskRecords)
  BY DEF TaskTypes
<1>2. Seen(w) \subseteq 1..Len(inflight[w])
  BY <1>1 DEF Seen
<1>3. Seen(w) \in SUBSET Nat
  BY <1>1, <1>2
<1> QED
  BY <1>1, <1>2, <1>3, MinIsLeast

LEMMA ReapKeeps ==
    ASSUME LoopFacts, TaskTypes, TasksAgree, PoolFacts, NEW w \in Workers, Reap(w)
    PROVE  LoopFacts' /\ TaskTypes' /\ TasksAgree' /\ PoolFacts'
<1> DEFINE i == Min(Seen(w))
           t == inflight[w][i]
<1>1. /\ i \in 1..Len(inflight[w]) /\ DOMAIN inflight[w] = 1..Len(inflight[w])
      /\ inflight[w] \in Seq(TaskRecords)
  BY ReapedTask DEF Reap
<1>2. /\ t.step = "done" /\ inflight' = [inflight EXCEPT ![w] = RemoveAt(@, i)]
      /\ committed' = [committed EXCEPT ![t.partition] = t.offset + 1]
  BY DEF Reap, Acknowledged
<1> HIDE DEF i
<1>3. /\ inflight'[w] = RemoveAt(inflight[w], i)
      /\ \A v \in Workers \ {w} : inflight'[v] = inflight[v]
  BY <1>2 DEF TaskTypes
<1>4. /\ inflight'[w] \in Seq(TaskRecords) /\ Len(inflight'[w]) = Len(inflight[w]) - 1
      /\ \A j \in 1..(Len(inflight[w]) - 1) :
            inflight'[w][j] = inflight[w][IF j < i THEN j ELSE j + 1]
  BY <1>1, <1>3, RemoveAtFacts
<1>5. inflight' \in [Workers -> Seq(TaskRecords)]
  BY <1>2, <1>3, <1>4 DEF TaskTypes
<1>6. TaskTypes' /\ TasksAgree'
  <2>1. ASSUME NEW j \in DOMAIN inflight'[w]
        PROVE  \E k \in DOMAIN inflight[w] : inflight'[w][j] = inflight[w][k]
    <3>1. j \in 1..(Len(inflight[w]) - 1)
      BY <1>4
    <3>2. (IF j < i THEN j ELSE j + 1) \in DOMAIN inflight[w]
      BY <1>1, <3>1
    <3> QED
      BY <1>4, <3>1, <3>2
  <2>2. \A v \in Workers : \A j \in DOMAIN inflight'[v] : KeptOrNew(v, j)
    BY <1>3, <2>1 DEF KeptOrNew
  <2>3. UNCHANGED <<database, artifacts>>
    BY DEF Reap
  <2> QED
    BY <1>5, <2>2, <2>3, TasksKept
<1>7. PoolFacts'
  <2>1. Cardinality(ConvertingIn(inflight'[w])) = Cardinality(ConvertingIn(inflight[w]))
    BY <1>1, <1>2, <1>3, RemoveKeepsConverting
  <2>2. \A v \in Workers : Cardinality(Converting(v)') = Cardinality(Converting(v))
    BY <1>3, <2>1 DEF Converting, ConvertingIn
  <2> QED
    BY <2>2 DEF PoolFacts, PoolConserved, Reap
<1>8. t \in TaskRecords /\ t.offset <= Len(Log[t.partition])
  BY <1>1 DEF TaskTypes
<1>9. Log[t.partition] \in Seq(Documents)
  BY <1>8, ExtractorAssumption DEF TaskRecords
<1>10. /\ t.partition \in Partitions /\ t.offset + 1 \in Nat \ {0}
       /\ t.offset + 1 <= Len(Log[t.partition]) + 1
  BY <1>8, <1>9 DEF TaskRecords
<1> HIDE DEF t
<1>11. committed' \in [Partitions -> Nat \ {0}]
  BY <1>2, <1>10 DEF LoopFacts, GroupTypes
<1>12. \A p \in Partitions : committed'[p] <= Len(Log[p]) + 1
  BY <1>2, <1>10 DEF LoopFacts, GroupTypes
<1>13. LoopFacts'
  BY <1>11, <1>12
  DEF Reap, loop, LoopFacts, GroupTypes, LoopTypes, HeldOnlyWhilePaused, Assigned
<1> QED
  BY <1>6, <1>7, <1>13

LEMMA ReapRaisesKeeps ==
    ASSUME LoopFacts, TaskTypes, TasksAgree, PoolFacts, NEW w \in Workers, ReapRaises(w)
    PROVE  LoopFacts' /\ TaskTypes' /\ TasksAgree' /\ PoolFacts'
BY EndKeeps DEF ReapRaises

LEMMA ResumeKeeps ==
    ASSUME LoopFacts, TaskTypes, TasksAgree, PoolFacts, NEW w \in Workers, Resume(w)
    PROVE  LoopFacts' /\ TaskTypes' /\ TasksAgree' /\ PoolFacts'
<1>1. UNCHANGED <<group, tasks, database, artifacts>>
  BY DEF Resume
<1>2. TaskTypes' /\ TasksAgree' /\ PoolFacts'
  BY <1>1 DEF tasks, database, artifacts, TaskTypes, TasksAgree, StepFact, DocumentOf, PoolFacts,
              PoolConserved, Converting
<1>3. GroupTypes'
  BY <1>1 DEF group, LoopFacts, GroupTypes
<1>4. pc' = [pc EXCEPT ![w] = "polling"]
  BY DEF Resume, Goto
<1>5. CASE ResumeAssigned(w) /\ paused' = [paused EXCEPT ![w] = FALSE]
  <2>1. \A v \in Workers : Assigned(v)' = Assigned(v)
    BY <1>1 DEF group, Assigned
  <2>2. \A v \in Workers : held'[v] = IF v = w THEN held[w] \ Assigned(w) ELSE held[v]
    BY <1>5 DEF ResumeAssigned, LoopFacts, LoopTypes
  <2>3. \A v \in Workers \ {w} : paused'[v] = paused[v]
    BY <1>5 DEF LoopFacts, LoopTypes
  <2>4. \A v \in Workers \ {w} : held[v] \cap Assigned(v) # {} => paused[v]
    BY DEF LoopFacts, HeldOnlyWhilePaused
  <2>6. (held[w] \ Assigned(w)) \cap Assigned(w) = {}
    OBVIOUS
  <2>7. ASSUME NEW v \in Workers, held'[v] \cap Assigned(v)' # {}
        PROVE  paused'[v]
    <3>1. v # w
      BY <2>1, <2>2, <2>6, <2>7
    <3>2. held'[v] = held[v] /\ Assigned(v)' = Assigned(v)
      BY <2>1, <2>2, <3>1
    <3> QED
      BY <2>3, <2>4, <2>7, <3>1, <3>2
  <2>8. HeldOnlyWhilePaused'
    BY <2>7 DEF HeldOnlyWhilePaused
  <2>5. LoopTypes'
    BY <1>4, <1>5 DEF ResumeAssigned, LoopFacts, LoopTypes
  <2> QED
    BY <1>2, <1>3, <2>5, <2>8 DEF LoopFacts
<1>6. CASE UNCHANGED <<held, paused>>
  <2>1. LoopTypes'
    BY <1>4, <1>6 DEF LoopFacts, LoopTypes
  <2>0. \A v \in Workers : Assigned(v)' = Assigned(v)
    BY <1>1 DEF group, Assigned
  <2>2. HeldOnlyWhilePaused'
    BY <1>6, <2>0 DEF LoopFacts, HeldOnlyWhilePaused
  <2> QED
    BY <1>2, <1>3, <2>1, <2>2 DEF LoopFacts
<1> QED
  BY <1>2, <1>5, <1>6 DEF Resume

\* A record that is polled gets a task at the end of the dict.
LEMMA PolledTask ==
    ASSUME LoopFacts, TaskTypes, NEW w \in Workers, NEW p \in Fetchable(w),
           inflight' = [inflight EXCEPT ![w] = Append(@,
               [partition |-> p, offset |-> position[w][p], step |-> "getting", seen |-> FALSE])]
    PROVE  /\ inflight' \in [Workers -> Seq(TaskRecords)]
           /\ p \in Partitions /\ position[w][p] \in 1..Len(Log[p])
           /\ \A v \in Workers \ {w} : inflight'[v] = inflight[v]
           /\ DOMAIN inflight[w] = 1..Len(inflight[w])
           /\ DOMAIN inflight'[w] = 1..(Len(inflight[w]) + 1)
           /\ \A i \in 1..Len(inflight[w]) : inflight'[w][i] = inflight[w][i]
           /\ LET t == inflight'[w][Len(inflight[w]) + 1]
              IN  t.partition = p /\ t.offset = position[w][p] /\ t.step = "getting"
<1> DEFINE t == [partition |-> p, offset |-> position[w][p], step |-> "getting", seen |-> FALSE]
<1>1. p \in Partitions /\ position[w][p] \in Nat \ {0} /\ position[w][p] <= Len(Log[p])
  BY DEF Fetchable, Assigned, LoopFacts, GroupTypes
<1>2. Log[p] \in Seq(Documents)
  BY <1>1, ExtractorAssumption
<1>3. t \in TaskRecords
  BY <1>1 DEF TaskRecords, Steps
<1>4. t.partition = p /\ t.offset = position[w][p] /\ t.step = "getting"
  OBVIOUS
<1> HIDE DEF t
<1>5. inflight[w] \in Seq(TaskRecords) /\ inflight'[w] = Append(inflight[w], t)
  BY DEF TaskTypes, t
<1>6. /\ inflight'[w] \in Seq(TaskRecords)
      /\ DOMAIN inflight[w] = 1..Len(inflight[w])
      /\ DOMAIN inflight'[w] = 1..(Len(inflight[w]) + 1)
      /\ \A i \in 1..Len(inflight[w]) : inflight'[w][i] = inflight[w][i]
      /\ inflight'[w][Len(inflight[w]) + 1] = t
  <2> DEFINE s == inflight[w]
  <2>1. s \in Seq(TaskRecords) /\ inflight'[w] = Append(s, t)
    BY <1>5
  <2> HIDE DEF s
  <2>2. /\ Append(s, t) \in Seq(TaskRecords)
        /\ Len(Append(s, t)) = Len(s) + 1
        /\ \A i \in 1..Len(s) : Append(s, t)[i] = s[i]
        /\ Append(s, t)[Len(s) + 1] = t
    BY <1>3, <2>1, AppendProperties
  <2>3. DOMAIN s = 1..Len(s) /\ DOMAIN Append(s, t) = 1..(Len(s) + 1)
    BY <2>1, <2>2, LenProperties
  <2> QED
    BY <2>1, <2>2, <2>3 DEF s
<1>7. \A v \in Workers \ {w} : inflight'[v] = inflight[v]
  BY DEF TaskTypes
<1>8. inflight' \in [Workers -> Seq(TaskRecords)]
  BY <1>6, <1>7 DEF TaskTypes
<1> QED
  BY <1>1, <1>2, <1>4, <1>6, <1>7, <1>8

LEMMA PollKeeps ==
    ASSUME LoopFacts, TaskTypes, TasksAgree, PoolFacts, NEW w \in Workers, Poll(w)
    PROVE  LoopFacts' /\ TaskTypes' /\ TasksAgree' /\ PoolFacts'
<1>1. PICK p \in Fetchable(w) :
         /\ inflight' = [inflight EXCEPT ![w] = Append(@,
               [partition |-> p, offset |-> position[w][p], step |-> "getting", seen |-> FALSE])]
         /\ position' = [position EXCEPT ![w][p] = @ + 1]
  BY DEF Poll
<1>2. /\ inflight' \in [Workers -> Seq(TaskRecords)]
      /\ p \in Partitions /\ position[w][p] \in 1..Len(Log[p])
      /\ \A v \in Workers \ {w} : inflight'[v] = inflight[v]
      /\ DOMAIN inflight[w] = 1..Len(inflight[w])
      /\ DOMAIN inflight'[w] = 1..(Len(inflight[w]) + 1)
      /\ \A i \in 1..Len(inflight[w]) : inflight'[w][i] = inflight[w][i]
      /\ inflight'[w][Len(inflight[w]) + 1].partition = p
      /\ inflight'[w][Len(inflight[w]) + 1].offset = position[w][p]
      /\ inflight'[w][Len(inflight[w]) + 1].step = "getting"
  BY <1>1, PolledTask
<1>3. Len(inflight[w]) \in Nat
  BY DEF TaskTypes
<1>4. TaskTypes' /\ TasksAgree'
  <2>1. ASSUME NEW j \in DOMAIN inflight'[w] PROVE KeptOrNew(w, j)
    <3>1. CASE j = Len(inflight[w]) + 1
      BY <1>2, <3>1 DEF KeptOrNew
    <3>2. CASE j \in 1..Len(inflight[w])
      BY <1>2, <3>2 DEF KeptOrNew
    <3> QED
      BY <1>2, <1>3, <3>1, <3>2
  <2>2. ASSUME NEW v \in Workers \ {w}, NEW j \in DOMAIN inflight'[v] PROVE KeptOrNew(v, j)
    BY <1>2 DEF KeptOrNew
  <2>3. \A v \in Workers : \A j \in DOMAIN inflight'[v] : KeptOrNew(v, j)
    BY <2>1, <2>2
  <2>4. UNCHANGED <<database, artifacts>>
    BY DEF Poll
  <2> QED
    BY <1>2, <2>3, <2>4, TasksKept
<1>5. PoolFacts'
  <2>1. Converting(w)' = Converting(w)
    BY <1>2, <1>3 DEF Converting
  <2>2. \A v \in Workers : Converting(v)' = Converting(v)
    BY <1>2, <2>1 DEF Converting
  <2> QED
    BY <2>2 DEF Poll, PoolFacts, PoolConserved
<1>6. GroupTypes'
  <2>1. /\ position' \in [Workers -> [Partitions -> Nat \ {0}]]
        /\ \A v \in Workers : \A q \in Partitions :
              position'[v][q] = IF v = w /\ q = p THEN position[w][p] + 1 ELSE position[v][q]
    BY <1>1, <1>2 DEF LoopFacts, GroupTypes
  <2>2. Len(Log[p]) \in Nat
    BY <1>2, ExtractorAssumption
  <2> QED
    BY <1>2, <2>1, <2>2 DEF Poll, LoopFacts, GroupTypes
<1>7. LoopTypes' /\ HeldOnlyWhilePaused'
  <2>1. CASE held' = [held EXCEPT ![w] = Assigned(w)] /\ paused' = [paused EXCEPT ![w] = TRUE]
    BY <2>1 DEF Poll, Goto, LoopFacts, LoopTypes, HeldOnlyWhilePaused, Assigned
  <2>2. CASE UNCHANGED <<held, paused>>
    BY <2>2 DEF Poll, Goto, LoopFacts, LoopTypes, HeldOnlyWhilePaused, Assigned
  <2> QED
    BY <2>1, <2>2 DEF Poll
<1> QED
  BY <1>4, <1>5, <1>6, <1>7 DEF LoopFacts

\* Steps that leave the tasks alone.
LEMMA LoopOnlyKeeps ==
    ASSUME LoopFacts, TaskTypes, TasksAgree, PoolFacts, NEW w \in Workers,
           PollEmpty(w) \/ Restart(w) \/ \E p \in Partitions : Assign(w, p)
    PROVE  LoopFacts' /\ TaskTypes' /\ TasksAgree' /\ PoolFacts'
<1>1. UNCHANGED <<tasks, database, artifacts>>
  BY DEF PollEmpty, Restart, Assign
<1>2. TaskTypes' /\ TasksAgree' /\ PoolFacts'
  BY <1>1 DEF tasks, database, artifacts, TaskTypes, TasksAgree, StepFact, DocumentOf, PoolFacts,
              PoolConserved, Converting
<1>3. CASE PollEmpty(w) \/ Restart(w)
  <2>1. UNCHANGED <<group, held, paused>> /\ pc' = [pc EXCEPT ![w] = "sweeping"]
    BY <1>3 DEF PollEmpty, Restart, Goto
  <2>2. GroupTypes' /\ LoopTypes'
    BY <2>1 DEF group, LoopFacts, GroupTypes, LoopTypes
  <2>3. \A v \in Workers : Assigned(v)' = Assigned(v)
    BY <2>1 DEF group, Assigned
  <2>4. HeldOnlyWhilePaused'
    BY <2>1, <2>3 DEF LoopFacts, HeldOnlyWhilePaused
  <2> QED
    BY <1>2, <2>2, <2>4 DEF LoopFacts
<1>4. ASSUME NEW p \in Partitions, Assign(w, p)
      PROVE  LoopFacts'
  <2>1. GroupTypes'
    BY <1>4 DEF Assign, LoopFacts, GroupTypes
  <2>2. LoopTypes'
    BY <1>4 DEF Assign, LoopFacts, LoopTypes
  <2>3. HeldOnlyWhilePaused'
    BY <1>4 DEF Assign, LoopFacts, GroupTypes, LoopTypes, HeldOnlyWhilePaused, Assigned
  <2> QED
    BY <2>1, <2>2, <2>3 DEF LoopFacts
<1> QED
  BY <1>2, <1>3, <1>4

-----------------------------------------------------------------------------
(* The inductive invariant *)

LEMMA InitEstablishes == Init => IInv
<1> SUFFICES ASSUME Init PROVE IInv
  OBVIOUS
<1> USE ExtractorAssumption DEF Init
<1>1. LoopFacts
  BY DEF LoopFacts, GroupTypes, LoopTypes, HeldOnlyWhilePaused
<1>2. \A w \in Workers : inflight[w] = <<>> /\ DOMAIN inflight[w] = {}
  OBVIOUS
<1>3. TaskTypes /\ TasksAgree
  BY <1>2 DEF TaskTypes, TasksAgree
<1>4. \A w \in Workers : Converting(w) = {}
  BY <1>2 DEF Converting
<1>5. PoolFacts
  <2>1. \A w \in Workers : Cardinality(Converting(w)) = 0
    BY <1>4, FS_EmptySet
  <2> QED
    BY <2>1 DEF PoolFacts, PoolConserved
<1>6. TableFacts
  BY DEF TableFacts, TableTypes, Releases, ClaimedOnce, OneHandoff, HandoffAgreesWithTables,
         ManifestDescribesDocument
<1>7. FaultTypes
  BY DEF FaultTypes
<1> QED
  BY <1>1, <1>3, <1>5, <1>6, <1>7, IInvParts

\* Every step but those of the tasks leaves the tables and the store alone.
LEMMA QuietSteps ==
    ASSUME NEW w \in Workers,
           LoopStep(w) \/ Crash(w) \/ Restart(w) \/ \E p \in Partitions : Assign(w, p)
    PROVE  UNCHANGED <<database, artifacts>>
BY DEF LoopStep, Sweep, Reap, ReapRaises, Resume, Poll, PollEmpty, Crash, Restart, Assign

LEMMA StepPreserves ==
    ASSUME IInv, [Next]_vars
    PROVE  IInv' /\ StoreGrows
<1>0. LoopFacts /\ TaskTypes /\ TasksAgree /\ PoolFacts /\ TableFacts /\ FaultTypes
  BY IInvParts
<1> SUFFICES LoopFacts' /\ TaskTypes' /\ TasksAgree' /\ PoolFacts' /\ TableFacts' /\ FaultTypes'
             /\ StoreGrows
  BY DEF IInv, TypeOK, LoopFacts, GroupTypes, LoopTypes, TaskTypes, PoolFacts, TableFacts,
         TableTypes, FaultTypes
<1>1. ASSUME NEW w \in Workers, NEW i \in DOMAIN inflight[w], TaskStep(w, i)
      PROVE  /\ LoopFacts' /\ TaskTypes' /\ TasksAgree' /\ PoolFacts' /\ TableFacts'
             /\ FaultTypes' /\ StoreGrows
  <2>1. TaskPart' /\ StoreGrows /\ UNCHANGED <<group, loop>>
    BY <1>0, <1>1, TaskStepKeeps DEF TaskPart
  <2>2. \A v \in Workers : Assigned(v)' = Assigned(v)
    BY <2>1 DEF group, Assigned
  <2>3. LoopFacts'
    BY <1>0, <2>1, <2>2 DEF group, loop, LoopFacts, GroupTypes, LoopTypes, HeldOnlyWhilePaused
  <2> QED
    BY <2>1, <2>3 DEF TaskPart
<1>2. ASSUME NEW w \in Workers,
             LoopStep(w) \/ Crash(w) \/ Restart(w) \/ \E p \in Partitions : Assign(w, p)
      PROVE  /\ LoopFacts' /\ TaskTypes' /\ TasksAgree' /\ PoolFacts' /\ TableFacts'
             /\ FaultTypes' /\ StoreGrows
  <2>1. TableFacts' /\ StoreGrows
    BY <1>0, <1>2, QuietSteps, QuietKeepsTables
  <2>2. FaultTypes'
    BY <1>0, <1>2, FaultKeeps
    DEF LoopStep, Sweep, Reap, ReapRaises, Resume, Poll, PollEmpty, Crash, Restart, Assign,
        NoFault, AllFaults
  <2>3. CASE Crash(w)
    BY <1>0, <2>1, <2>2, <2>3, EndKeeps DEF Crash
  <2>4. CASE LoopStep(w) \/ Restart(w) \/ \E p \in Partitions : Assign(w, p)
    BY <1>0, <2>1, <2>2, <2>4, SweepKeeps, ReapKeeps, ReapRaisesKeeps, ResumeKeeps, PollKeeps,
       LoopOnlyKeeps DEF LoopStep
  <2> QED
    BY <1>2, <2>3, <2>4
<1>3. CASE UNCHANGED vars
  <2>1. UNCHANGED <<group, loop, tasks, database, artifacts, faults>>
    BY <1>3 DEF vars
  <2>2. \A v \in Workers : Assigned(v)' = Assigned(v) /\ Converting(v)' = Converting(v)
    BY <2>1 DEF group, tasks, Assigned, Converting
  <2>3. LoopFacts'
    BY <1>0, <2>1, <2>2 DEF group, loop, LoopFacts, GroupTypes, LoopTypes, HeldOnlyWhilePaused
  <2>4. TaskTypes' /\ TasksAgree'
    BY <1>0, <2>1 DEF tasks, database, artifacts, TaskTypes, TasksAgree, StepFact, DocumentOf
  <2>5. PoolFacts' /\ FaultTypes'
    BY <1>0, <2>1, <2>2 DEF tasks, PoolFacts, PoolConserved, FaultTypes
  <2> QED
    BY <1>0, <2>1, <2>3, <2>4, <2>5, QuietKeepsTables
<1> QED
  BY <1>1, <1>2, <1>3 DEF Next

-----------------------------------------------------------------------------

\* IInv holds in every reachable state: what a task knows stays true while it
\* waits, whatever the other tasks and workers commit.
THEOREM InductiveInvariant == Spec => []IInv
<1>1. Init => IInv
  BY InitEstablishes
<1>2. IInv /\ [Next]_vars => IInv'
  BY StepPreserves
<1> QED
  BY <1>1, <1>2, PTL DEF Spec

\* Types are kept by every step, with the offsets inside the log.
THEOREM TypeCorrect == Spec => []TypeOK
<1>1. IInv => TypeOK
  BY DEF IInv
<1> QED
  BY <1>1, InductiveInvariant, PTL

\* complete and reject: what is handed on agrees with the tables and the store.
THEOREM HandoffsAgree == Spec => []HandoffAgreesWithTables
<1>1. IInv => HandoffAgreesWithTables
  BY DEF IInv
<1> QED
  BY <1>1, InductiveInvariant, PTL

\* A document's extraction is decided once, by one claim and one outbox row,
\* whichever workers extract it at the same time and whatever they make of it.
THEOREM HandedOnOnce == Spec => []OneHandoff
<1>1. IInv => OneHandoff
  BY DEF IInv, ClaimedOnce
<1> QED
  BY <1>1, InductiveInvariant, PTL

\* handle writes the manifest after the document that it describes.
THEOREM ManifestsDescribe == Spec => []ManifestDescribesDocument
<1>1. IInv => ManifestDescribesDocument
  BY DEF IInv
<1> QED
  BY <1>1, InductiveInvariant, PTL

\* The finally block of the extractor loses no converter and shares none.
THEOREM PoolIsConserved == Spec => []PoolConserved
<1>1. IInv => PoolConserved
  BY DEF IInv
<1> QED
  BY <1>1, InductiveInvariant, PTL

\* _run never holds a partition of its own back without the paused flag.
THEOREM PauseIsRemembered == Spec => []HeldOnlyWhilePaused
<1>1. IInv => HeldOnlyWhilePaused
  BY DEF IInv
<1> QED
  BY <1>1, InductiveInvariant, PTL

-----------------------------------------------------------------------------
(* Refinement: Extractor implements IdempotentConsumer. *)

\* A transaction of the repository decides its event as the document deserves,
\* or finds it decided.
LEMMA DecisionRefines ==
    ASSUME TableFacts, NEW w \in Workers, NEW d \in Documents,
           \/ RecordResult(w, d) /\ ~Unknown(d) /\ Convertible(d)
           \/ RecordRejection(d) /\ d \in Rejectable
    PROVE  [Consumer!Next]_(Consumer!vars)
<1>1. CASE d \in processed
  BY <1>1 DEF RecordResult, RecordRejection, Claims, database, Consumer!vars
<1>2. CASE d \notin processed
  <2>1. Consumer!Undecided(d)
    BY <1>2 DEF TableFacts, TableTypes, ClaimedOnce, OneHandoff, Consumer!Undecided
  <2>2. CASE RecordResult(w, d) /\ ~Unknown(d) /\ Convertible(d)
    <3>1. d \in Acceptable
      BY <1>2, <2>2 DEF Unknown, Claims, Acceptable
    <3> QED
      BY <1>2, <2>1, <2>2, <3>1 DEF RecordResult, Claims, Consumer!Accept, Consumer!Next
  <2>3. CASE RecordRejection(d) /\ d \in Rejectable
    BY <1>2, <2>1, <2>3 DEF RecordRejection, Claims, Consumer!Reject, Consumer!Next
  <2> QED
    BY <2>2, <2>3
<1> QED
  BY <1>1, <1>2

LEMMA StepRefines ==
    ASSUME IInv, [Next]_vars
    PROVE  [Consumer!Next]_(Consumer!vars)
<1>0. LoopFacts /\ TaskTypes /\ TasksAgree /\ PoolFacts /\ TableFacts /\ FaultTypes
  BY IInvParts
<1>1. ASSUME UNCHANGED database  PROVE  UNCHANGED Consumer!vars
  BY <1>1 DEF database, Consumer!vars
<1>2. ASSUME NEW w \in Workers, NEW i \in DOMAIN inflight[w], Complete(w, i) \/ Reject(w, i)
      PROVE  [Consumer!Next]_(Consumer!vars)
  <2> DEFINE d == DocumentOf(inflight[w][i])
  <2>1. d \in Documents
    BY <1>0, TaskHasDocument
  <2>2. StepFact(d, inflight[w][i].step)
    BY <1>0 DEF TasksAgree
  <2>3. CASE Complete(w, i)
    <3>1. Convertible(d)
      BY <2>2, <2>3 DEF Complete, AtStep, StepFact
    <3>2. UNCHANGED database \/ (RecordResult(w, d) /\ ~Unknown(d))
      BY <2>3 DEF Complete, Transaction, RolledBack
    <3> QED
      BY <1>0, <1>1, <2>1, <3>1, <3>2, DecisionRefines
  <2>4. CASE Reject(w, i)
    <3>1. d \in Rejectable
      BY <2>2, <2>4 DEF Reject, AtStep, StepFact
    <3>2. UNCHANGED database \/ RecordRejection(d)
      BY <2>4 DEF Reject, Transaction, RolledBack
    <3> QED
      BY <1>0, <1>1, <2>1, <3>1, <3>2, DecisionRefines
  <2> QED
    BY <1>2, <2>3, <2>4
<1>3. ASSUME NEW w \in Workers, NEW i \in DOMAIN inflight[w], TaskStep(w, i)
      PROVE  [Consumer!Next]_(Consumer!vars)
  BY <1>1, <1>2, <1>3 DEF TaskStep, Get, TakeConverter, Convert, WriteNormalized, WriteManifest
<1>4. CASE UNCHANGED vars
  BY <1>1, <1>4 DEF vars
<1> QED
  BY <1>1, <1>3, <1>4, QuietSteps DEF Next

\* The extraction stage decides each event once and as its document deserves,
\* for any workers and slots, any log with any duplicates, and any failures.
THEOREM ExtractorDecidesOnce == Spec => DecidesEachEventOnce
<1>1. Init => Consumer!Init
  BY DEF Init, Consumer!Init
<1>2. IInv /\ [Next]_vars => [Consumer!Next]_(Consumer!vars)
  BY StepRefines
<1> QED
  BY <1>1, <1>2, InductiveInvariant, PTL DEF Spec, DecidesEachEventOnce, Consumer!Spec

-----------------------------------------------------------------------------
(* One slot: the records of a partition are processed in order. *)



\* A worker whose tasks, positions and pauses do not change keeps its order, if
\* it is assigned nothing new.
LEMMA UntouchedKeepsOrder ==
    ASSUME NEW w \in Workers, OrderOf(w), processed \subseteq processed',
           UNCHANGED <<inflight[w], held[w], position[w]>>,
           Assigned(w)' \subseteq Assigned(w)
    PROVE  OrderOf(w)'
BY DEF OrderOf, ProcessedBefore, HasTaskOf

LEMMA TaskStepKeepsOrder ==
    ASSUME TaskPart, InOrder, NEW w \in Workers, NEW i \in DOMAIN inflight[w], TaskStep(w, i)
    PROVE  InOrder'
<1>1. UNCHANGED <<group, loop>> /\ processed \subseteq processed'
  BY TaskStepKeeps DEF StoreGrows
<1>2. PICK step \in Steps : Advance(w, i, step)
  BY DEF TaskStep, Get, TakeConverter, Convert, WriteNormalized, WriteManifest, Complete, Reject,
         Transaction, RolledBack, Steps
<1>3. \A v \in Workers :
         /\ DOMAIN inflight'[v] = DOMAIN inflight[v]
         /\ \A j \in DOMAIN inflight[v] :
               /\ inflight'[v][j].partition = inflight[v][j].partition
               /\ inflight'[v][j].offset = inflight[v][j].offset
  BY <1>2, AdvanceFacts DEF TaskPart
<1>4. ASSUME NEW v \in Workers, NEW p, NEW o, HasTaskOf(v, p, o)
      PROVE  HasTaskOf(v, p, o)'
  BY <1>3, <1>4 DEF HasTaskOf
<1>5. \A p, n : ProcessedBefore(p, n) => ProcessedBefore(p, n)'
  BY <1>1 DEF ProcessedBefore
<1>6. ASSUME NEW v \in Workers, NEW j \in DOMAIN inflight'[v]
      PROVE  \A o \in 1..(inflight'[v][j].offset - 1) :
                Log[inflight'[v][j].partition][o] \in processed'
  BY <1>1, <1>3 DEF InOrder, OrderOf, ProcessedBefore
<1>7. ASSUME NEW v \in Workers, NEW p \in Assigned(v)'
      PROVE  /\ p \notin held'[v] => \A o \in 1..(position'[v][p] - 1) : Log[p][o] \in processed'
             /\ \A o \in 1..(position'[v][p] - 1) :
                   Log[p][o] \in processed' \/ HasTaskOf(v, p, o)'
  <2>1. p \in Assigned(v)
    BY <1>1 DEF group, Assigned
  <2> QED
    BY <1>1, <1>4, <2>1 DEF group, loop, InOrder, OrderOf, ProcessedBefore
<1> QED
  BY <1>6, <1>7 DEF InOrder, OrderOf, ProcessedBefore

\* The same holds when only tasks whose record is processed disappear.
LEMMA LoopKeepsOrder ==
    ASSUME NEW w \in Workers, OrderOf(w), UNCHANGED <<processed, held[w], position[w]>>,
           Assigned(w)' \subseteq Assigned(w),
           \A j \in DOMAIN inflight'[w] : \E k \in DOMAIN inflight[w] :
              /\ inflight'[w][j].partition = inflight[w][k].partition
              /\ inflight'[w][j].offset = inflight[w][k].offset,
           \A k \in DOMAIN inflight[w] :
              \/ DocumentOf(inflight[w][k]) \in processed
              \/ \E j \in DOMAIN inflight'[w] :
                    /\ inflight'[w][j].partition = inflight[w][k].partition
                    /\ inflight'[w][j].offset = inflight[w][k].offset
    PROVE  OrderOf(w)'
<1>1. ASSUME NEW j \in DOMAIN inflight'[w]
      PROVE  ProcessedBefore(inflight[w][j].partition, inflight[w][j].offset)'
  BY DEF OrderOf, ProcessedBefore
<1>2. ASSUME NEW p \in Assigned(w)', NEW o \in 1..(position'[w][p] - 1)
      PROVE  Log[p][o] \in processed' \/ HasTaskOf(w, p, o)'
  <2>1. Log[p][o] \in processed \/ HasTaskOf(w, p, o)
    BY DEF OrderOf
  <2>2. ASSUME NEW k \in DOMAIN inflight[w],
               inflight[w][k].partition = p, inflight[w][k].offset = o
        PROVE  Log[p][o] \in processed \/ HasTaskOf(w, p, o)'
    BY <2>2 DEF HasTaskOf, DocumentOf
  <2> QED
    BY <2>1, <2>2 DEF HasTaskOf
<1> QED
  BY <1>1, <1>2 DEF OrderOf, ProcessedBefore

LEMMA ReapKeepsOrder ==
    ASSUME LoopFacts, TaskTypes, TasksAgree, InOrder, AcknowledgedIsProcessed,
           NEW w \in Workers, Reap(w)
    PROVE  InOrder' /\ AcknowledgedIsProcessed'
<1> DEFINE i == Min(Seen(w))
           t == inflight[w][i]
           s == inflight[w]
<1>1. i \in 1..Len(s) /\ DOMAIN s = 1..Len(s) /\ s \in Seq(TaskRecords)
  BY ReapedTask DEF Reap
<1>2. /\ t.step = "done" /\ inflight' = [inflight EXCEPT ![w] = RemoveAt(@, i)]
      /\ committed' = [committed EXCEPT ![t.partition] = t.offset + 1]
      /\ UNCHANGED <<owner, position, held, processed>>
  BY DEF Reap, Acknowledged, loop, database
<1>3. t \in TaskRecords /\ DocumentOf(t) \in processed
  BY <1>1, <1>2 DEF TasksAgree, StepFact
<1> HIDE DEF i
<1>4. inflight'[w] = RemoveAt(s, i) /\ \A v \in Workers \ {w} : inflight'[v] = inflight[v]
  BY <1>2 DEF TaskTypes
<1>5. /\ DOMAIN inflight'[w] = 1..(Len(s) - 1)
      /\ \A j \in 1..(Len(s) - 1) : inflight'[w][j] = s[IF j < i THEN j ELSE j + 1]
  <2>1. /\ RemoveAt(s, i) \in Seq(TaskRecords) /\ Len(RemoveAt(s, i)) = Len(s) - 1
        /\ \A j \in 1..(Len(s) - 1) : RemoveAt(s, i)[j] = s[IF j < i THEN j ELSE j + 1]
    BY <1>1, RemoveAtFacts
  <2>2. DOMAIN RemoveAt(s, i) = 1..(Len(s) - 1)
    BY <2>1, LenProperties
  <2> QED
    BY <1>4, <2>1, <2>2
<1>6. AcknowledgedIsProcessed'
  <2> SUFFICES ASSUME NEW p \in Partitions, NEW o \in 1..(committed'[p] - 1)
               PROVE  Log[p][o] \in processed'
    BY DEF AcknowledgedIsProcessed
  <2>1. CASE p = t.partition
    <3>1. o \in 1..t.offset
      BY <1>2, <1>3, <2>1 DEF LoopFacts, GroupTypes, TaskRecords
    <3>2. \A n \in 1..(t.offset - 1) : Log[t.partition][n] \in processed
      BY <1>1 DEF InOrder, OrderOf, ProcessedBefore
    <3>3. Log[t.partition][t.offset] \in processed
      BY <1>3 DEF DocumentOf
    <3> QED
      BY <1>2, <1>3, <2>1, <3>1, <3>2, <3>3 DEF TaskRecords
  <2>2. CASE p # t.partition
    BY <1>2, <2>2 DEF LoopFacts, GroupTypes, AcknowledgedIsProcessed
  <2> QED
    BY <2>1, <2>2
<1>7. \A v \in Workers : Assigned(v)' = Assigned(v)
  BY <1>2 DEF Assigned
<1>8. OrderOf(w)'
  <2>1. ASSUME NEW j \in DOMAIN inflight'[w]
        PROVE  \E k \in DOMAIN s : inflight'[w][j] = s[k]
    <3>1. (IF j < i THEN j ELSE j + 1) \in DOMAIN s
      BY <1>1, <1>5
    <3> QED
      BY <1>5, <3>1
  <2>2. ASSUME NEW k \in DOMAIN s, k # i
        PROVE  \E j \in DOMAIN inflight'[w] : inflight'[w][j] = s[k]
    <3> DEFINE j == IF k < i THEN k ELSE k - 1
    <3>1. j \in 1..(Len(s) - 1) /\ (IF j < i THEN j ELSE j + 1) = k
      BY <1>1, <2>2
    <3> HIDE DEF j
    <3> QED
      BY <1>5, <3>1
  <2>3. \A k \in DOMAIN s :
           DocumentOf(s[k]) \in processed \/ \E j \in DOMAIN inflight'[w] : inflight'[w][j] = s[k]
    BY <1>3, <2>2
  <2>4. OrderOf(w)
    BY DEF InOrder
  <2> QED
    BY <1>2, <1>7, <2>1, <2>3, <2>4, LoopKeepsOrder
<1>9. ASSUME NEW v \in Workers \ {w} PROVE OrderOf(v)'
  BY <1>2, <1>4, <1>7, UntouchedKeepsOrder DEF InOrder
<1> QED
  BY <1>6, <1>8, <1>9 DEF InOrder

LEMMA SweepKeepsOrder ==
    ASSUME TaskTypes, InOrder, AcknowledgedIsProcessed, NEW w \in Workers, Sweep(w)
    PROVE  InOrder' /\ AcknowledgedIsProcessed'
<1> DEFINE s == inflight[w]
<1>1. UNCHANGED <<group, held, processed>>
  BY DEF Sweep, database
<1>2. \A v \in Workers : Assigned(v)' = Assigned(v)
  BY <1>1 DEF group, Assigned
<1>3. s \in Seq(TaskRecords) /\ \A v \in Workers \ {w} : inflight'[v] = inflight[v]
  BY DEF Sweep, TaskTypes
<1>4. inflight'[w] = [i \in DOMAIN s |-> [s[i] EXCEPT !.seen = Finished(s[i])]]
  BY DEF Sweep, TaskTypes
<1>5. ASSUME NEW j \in DOMAIN s
      PROVE  inflight'[w][j].partition = s[j].partition /\ inflight'[w][j].offset = s[j].offset
  <2>1. s[j] \in TaskRecords
    BY <1>3
  <2> QED
    BY <1>4, <2>1 DEF TaskRecords
<1>6. DOMAIN inflight'[w] = DOMAIN s
  BY <1>4
<1>7. OrderOf(w)'
  <2>1. OrderOf(w)
    BY DEF InOrder
  <2> QED
    BY <1>1, <1>2, <1>5, <1>6, <2>1, LoopKeepsOrder DEF group
<1>8. ASSUME NEW v \in Workers \ {w} PROVE OrderOf(v)'
  BY <1>1, <1>2, <1>3, UntouchedKeepsOrder DEF InOrder, group
<1>9. AcknowledgedIsProcessed'
  BY <1>1 DEF group, AcknowledgedIsProcessed
<1> QED
  BY <1>7, <1>8, <1>9 DEF InOrder

\* A worker that resumes has no task left, so all it has polled is processed.
LEMMA ResumeKeepsOrder ==
    ASSUME MaxConcurrency = 1, LoopFacts, TaskTypes, InOrder, AcknowledgedIsProcessed,
           NEW w \in Workers, Resume(w)
    PROVE  InOrder' /\ AcknowledgedIsProcessed'
<1>1. UNCHANGED <<group, inflight, processed>>
  BY DEF Resume, tasks, database
<1>2. \A v \in Workers : Assigned(v)' = Assigned(v)
  BY <1>1 DEF group, Assigned
<1>3. AcknowledgedIsProcessed'
  BY <1>1 DEF group, AcknowledgedIsProcessed
<1>4. \A v \in Workers \ {w} : held'[v] = held[v]
  BY DEF Resume, ResumeAssigned, LoopFacts, LoopTypes
<1>5. OrderOf(w)'
  <2>1. CASE Len(inflight[w]) < MaxConcurrency
    <3>1. inflight[w] \in Seq(TaskRecords) /\ Len(inflight[w]) = 0
      BY <2>1 DEF TaskTypes
    <3>2. DOMAIN inflight[w] = {}
      BY <3>1
    <3>3. ASSUME NEW p \in Assigned(w), NEW o \in 1..(position[w][p] - 1)
          PROVE  Log[p][o] \in processed
      BY <3>2 DEF InOrder, OrderOf, HasTaskOf
    <3> QED
      BY <1>1, <1>2, <3>2, <3>3 DEF group, OrderOf, ProcessedBefore
  <2>2. CASE held'[w] = held[w]
    BY <1>1, <1>2, <2>2, UntouchedKeepsOrder DEF InOrder, group
  <2> QED
    BY <2>1, <2>2 DEF Resume
<1>6. ASSUME NEW v \in Workers \ {w} PROVE OrderOf(v)'
  BY <1>1, <1>2, <1>4, UntouchedKeepsOrder DEF InOrder, group
<1> QED
  BY <1>3, <1>5, <1>6 DEF InOrder

\* With one slot a polled record fills the worker, and everything is held back.
LEMMA PollKeepsOrder ==
    ASSUME MaxConcurrency = 1, LoopFacts, TaskTypes, InOrder, AcknowledgedIsProcessed,
           NEW w \in Workers, Poll(w)
    PROVE  InOrder' /\ AcknowledgedIsProcessed'
<1>1. PICK p \in Fetchable(w) :
         /\ inflight' = [inflight EXCEPT ![w] = Append(@,
               [partition |-> p, offset |-> position[w][p], step |-> "getting", seen |-> FALSE])]
         /\ position' = [position EXCEPT ![w][p] = @ + 1]
  BY DEF Poll
<1> DEFINE n == Len(inflight[w])
<1>2. /\ p \in Partitions /\ position[w][p] \in 1..Len(Log[p])
      /\ \A v \in Workers \ {w} : inflight'[v] = inflight[v]
      /\ DOMAIN inflight[w] = 1..n /\ DOMAIN inflight'[w] = 1..(n + 1)
      /\ \A i \in 1..n : inflight'[w][i] = inflight[w][i]
      /\ inflight'[w][n + 1].partition = p
      /\ inflight'[w][n + 1].offset = position[w][p]
  BY <1>1, PolledTask
<1>3. n \in Nat
  BY DEF TaskTypes
<1>4. UNCHANGED <<owner, committed, processed>> /\ held' = [held EXCEPT ![w] = Assigned(w)]
  BY <1>3 DEF Poll, Full, database
<1> HIDE DEF n
<1>5. p \in Assigned(w) /\ p \notin held[w]
  BY DEF Fetchable
<1>6. \A v \in Workers : Assigned(v)' = Assigned(v)
  BY <1>4 DEF Assigned
<1>7. AcknowledgedIsProcessed'
  BY <1>4 DEF AcknowledgedIsProcessed
<1>8. \A o \in 1..(position[w][p] - 1) : Log[p][o] \in processed
  BY <1>5 DEF InOrder, OrderOf, ProcessedBefore
<1>9. OrderOf(w)'
  <2>1. ASSUME NEW i \in DOMAIN inflight'[w]
        PROVE  ProcessedBefore(inflight[w][i].partition, inflight[w][i].offset)'
    <3>1. CASE i = n + 1
      BY <1>2, <1>4, <1>8, <3>1 DEF ProcessedBefore
    <3>2. CASE i \in 1..n
      <4>1. ProcessedBefore(inflight[w][i].partition, inflight[w][i].offset)
        BY <1>2, <3>2 DEF InOrder, OrderOf
      <4> QED
        BY <1>2, <1>4, <3>2, <4>1 DEF ProcessedBefore
    <3> QED
      BY <1>2, <1>3, <3>1, <3>2
  <2>2. \A q \in Assigned(w)' : q \in held'[w]
    BY <1>4, <1>6 DEF LoopFacts, LoopTypes
  <2>3. ASSUME NEW q \in Assigned(w)', NEW o \in 1..(position'[w][q] - 1)
        PROVE  Log[q][o] \in processed' \/ HasTaskOf(w, q, o)'
    <3>1. q \in Partitions
      BY DEF Assigned
    <3>2. position'[w][q] = IF q = p THEN position[w][p] + 1 ELSE position[w][q]
      BY <1>1, <1>2, <3>1 DEF LoopFacts, GroupTypes
    <3>3. CASE q = p /\ o = position[w][p]
      <4>1. n + 1 \in DOMAIN inflight'[w]
        BY <1>2, <1>3
      <4> QED
        BY <1>2, <3>3, <4>1 DEF HasTaskOf
    <3>4. CASE o \in 1..(position[w][q] - 1)
      <4>1. Log[q][o] \in processed \/ HasTaskOf(w, q, o)
        BY <1>6, <3>4 DEF InOrder, OrderOf
      <4>2. HasTaskOf(w, q, o) => HasTaskOf(w, q, o)'
        BY <1>2, <1>3 DEF HasTaskOf
      <4> QED
        BY <1>4, <4>1, <4>2
    <3>5. position[w][q] \in Nat
      BY <3>1 DEF LoopFacts, GroupTypes
    <3> QED
      BY <1>2, <3>2, <3>3, <3>4, <3>5
  <2> QED
    BY <2>1, <2>2, <2>3 DEF OrderOf
<1>10. ASSUME NEW v \in Workers \ {w} PROVE OrderOf(v)'
  <2>1. UNCHANGED <<inflight[v], held[v], position[v]>>
    BY <1>1, <1>2, <1>4 DEF LoopFacts, GroupTypes, LoopTypes
  <2> QED
    BY <1>4, <1>6, <2>1, UntouchedKeepsOrder DEF InOrder
<1> QED
  BY <1>7, <1>9, <1>10 DEF InOrder

\* A worker that is assigned a partition starts behind what is acknowledged.
LEMMA AssignKeepsOrder ==
    ASSUME LoopFacts, InOrder, AcknowledgedIsProcessed,
           NEW w \in Workers, NEW p \in Partitions, Assign(w, p)
    PROVE  InOrder' /\ AcknowledgedIsProcessed'
<1>1. /\ owner' = [owner EXCEPT ![p] = w]
      /\ position' = [position EXCEPT ![w][p] = committed[p]]
      /\ held' = [held EXCEPT ![w] = @ \ {p}]
      /\ UNCHANGED <<committed, inflight, processed>>
  BY DEF Assign, tasks, database
<1>2. AcknowledgedIsProcessed'
  BY <1>1 DEF AcknowledgedIsProcessed
<1>3. Assigned(w)' = Assigned(w) \cup {p}
  BY <1>1 DEF Assigned, LoopFacts, GroupTypes
<1>4. \A v \in Workers \ {w} : Assigned(v)' \subseteq Assigned(v)
  BY <1>1 DEF Assigned, LoopFacts, GroupTypes
<1>5. \A v \in Workers \ {w} : UNCHANGED <<inflight[v], held[v], position[v]>>
  BY <1>1 DEF LoopFacts, GroupTypes, LoopTypes
<1>6. ASSUME NEW v \in Workers \ {w} PROVE OrderOf(v)'
  BY <1>1, <1>4, <1>5, UntouchedKeepsOrder DEF InOrder
<1>7. OrderOf(w)'
  <2>1. /\ position'[w][p] = committed[p]
        /\ \A q \in Partitions \ {p} : position'[w][q] = position[w][q]
        /\ held'[w] = held[w] \ {p}
    BY <1>1 DEF LoopFacts, GroupTypes, LoopTypes
  <2>2. \A q \in Assigned(w)' : q = p \/ (q \in Assigned(w) /\ q \in Partitions \ {p})
    BY <1>3 DEF Assigned
  <2>3. \A i \in DOMAIN inflight'[w] :
           ProcessedBefore(inflight[w][i].partition, inflight[w][i].offset)'
    BY <1>1 DEF InOrder, OrderOf, ProcessedBefore
  <2>4. \A o \in 1..(position'[w][p] - 1) : Log[p][o] \in processed'
    BY <1>1, <2>1 DEF AcknowledgedIsProcessed
  <2>5. ASSUME NEW q \in Assigned(w), q \in Partitions \ {p}
        PROVE  /\ q \notin held'[w] =>
                     \A o \in 1..(position'[w][q] - 1) : Log[q][o] \in processed'
               /\ \A o \in 1..(position'[w][q] - 1) :
                     Log[q][o] \in processed' \/ HasTaskOf(w, q, o)'
    BY <1>1, <2>1, <2>5 DEF InOrder, OrderOf, ProcessedBefore, HasTaskOf
  <2> QED
    BY <2>2, <2>3, <2>4, <2>5 DEF OrderOf, ProcessedBefore
<1> QED
  BY <1>2, <1>6, <1>7 DEF InOrder

\* An ended worker has no records.
LEMMA EndKeepsOrder ==
    ASSUME LoopFacts, TaskTypes, InOrder, AcknowledgedIsProcessed,
           UNCHANGED <<committed, processed>>,
           NEW w \in Workers, WorkerEnds(w)
    PROVE  InOrder' /\ AcknowledgedIsProcessed'
<1>1. AcknowledgedIsProcessed'
  BY DEF AcknowledgedIsProcessed
<1>2. \A p \in Partitions : owner'[p] = IF owner[p] = w THEN NoWorker ELSE owner[p]
  BY DEF WorkerEnds
<1>3. Assigned(w)' = {} /\ \A v \in Workers \ {w} : Assigned(v)' = Assigned(v)
  BY <1>2, ExtractorAssumption DEF Assigned
<1>4. \A v \in Workers \ {w} : UNCHANGED <<inflight[v], held[v], position[v]>>
  BY DEF WorkerEnds, TaskTypes, LoopFacts, LoopTypes
<1>5. ASSUME NEW v \in Workers \ {w} PROVE OrderOf(v)'
  BY <1>3, <1>4, UntouchedKeepsOrder DEF InOrder
<1>6. DOMAIN inflight'[w] = {}
  <2>1. inflight'[w] = <<>>
    BY DEF WorkerEnds, TaskTypes
  <2> QED
    BY <2>1
<1>7. OrderOf(w)'
  BY <1>3, <1>6 DEF OrderOf
<1> QED
  BY <1>1, <1>5, <1>7 DEF InOrder

LEMMA OneSlotPreserves ==
    ASSUME MaxConcurrency = 1, IInv, InOrder, AcknowledgedIsProcessed, [Next]_vars
    PROVE  InOrder' /\ AcknowledgedIsProcessed'
<1>0. LoopFacts /\ TaskTypes /\ TasksAgree /\ PoolFacts /\ TableFacts /\ FaultTypes
  BY IInvParts
<1>1. ASSUME NEW w \in Workers, NEW i \in DOMAIN inflight[w], TaskStep(w, i)
      PROVE  InOrder' /\ AcknowledgedIsProcessed'
  <2>1. InOrder' /\ UNCHANGED <<group, loop>> /\ StoreGrows
    BY <1>0, <1>1, TaskStepKeepsOrder, TaskStepKeeps DEF TaskPart
  <2> QED
    BY <2>1 DEF group, StoreGrows, AcknowledgedIsProcessed
<1>2. ASSUME NEW w \in Workers, LoopStep(w)
      PROVE  InOrder' /\ AcknowledgedIsProcessed'
  <2>1. CASE ReapRaises(w)
    BY <1>0, <2>1, EndKeepsOrder DEF ReapRaises, database
  <2>2. CASE PollEmpty(w)
    BY <2>2 DEF PollEmpty, group, tasks, database, InOrder, OrderOf, Assigned, ProcessedBefore,
                HasTaskOf, AcknowledgedIsProcessed
  <2> QED
    BY <1>0, <1>2, <2>1, <2>2, SweepKeepsOrder, ReapKeepsOrder, ResumeKeepsOrder, PollKeepsOrder
    DEF LoopStep
<1>3. ASSUME NEW w \in Workers, Crash(w)
      PROVE  InOrder' /\ AcknowledgedIsProcessed'
  BY <1>0, <1>3, EndKeepsOrder DEF Crash, database
<1>4. ASSUME NEW w \in Workers, Restart(w)
      PROVE  InOrder' /\ AcknowledgedIsProcessed'
  BY <1>4 DEF Restart, group, tasks, database, InOrder, OrderOf, Assigned, ProcessedBefore,
              HasTaskOf, AcknowledgedIsProcessed
<1>5. ASSUME NEW w \in Workers, NEW p \in Partitions, Assign(w, p)
      PROVE  InOrder' /\ AcknowledgedIsProcessed'
  BY <1>0, <1>5, AssignKeepsOrder
<1>6. CASE UNCHANGED vars
  BY <1>6 DEF vars, group, loop, tasks, database, InOrder, OrderOf, Assigned, ProcessedBefore,
              HasTaskOf, AcknowledgedIsProcessed
<1> QED
  BY <1>1, <1>2, <1>3, <1>4, <1>5, <1>6 DEF Next

\* With one slot, the default of document_extractor_max_concurrency, no record
\* is acknowledged before its outcome is committed, however partitions move
\* and whatever fails.  With two slots it is not so (extractor_lost_record).
THEOREM OneSlotLosesNothing ==
    ASSUME MaxConcurrency = 1
    PROVE  Spec => []AcknowledgedIsProcessed
<1>1. Init => InOrder /\ AcknowledgedIsProcessed
  BY ExtractorAssumption DEF Init, InOrder, OrderOf, Assigned, AcknowledgedIsProcessed
<1>2. IInv /\ InOrder /\ AcknowledgedIsProcessed /\ [Next]_vars
         => InOrder' /\ AcknowledgedIsProcessed'
  BY OneSlotPreserves
<1> QED
  BY <1>1, <1>2, InductiveInvariant, PTL DEF Spec
=============================================================================
