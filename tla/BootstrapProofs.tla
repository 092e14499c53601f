--------------------------- MODULE BootstrapProofs ---------------------------
(***************************************************************************)
(* For any number of overlapping runs, topics and indexes: the types of    *)
(* Bootstrap, what the success of a run means, and that runs alone do not  *)
(* keep each other from completing the bootstrap.                          *)
(***************************************************************************)
EXTENDS Bootstrap, TLAPS

\* How far a run has come says what exists: it passes the collection only once
\* somebody has created it, and it waits for the topics that it saw missing.
Reached(r) ==
    /\ pc[r] \in {"check", "create", "index"} => r \notin KafkaOnly
    /\ pc[r] \in {"check", "create", "index"} => requested[r] < Len(Fields)
    /\ r \notin KafkaOnly /\ pc[r] \in {"index", "list", "await", "done"} => collection
    /\ r \notin KafkaOnly /\ pc[r] \in {"list", "await", "done"} => requested[r] = Len(Fields)
    /\ \A i \in 1..requested[r] : Fields[i] \in indexes
    /\ pc[r] \in {"await", "done"} =>
          \A t \in Topics : t \in topics \/ answer[r][t] \in {"pending", "error"}
    /\ pc[r] = "done" => \A t \in Topics : answer[r][t] \in {"none", "exists"}

IInv == TypeOK /\ \A r \in Runs : Reached(r)

-----------------------------------------------------------------------------

\* There is a field to index, so the loop over them has a last one.
LEMMA LengthOfFields == Len(Fields) \in Nat \ {0} /\ DOMAIN Fields = 1..Len(Fields)
  BY BootstrapAssumption DEF BootstrapAssumption

\* A failure is only counted below the bound.
LEMMA FaultsBounded ==
    ASSUME faults \in 0..MaxFaults, NEW kind, Fault(kind)
    PROVE  faults' \in 0..MaxFaults
  BY BootstrapAssumption DEF BootstrapAssumption, Fault

LEMMA InductiveInit == Init => IInv
<1> SUFFICES ASSUME Init PROVE IInv
  OBVIOUS
<1>1. TypeOK
  <2>1. faults \in 0..MaxFaults /\ attempt \in [Runs -> 0..(Attempts - 1)]
    BY BootstrapAssumption DEF BootstrapAssumption, Init
  <2>2. requested \in [Runs -> 0..Len(Fields)]
    BY LengthOfFields DEF Init
  <2> QED
    BY <2>1, <2>2 DEF Init, TypeOK, PcValues, Ended, Answers
<1>2. ASSUME NEW r \in Runs PROVE Reached(r)
  BY LengthOfFields DEF Init, Reached
<1> QED
  BY <1>1, <1>2 DEF IInv

\* The steps of one run change nothing that another run has reached.
LEMMA RunStepKept ==
    ASSUME IInv, NEW r \in Runs, RunStep(r) \/ QdrantRaises(r) \/ Crash(r)
    PROVE  IInv'
<1> USE BootstrapAssumption, LengthOfFields
    DEF BootstrapAssumption, IInv, TypeOK, Reached, qdrant, kafka, Fault, NoFault, Goto,
        PcValues, Ended, Answers
<1>1. CASE CheckCollection(r)
  BY <1>1 DEF CheckCollection
<1>2. CASE CreateCollection(r)
  BY <1>2 DEF CreateCollection
<1>3. CASE CollectionConflict(r)
  BY <1>3 DEF CollectionConflict
<1>4. CASE CreateIndex(r)
  BY <1>4 DEF CreateIndex, IndexedFields
<1>5. CASE QdrantRaises(r)
  <2> DEFINE field == Fields[requested[r] + 1]
  <2>1. pc[r] = "index" => field \in IndexedFields
    BY DEF IndexedFields
  <2>2. indexes \subseteq indexes' /\ (collection => collection')
    BY <1>5, <2>1 DEF QdrantRaises
  <2>3. faults' \in 0..MaxFaults
    BY <1>5, FaultsBounded DEF QdrantRaises
  <2>4. indexes' \subseteq IndexedFields /\ collection' \in BOOLEAN
    <3>1. CASE UNCHANGED qdrant
      BY <3>1
    <3>2. CASE collection' = TRUE /\ UNCHANGED indexes
      BY <3>2
    <3>3. CASE pc[r] = "index" /\ UNCHANGED collection /\ indexes' = indexes \cup {field}
      BY <2>1, <3>3
    <3> QED
      BY <1>5, <3>1, <3>2, <3>3 DEF QdrantRaises
  <2>5. pc' = [pc EXCEPT ![r] = "failed"]
    BY <1>5 DEF QdrantRaises
  <2>6. UNCHANGED <<requested, attempt, topics, answer, up>>
    BY <1>5 DEF QdrantRaises
  <2>7. TypeOK'
    BY <2>3, <2>4, <2>5, <2>6
  <2>8. \A s \in Runs : Reached(s)'
    BY <1>5, <2>2 DEF QdrantRaises
  <2> QED
    BY <2>7, <2>8
<1>6. CASE RequestTopics(r)
  BY <1>6 DEF RequestTopics, Missing
<1>7. CASE NothingToRequest(r)
  BY <1>7 DEF NothingToRequest
<1>8. CASE ListRaises(r)
  <2>1. attempt' \in [Runs -> 0..(Attempts - 1)]
    <3>1. attempt[r] \in 0..(Attempts - 1) /\ Attempts \in Nat
      OBVIOUS
    <3>2. CASE GivesUp(r)
      BY <1>8, <3>2 DEF ListRaises
    <3>3. CASE ~GivesUp(r)
      <4>1. attempt[r] + 1 \in 0..(Attempts - 1)
        BY <3>1, <3>3 DEF GivesUp
      <4>2. attempt' = [attempt EXCEPT ![r] = attempt[r] + 1]
        BY <1>8, <3>3 DEF ListRaises, Failures
      <4> QED
        BY <4>1, <4>2
    <3> QED
      BY <3>2, <3>3
  <2>2. TypeOK'
    <3>1. pc' = [pc EXCEPT ![r] = "failed"] \/ pc' = pc
      BY <1>8 DEF ListRaises
    <3>2. UNCHANGED <<requested, collection, indexes, topics, answer, up, faults>>
      BY <1>8 DEF ListRaises
    <3> QED
      BY <2>1, <3>1, <3>2
  <2>3. \A s \in Runs : Reached(s)'
    BY <1>8 DEF ListRaises
  <2> QED
    BY <2>2, <2>3
<1>9. CASE TopicsDone(r) \/ TopicRaises(r)
  <2>1. TypeOK'
    BY <1>9 DEF TopicsDone, TopicRaises
  <2>2. \A s \in Runs : Reached(s)'
    BY <1>9 DEF TopicsDone, TopicRaises, Tolerated
  <2> QED
    BY <2>1, <2>2
<1>10. CASE Crash(r)
  BY <1>10 DEF Crash
<1> QED
  BY <1>1, <1>2, <1>3, <1>4, <1>5, <1>6, <1>7, <1>8, <1>9, <1>10 DEF RunStep

\* The broker only adds topics, and answers what it was asked.
LEMMA BrokerStepKept ==
    ASSUME IInv, NEW r \in Runs, NEW t \in Topics, BrokerStep(r, t)
    PROVE  IInv'
<1> USE BootstrapAssumption
    DEF BootstrapAssumption, IInv, TypeOK, Reached, qdrant, kafka, Fault, NoFault, Answered,
        PcValues, Ended, Answers
<1>1. CASE CreateTopic(r, t)
  BY <1>1 DEF CreateTopic
<1>2. CASE TopicFails(r, t)
  BY <1>2 DEF TopicFails
<1> QED
  BY <1>1, <1>2 DEF BrokerStep

LEMMA InductiveStep == IInv /\ [Next]_vars => IInv'
<1> SUFFICES ASSUME IInv, [Next]_vars PROVE IInv'
  OBVIOUS
<1>1. CASE Outage \/ Recovery
  <2>1. TypeOK'
    <3>1. faults' \in 0..MaxFaults
      BY <1>1, FaultsBounded DEF IInv, TypeOK, Outage, Recovery
    <3>2. up' \in BOOLEAN
      BY <1>1 DEF Outage, Recovery
    <3> QED
      BY <1>1, <3>1, <3>2 DEF IInv, TypeOK, Outage, Recovery, qdrant
  <2>2. \A s \in Runs : Reached(s)'
    BY <1>1 DEF IInv, Reached, Outage, Recovery, qdrant
  <2> QED
    BY <2>1, <2>2 DEF IInv
<1>2. CASE UNCHANGED vars
  BY <1>2 DEF IInv, TypeOK, Reached, vars, qdrant, kafka
<1> QED
  BY <1>1, <1>2, RunStepKept, BrokerStepKept DEF Next

\* Every reachable state of the scripts satisfies the inductive invariant.
THEOREM InductiveInvariant == Spec => []IInv
  BY InductiveInit, InductiveStep, PTL DEF Spec

\* Every step of a run, of the broker or of an outage keeps the types.
THEOREM TypeCorrect == Spec => []TypeOK
<1>1. IInv => TypeOK
  BY DEF IInv
<1> QED
  BY <1>1, InductiveInvariant, PTL

\* A run of the scripts that ends well leaves the collection, all its indexes
\* and all topics, however many other runs fail, race with it or die.
THEOREM SuccessIsReady == Spec => []SuccessMeansReady
<1>1. IInv => SuccessMeansReady
  <2> SUFFICES ASSUME IInv, NEW r \in Runs, pc[r] = "done"
               PROVE  topics = Topics /\ (r \in KafkaOnly \/ QdrantReady)
    BY DEF SuccessMeansReady
  <2>1. topics = Topics
    BY DEF IInv, Reached, TypeOK
  <2>2. r \in KafkaOnly \/ QdrantReady
    BY LengthOfFields DEF IInv, Reached, TypeOK, QdrantReady, IndexedFields
  <2> QED
    BY <2>1, <2>2
<1> QED
  BY <1>1, InductiveInvariant, PTL

-----------------------------------------------------------------------------
(* Runs that only have each other to fear *)

\* The run that created the collection goes on, or it has done its part and
\* has failed because there was no topic left to ask for.
LeadsOn(s) ==
    /\ s \notin KafkaOnly
    /\ \/ pc[s] \in {"index", "list", "await", "done"}
       \/ pc[s] = "failed" /\ requested[s] = Len(Fields) /\ topics = Topics

\* What is known as long as the environment has failed nobody.
Undisturbed ==
    /\ up
    /\ \A r \in Runs : pc[r] # "killed" /\ \A t \in Topics : answer[r][t] # "error"
    /\ \A r \in Runs \ KafkaOnly : pc[r] \notin {"check", "create"} => collection
    /\ collection => \E s \in Runs : LeadsOn(s)
    /\ \A r \in Runs : pc[r] \in {"check", "create"} => requested[r] = 0
    /\ \A r \in Runs : pc[r] = "failed" => FoundItDone(r)

FaultsCounted == faults = 0 => Undisturbed

LEMMA InitFaultsCounted == Init => FaultsCounted
  BY DEF Init, FaultsCounted, Undisturbed

\* Without a failure, a step of a run keeps some run going: the one that leads
\* loses only to itself, and only when everything is there.
LEMMA UndisturbedRun ==
    ASSUME IInv, Undisturbed, NEW r \in Runs, RunStep(r)
    PROVE  Undisturbed'
<1> USE DEF IInv, TypeOK
<1>1. \A s \in Runs \ {r} : pc'[s] = pc[s] /\ requested'[s] = requested[s]
  BY DEF RunStep, CheckCollection, CreateCollection, CollectionConflict, CreateIndex,
         RequestTopics, NothingToRequest, ListRaises, TopicsDone, TopicRaises, Goto
<1>2. up' /\ topics' = topics
  BY DEF Undisturbed, RunStep, CheckCollection, CreateCollection, CollectionConflict,
         CreateIndex, RequestTopics, NothingToRequest, ListRaises, TopicsDone, TopicRaises,
         kafka
<1>3. \A s \in Runs : pc'[s] # "killed"
  BY DEF Undisturbed, RunStep, CheckCollection, CreateCollection, CollectionConflict,
         CreateIndex, RequestTopics, NothingToRequest, ListRaises, TopicsDone, TopicRaises,
         Goto
<1>4. \A s \in Runs, t \in Topics : answer'[s][t] # "error"
  <2>1. CASE RequestTopics(r)
    BY <2>1 DEF Undisturbed, RequestTopics
  <2>2. CASE answer' = answer
    BY <2>2 DEF Undisturbed
  <2> QED
    BY <2>1, <2>2
    DEF RunStep, CheckCollection, CreateCollection, CollectionConflict, CreateIndex,
        NothingToRequest, ListRaises, TopicsDone, TopicRaises, kafka
<1>5. collection => collection'
  BY DEF RunStep, CheckCollection, CreateCollection, CollectionConflict, CreateIndex,
         RequestTopics, NothingToRequest, ListRaises, TopicsDone, TopicRaises, qdrant
<1>6. r \notin KafkaOnly /\ pc'[r] \notin {"check", "create"} => collection'
  BY DEF Undisturbed, RunStep, CheckCollection, CreateCollection, CollectionConflict,
         CreateIndex, RequestTopics, NothingToRequest, ListRaises, TopicsDone, TopicRaises,
         Goto, qdrant
<1>7. LeadsOn(r) => LeadsOn(r)'
  <2> SUFFICES ASSUME LeadsOn(r) PROVE LeadsOn(r)'
    OBVIOUS
  <2>1. pc[r] \in {"index", "list", "await", "done"}
    BY DEF LeadsOn, RunStep, CheckCollection, CreateCollection, CollectionConflict,
           CreateIndex, RequestTopics, NothingToRequest, ListRaises, TopicsDone, TopicRaises
  <2>2. CASE CreateIndex(r) \/ RequestTopics(r) \/ TopicsDone(r)
    <3>1. pc'[r] \in {"index", "list", "await", "done"}
      BY <2>2 DEF CreateIndex, RequestTopics, TopicsDone, Goto
    <3> QED
      BY <3>1 DEF LeadsOn
  <2>3. CASE NothingToRequest(r)
    <3>1. Reached(r) /\ pc[r] = "list" /\ r \notin KafkaOnly
      BY <2>3 DEF LeadsOn, NothingToRequest
    <3>2. pc'[r] = "failed" /\ requested' = requested /\ topics' = Topics
      BY <1>2, <2>3 DEF NothingToRequest, Missing, Goto
    <3>3. requested'[r] = Len(Fields)
      BY <3>1, <3>2 DEF Reached
    <3> QED
      BY <3>1, <3>2, <3>3 DEF LeadsOn
  <2>4. QED
    BY <2>1, <2>2, <2>3
    DEF Undisturbed, RunStep, CheckCollection, CreateCollection, CollectionConflict,
        ListRaises, TopicRaises, Tolerated, Answers
<1>8. \A s \in Runs : LeadsOn(s) => LeadsOn(s)'
  BY <1>1, <1>2, <1>7 DEF LeadsOn
<1>9. ~collection /\ collection' => LeadsOn(r)'
  BY DEF LeadsOn, Undisturbed, RunStep, CheckCollection, CreateCollection,
         CollectionConflict, CreateIndex, RequestTopics, NothingToRequest, ListRaises,
         TopicsDone, TopicRaises, Goto, qdrant, Reached
<1>10. \A s \in Runs : pc'[s] \in {"check", "create"} => requested'[s] = 0
  <2>1. pc'[r] \in {"check", "create"} => pc[r] \in {"check", "create"} /\ requested' = requested
    BY DEF RunStep, CheckCollection, CreateCollection, CollectionConflict, CreateIndex,
           RequestTopics, NothingToRequest, ListRaises, TopicsDone, TopicRaises, Goto
  <2> QED
    BY <1>1, <2>1 DEF Undisturbed
<1>11. pc'[r] = "failed" => FoundItDone(r)'
  <2> SUFFICES ASSUME pc'[r] = "failed" PROVE FoundItDone(r)'
    OBVIOUS
  <2>1. CollectionConflict(r) \/ NothingToRequest(r)
    <3>1. ~ListRaises(r)
      BY DEF ListRaises, Undisturbed
    <3>2. ~TopicRaises(r)
      <4>1. \A t \in Topics : answer[r][t] \in {"none", "pending", "exists"}
        BY DEF Undisturbed, Answers
      <4> QED
        BY <4>1 DEF TopicRaises, Tolerated
    <3>3. CheckCollection(r) \/ CreateCollection(r) \/ CreateIndex(r) \/ RequestTopics(r)
          \/ TopicsDone(r) => pc'[r] # "failed"
      BY DEF CheckCollection, CreateCollection, CreateIndex, RequestTopics, TopicsDone, Goto
    <3> QED
      BY <3>1, <3>2, <3>3 DEF RunStep
  <2>2. CASE CollectionConflict(r)
    BY <2>2 DEF CollectionConflict, Undisturbed, Reached, FoundItDone, qdrant
  <2>3. CASE NothingToRequest(r)
    BY <2>3 DEF NothingToRequest, Missing, FoundItDone, kafka
  <2> QED
    BY <2>1, <2>2, <2>3
<1>12. \A s \in Runs : pc'[s] = "failed" => FoundItDone(s)'
  <2>1. \A s \in Runs \ {r} : FoundItDone(s) => FoundItDone(s)'
    BY <1>1, <1>2, <1>5 DEF FoundItDone
  <2> QED
    BY <1>1, <1>11, <2>1 DEF Undisturbed
<1> QED
  BY <1>1, <1>2, <1>3, <1>4, <1>5, <1>6, <1>8, <1>9, <1>10, <1>12 DEF Undisturbed

\* Without a failure, the broker creates what it is asked to create.
LEMMA UndisturbedBroker ==
    ASSUME IInv, Undisturbed, NEW r \in Runs, NEW t \in Topics, CreateTopic(r, t)
    PROVE  Undisturbed'
<1> USE DEF IInv, TypeOK
<1>1. \A s \in Runs : LeadsOn(s) => LeadsOn(s)'
  BY DEF LeadsOn, CreateTopic
<1>2. \A s \in Runs, u \in Topics : answer'[s][u] # "error"
  BY DEF Undisturbed, CreateTopic, Answered
<1>3. \A s \in Runs : FoundItDone(s) => FoundItDone(s)'
  BY DEF FoundItDone, CreateTopic, qdrant
<1> QED
  BY <1>1, <1>2, <1>3 DEF Undisturbed, CreateTopic, qdrant

LEMMA NextFaultsCounted ==
    ASSUME IInv, FaultsCounted, [Next]_vars
    PROVE  FaultsCounted'
<1> SUFFICES ASSUME faults' = 0 PROVE Undisturbed'
  BY DEF FaultsCounted
<1> USE DEF IInv, TypeOK
<1>1. \A kind : ~Fault(kind)
  BY BootstrapAssumption DEF BootstrapAssumption, Fault
<1>2. CASE UNCHANGED vars
  BY <1>2 DEF vars, qdrant, kafka, FaultsCounted, Undisturbed, LeadsOn, FoundItDone
<1>3. ASSUME NEW r \in Runs, RunStep(r) PROVE Undisturbed'
  <2>1. faults = 0
    BY <1>3 DEF RunStep, CheckCollection, CreateCollection, CollectionConflict, CreateIndex,
                RequestTopics, NothingToRequest, ListRaises, TopicsDone, TopicRaises
  <2> QED
    BY <1>3, <2>1, UndisturbedRun DEF FaultsCounted
<1>4. ASSUME NEW r \in Runs, NEW t \in Topics, BrokerStep(r, t) PROVE Undisturbed'
  <2>1. faults = 0
    BY <1>1, <1>4 DEF BrokerStep, CreateTopic, TopicFails, NoFault
  <2>2. CreateTopic(r, t)
    BY <1>1, <1>4, <2>1 DEF BrokerStep, TopicFails, FaultsCounted, Undisturbed
  <2> QED
    BY <2>1, <2>2, UndisturbedBroker DEF FaultsCounted
<1>5. CASE Recovery
  BY <1>5 DEF Recovery, FaultsCounted, Undisturbed
<1> QED
  BY <1>1, <1>2, <1>3, <1>4, <1>5 DEF Next, QdrantRaises, Crash, Outage

\* Two initialisers that meet can fail each other, but not both for nothing:
\* when all runs have ended and something is missing, the environment failed
\* one of them; and a run that fails by itself found its work done.
THEOREM FailureHasACause == Spec => []UnreadyNeedsFaults
<1>1. IInv /\ FaultsCounted => UnreadyNeedsFaults
  <2> SUFFICES ASSUME IInv, Undisturbed, Runs # KafkaOnly, \A r \in Runs : pc[r] \in Ended
               PROVE  Ready
    BY DEF UnreadyNeedsFaults, FaultsCounted, Undisturbed
  <2>1. Undisturbed
    OBVIOUS
  <2>2. PICK r \in Runs : r \notin KafkaOnly
    BY BootstrapAssumption DEF BootstrapAssumption
  <2>3. PICK s \in Runs : LeadsOn(s)
    BY <2>1, <2>2 DEF Undisturbed, Ended
  <2>4. s \notin KafkaOnly /\ collection /\ requested[s] = Len(Fields) /\ topics = Topics
    <3>1. Reached(s) /\ pc[s] \in {"done", "failed", "killed"} /\ topics \subseteq Topics
      BY DEF IInv, TypeOK, Ended
    <3>2. s \notin KafkaOnly /\ collection
      BY <2>1, <2>3, <3>1 DEF LeadsOn, Undisturbed
    <3>3. CASE pc[s] = "done"
      BY <3>1, <3>2, <3>3 DEF Reached
    <3>4. CASE pc[s] = "failed"
      BY <2>3, <3>2, <3>4 DEF LeadsOn
    <3> QED
      BY <2>1, <3>1, <3>3, <3>4 DEF Undisturbed
  <2>5. indexes = IndexedFields
    BY <2>4, LengthOfFields DEF IInv, TypeOK, Reached, IndexedFields
  <2> QED
    BY <2>4, <2>5 DEF Ready, QdrantReady
<1> QED
  BY <1>1, InitFaultsCounted, NextFaultsCounted, InductiveInvariant, PTL DEF Spec
=============================================================================
