---------------------------- MODULE PipelineProofs ----------------------------
(***************************************************************************)
(* For any number of documents of any content, and any number of failures: *)
(* the pipeline implements DocumentLifecycle, and a document ends as its   *)
(* bytes deserve unless a failure accounts for it.                         *)
(***************************************************************************)
EXTENDS Pipeline, BoundedReadProofs

\* What the tables of one document have to do with each other: each stage only
\* decides what the stage before it has handed on, and moves the status on.
InStep(d) ==
    /\ status[d] = "none" <=> upload[d] # "accepted"
    /\ fetched[d] > 0 \/ fetchRejected[d] > 0 => upload[d] = "accepted"
    /\ extracted[d] > 0 \/ extractRejected[d] > 0 => fetched[d] > 0
    /\ upload[d] = "accepted" /\ Fetcher!Undecided(d) => status[d] = "submitted"
    /\ fetched[d] > 0 /\ Extractor!Undecided(d) => status[d] = "fetched"

\* An outbox row comes from the transaction of its type.
Told(type, d) ==
    CASE type = "DocumentSubmitted" -> upload[d] = "accepted"
      [] type = "DocumentFetched" -> fetched[d] > 0
      [] type = "DocumentFetchRejected" -> fetchRejected[d] > 0
      [] type = "ContentExtracted" -> extracted[d] > 0
      [] OTHER -> extractRejected[d] > 0

\* So does a record that waits for a worker, however often it has come.
IInv ==
    /\ TypeOK
    /\ \A d \in Documents : InStep(d)
    /\ \A e \in accepted : Told(e.type, e.document)
    /\ \A t \in Consumed : \A i \in 1..Len(topic[t]) : Told(t, topic[t][i])

-----------------------------------------------------------------------------
(* The transaction of a stage *)

LEMMA InductiveInit == Init => IInv
<1> SUFFICES ASSUME Init PROVE IInv
  OBVIOUS
<1> USE DEF Init, Outbox!Init, Fetcher!Init, Extractor!Init
<1>1. TypeOK
  BY PipelineAssumption DEF PipelineAssumption, TypeOK, TopicTypes, Statuses
<1>2. \A d \in Documents : InStep(d)
  BY DEF InStep, Fetcher!Undecided, Extractor!Undecided
<1>3. \A t \in Consumed : Len(topic[t]) = 0
  OBVIOUS
<1> QED
  BY <1>1, <1>2, <1>3 DEF IInv

\* The first transaction of its type for a document inserts a row that is new.
LEMMA CommitInserts ==
    ASSUME IInv, NEW d \in Documents, NEW type \in Types, NEW new,
           ~Told(type, d), Commit(d, new, type)
    PROVE  /\ status' = [status EXCEPT ![d] = new]
           /\ UNCHANGED <<log, refused>>
           /\ \E e \in Events \ accepted :
                 e.document = d /\ e.type = type /\ accepted' = accepted \cup {e}
<1> DEFINE earlier == {e \in accepted : e.document = d /\ e.type = type}
           row == [document |-> d, type |-> type, id |-> 1]
<1>1. earlier = {}
  BY DEF IInv
<1>2. Cardinality(earlier) + 1 = 1
  BY <1>1, FS_EmptySet
<1>3. Outbox!Accept(row)
  BY <1>2 DEF Commit
<1>4. row \in Events
  BY DEF Events
<1> QED
  BY <1>3, <1>4 DEF Commit, Outbox!Accept

\* It is a step of the document's life, if the status may move that way.
LEMMA CommitIsTransition ==
    ASSUME IInv, NEW d \in Documents, NEW type \in Types, NEW new,
           ~Told(type, d), Commit(d, new, type),
           <<status[d], new, type>> \in Lifecycle!Transitions
    PROVE  Lifecycle!Next
<1>1. PICK e \in Events \ accepted :
          e.document = d /\ e.type = type /\ accepted' = accepted \cup {e}
  BY CommitInserts
<1>2. status' = [status EXCEPT ![e.document] = new]
  BY <1>1, CommitInserts
<1>3. Lifecycle!Transition(e)
  BY <1>1, <1>2 DEF Lifecycle!Transition
<1> QED
  BY <1>3 DEF Lifecycle!Next

\* A transaction that makes its own type told keeps everything else told.
LEMMA CommitKeepsRows ==
    ASSUME IInv, NEW d \in Documents, NEW type \in Types, NEW new \in Statuses,
           ~Told(type, d), Commit(d, new, type), Told(type, d)',
           UNCHANGED <<leftBehind, topic, offset>>,
           \A t \in Types, c \in Documents : Told(t, c) => Told(t, c)'
    PROVE  /\ accepted' \subseteq Events /\ status' \in [Documents -> Statuses]
           /\ log' \in [Events -> Nat]
           /\ refused' \subseteq accepted' /\ leftBehind' \subseteq accepted'
           /\ TopicTypes'
           /\ \A e \in accepted' : Told(e.type, e.document)'
           /\ \A t \in Consumed : \A i \in 1..Len(topic'[t]) : Told(t, topic[t][i])'
<1>1. PICK row \in Events \ accepted :
          row.document = d /\ row.type = type /\ accepted' = accepted \cup {row}
  BY CommitInserts
<1>2. \A e \in Events : e.type \in Types /\ e.document \in Documents
  BY DEF Events
<1>3. \A e \in accepted' : Told(e.type, e.document)'
  <2> SUFFICES ASSUME NEW e \in accepted' PROVE Told(e.type, e.document)'
    OBVIOUS
  <2>1. CASE e = row
    BY <1>1, <2>1
  <2>2. CASE e \in accepted
    BY <1>2, <2>2 DEF IInv, TypeOK
  <2> QED
    BY <1>1, <2>1, <2>2
<1>4. \A t \in Consumed : \A i \in 1..Len(topic[t]) : Told(t, topic[t][i])'
  <2> SUFFICES ASSUME NEW t \in Consumed, NEW i \in 1..Len(topic[t])
               PROVE  Told(t, topic[t][i])'
    OBVIOUS
  <2>1. t \in Types /\ topic[t][i] \in Documents /\ Told(t, topic[t][i])
    BY DEF IInv, TypeOK, TopicTypes, Types
  <2> QED
    BY <2>1
<1>5. status' \in [Documents -> Statuses]
  <2>1. status' = [status EXCEPT ![d] = new]
    BY CommitInserts
  <2>2. status \in [Documents -> Statuses]
    BY DEF IInv, TypeOK
  <2> QED
    BY <2>1, <2>2
<1>6. log' \in [Events -> Nat]
  BY CommitInserts DEF IInv, TypeOK
<1>7. /\ accepted' \subseteq Events
      /\ refused' \subseteq accepted' /\ leftBehind' \subseteq accepted'
  BY <1>1, CommitInserts DEF IInv, TypeOK
<1>8. TopicTypes'
  BY DEF IInv, TypeOK, TopicTypes
<1> QED
  BY <1>3, <1>4, <1>5, <1>6, <1>7, <1>8

\* What has been told of a document stays true while its tables only grow.
LEMMA ToldKept ==
    ASSUME TypeOK,
           \A d \in Documents : upload[d] = "accepted" => upload'[d] = "accepted",
           \A d \in Documents :
              /\ fetched[d] > 0 => fetched'[d] > 0
              /\ fetchRejected[d] > 0 => fetchRejected'[d] > 0
              /\ extracted[d] > 0 => extracted'[d] > 0
              /\ extractRejected[d] > 0 => extractRejected'[d] > 0
    PROVE  \A t \in Types, d \in Documents : Told(t, d) => Told(t, d)'
  BY DEF Told, Types, Consumed

LEMMA Counts ==
    ASSUME TypeOK
    PROVE  /\ fetched \in [Documents -> Nat] /\ fetchRejected \in [Documents -> Nat]
           /\ extracted \in [Documents -> Nat] /\ extractRejected \in [Documents -> Nat]
  BY DEF TypeOK

\* A failure is only counted below the bound.
LEMMA FaultsBounded ==
    ASSUME faults \in 0..MaxFaults, NEW kind, Fault(kind) \/ NoFault
    PROVE  faults' \in 0..MaxFaults
  BY PipelineAssumption DEF PipelineAssumption, Fault, NoFault

LEMMA SubmitStep ==
    ASSUME IInv, NEW d \in Documents, Submit(d)
    PROVE  IInv' /\ Lifecycle!Next
<1> USE DEF records, fetcher, extractor
<1>1. upload[d] = "none" /\ upload' = [upload EXCEPT ![d] = "accepted"]
  BY DEF Submit
<1>2. /\ Commit(d, "submitted", "DocumentSubmitted")
      /\ UNCHANGED <<leftBehind, topic, offset>>
      /\ UNCHANGED <<fetched, fetchRejected, extracted, extractRejected>>
  BY DEF Submit
<1>3. "DocumentSubmitted" \in Types /\ "submitted" \in Statuses
  BY DEF Types, Consumed, Statuses
<1>4. ~Told("DocumentSubmitted", d) /\ Told("DocumentSubmitted", d)'
  BY <1>1 DEF Told, IInv, TypeOK
<1>5. status[d] = "none"
  BY <1>1 DEF IInv, InStep
<1>6. Lifecycle!Next
  BY <1>2, <1>3, <1>4, <1>5, CommitIsTransition DEF Lifecycle!Transitions
<1>7. status' = [status EXCEPT ![d] = "submitted"]
  BY <1>2 DEF Commit
<1>8. \A t \in Types, c \in Documents : Told(t, c) => Told(t, c)'
  BY <1>1, <1>2, ToldKept DEF IInv, TypeOK
<1>9. /\ accepted' \subseteq Events /\ status' \in [Documents -> Statuses]
      /\ log' \in [Events -> Nat]
      /\ refused' \subseteq accepted' /\ leftBehind' \subseteq accepted'
      /\ TopicTypes'
      /\ \A e \in accepted' : Told(e.type, e.document)'
      /\ \A t \in Consumed : \A i \in 1..Len(topic'[t]) : Told(t, topic[t][i])'
  BY <1>2, <1>3, <1>4, <1>8, CommitKeepsRows
<1>10. faults' \in 0..MaxFaults
  BY FaultsBounded DEF IInv, TypeOK, Submit
<1>11. TypeOK'
  <2>1. objects' \subseteq Documents
    BY DEF Submit, IInv, TypeOK
  <2> QED
    BY <1>1, <1>2, <1>9, <1>10, <2>1 DEF IInv, TypeOK
<1>12. ASSUME NEW c \in Documents PROVE InStep(c)'
  BY <1>1, <1>2, <1>7 DEF IInv, TypeOK, InStep, Fetcher!Undecided, Extractor!Undecided
<1> QED
  BY <1>6, <1>9, <1>11, <1>12 DEF IInv

\* The next record of a topic is of a document whose stage before has ended well.
LEMMA NextIsTold ==
    ASSUME IInv, NEW type \in Consumed, NEW d \in Documents, NextRecord(type, d)
    PROVE  Told(type, d)
<1> DEFINE i == offset[type] + 1
<1>1. topic[type][i] = d
  BY DEF NextRecord
<1>2. i \in 1..Len(topic[type])
  <2>1. offset[type] \in Nat /\ Len(topic[type]) \in Nat
    BY DEF IInv, TypeOK, TopicTypes
  <2> QED
    BY <2>1 DEF NextRecord
<1> QED
  BY <1>1, <1>2 DEF IInv

\* A worker decides only what it was told, so the status is the one of its stage.
LEMMA FetchAcceptStep ==
    ASSUME IInv, NEW d \in Documents, FetchAccept(d)
    PROVE  IInv' /\ Lifecycle!Next
<1> USE DEF api, records, fetcher, extractor, NoFault
<1>1. /\ Fetcher!Undecided(d) /\ fetched' = [fetched EXCEPT ![d] = @ + 1]
      /\ UNCHANGED <<upload, objects, fetchRejected, extracted, extractRejected>>
  BY DEF FetchAccept, Fetcher!Accept
<1>2. Commit(d, "fetched", "DocumentFetched") /\ UNCHANGED <<leftBehind, topic, offset>>
  BY DEF FetchAccept
<1>3. "DocumentFetched" \in Types /\ "fetched" \in Statuses
  BY DEF Types, Consumed, Statuses
<1>4. ~Told("DocumentFetched", d) /\ Told("DocumentFetched", d)'
  BY <1>1 DEF Told, IInv, TypeOK, Fetcher!Undecided
<1>5. status[d] = "submitted"
  <2>1. Told("DocumentSubmitted", d)
    BY NextIsTold DEF FetchAccept, Consumed
  <2> QED
    BY <1>1, <2>1 DEF IInv, InStep, Told
<1>6. Lifecycle!Next
  <2>1. <<status[d], "fetched", "DocumentFetched">> \in Lifecycle!Transitions
    BY <1>5 DEF Lifecycle!Transitions
  <2> QED
    BY <1>2, <1>3, <1>4, <2>1, CommitIsTransition
<1>7. status' = [status EXCEPT ![d] = "fetched"]
  BY <1>2 DEF Commit
<1>8. \A t \in Types, c \in Documents : Told(t, c) => Told(t, c)'
  <2>1. ASSUME NEW c \in Documents
        PROVE  /\ fetched[c] > 0 => fetched'[c] > 0
               /\ fetchRejected[c] > 0 => fetchRejected'[c] > 0
               /\ extracted[c] > 0 => extracted'[c] > 0
               /\ extractRejected[c] > 0 => extractRejected'[c] > 0
    BY <1>1, Counts DEF IInv
  <2> QED
    BY <1>1, <2>1, ToldKept DEF IInv
<1>9. /\ accepted' \subseteq Events /\ status' \in [Documents -> Statuses]
      /\ log' \in [Events -> Nat]
      /\ refused' \subseteq accepted' /\ leftBehind' \subseteq accepted'
      /\ TopicTypes'
      /\ \A e \in accepted' : Told(e.type, e.document)'
      /\ \A t \in Consumed : \A i \in 1..Len(topic'[t]) : Told(t, topic[t][i])'
  BY <1>2, <1>3, <1>4, <1>8, CommitKeepsRows
<1>10. faults' \in 0..MaxFaults
  BY FaultsBounded DEF IInv, TypeOK, FetchAccept
<1>11. TypeOK'
  <2>1. /\ fetched' \in [Documents -> Nat] /\ fetchRejected' \in [Documents -> Nat]
        /\ extracted' \in [Documents -> Nat] /\ extractRejected' \in [Documents -> Nat]
    BY <1>1, Counts DEF IInv
  <2> QED
    BY <1>1, <1>9, <1>10, <2>1 DEF IInv, TypeOK
<1>12. ASSUME NEW c \in Documents PROVE InStep(c)'
  <2>1. CASE c # d
    BY <1>1, <1>7, <2>1, Counts DEF IInv, TypeOK, InStep, Fetcher!Undecided, Extractor!Undecided
  <2>2. CASE c = d
    BY <1>1, <1>5, <1>7, <2>2, Counts
    DEF IInv, TypeOK, InStep, Fetcher!Undecided, Extractor!Undecided, StatusAfter
  <2> QED
    BY <2>1, <2>2
<1> QED
  BY <1>6, <1>9, <1>11, <1>12 DEF IInv

LEMMA FetchRejectStep ==
    ASSUME IInv, NEW d \in Documents, FetchReject(d)
    PROVE  IInv' /\ Lifecycle!Next
<1> USE DEF api, records, fetcher, extractor, NoFault
<1>1. /\ Fetcher!Undecided(d) /\ fetchRejected' = [fetchRejected EXCEPT ![d] = @ + 1]
      /\ UNCHANGED <<upload, objects, fetched, extracted, extractRejected>>
  BY DEF FetchReject, Fetcher!Reject
<1>2. Commit(d, "failed", "DocumentFetchRejected") /\ UNCHANGED <<leftBehind, topic, offset>>
  BY DEF FetchReject
<1>3. "DocumentFetchRejected" \in Types /\ "failed" \in Statuses
  BY DEF Types, Consumed, Statuses
<1>4. ~Told("DocumentFetchRejected", d) /\ Told("DocumentFetchRejected", d)'
  BY <1>1 DEF Told, IInv, TypeOK, Fetcher!Undecided
<1>5. status[d] = "submitted"
  <2>1. Told("DocumentSubmitted", d)
    BY NextIsTold DEF FetchReject, Consumed
  <2> QED
    BY <1>1, <2>1 DEF IInv, InStep, Told
<1>6. Lifecycle!Next
  <2>1. <<status[d], "failed", "DocumentFetchRejected">> \in Lifecycle!Transitions
    BY <1>5 DEF Lifecycle!Transitions
  <2> QED
    BY <1>2, <1>3, <1>4, <2>1, CommitIsTransition
<1>7. status' = [status EXCEPT ![d] = "failed"]
  BY <1>2 DEF Commit
<1>8. \A t \in Types, c \in Documents : Told(t, c) => Told(t, c)'
  <2>1. ASSUME NEW c \in Documents
        PROVE  /\ fetched[c] > 0 => fetched'[c] > 0
               /\ fetchRejected[c] > 0 => fetchRejected'[c] > 0
               /\ extracted[c] > 0 => extracted'[c] > 0
               /\ extractRejected[c] > 0 => extractRejected'[c] > 0
    BY <1>1, Counts DEF IInv
  <2> QED
    BY <1>1, <2>1, ToldKept DEF IInv
<1>9. /\ accepted' \subseteq Events /\ status' \in [Documents -> Statuses]
      /\ log' \in [Events -> Nat]
      /\ refused' \subseteq accepted' /\ leftBehind' \subseteq accepted'
      /\ TopicTypes'
      /\ \A e \in accepted' : Told(e.type, e.document)'
      /\ \A t \in Consumed : \A i \in 1..Len(topic'[t]) : Told(t, topic[t][i])'
  BY <1>2, <1>3, <1>4, <1>8, CommitKeepsRows
<1>10. faults' \in 0..MaxFaults
  BY FaultsBounded DEF IInv, TypeOK, FetchReject
<1>11. TypeOK'
  <2>1. /\ fetched' \in [Documents -> Nat] /\ fetchRejected' \in [Documents -> Nat]
        /\ extracted' \in [Documents -> Nat] /\ extractRejected' \in [Documents -> Nat]
    BY <1>1, Counts DEF IInv
  <2> QED
    BY <1>1, <1>9, <1>10, <2>1 DEF IInv, TypeOK
<1>12. ASSUME NEW c \in Documents PROVE InStep(c)'
  <2>1. CASE c # d
    BY <1>1, <1>7, <2>1, Counts DEF IInv, TypeOK, InStep, Fetcher!Undecided, Extractor!Undecided
  <2>2. CASE c = d
    BY <1>1, <1>5, <1>7, <2>2, Counts
    DEF IInv, TypeOK, InStep, Fetcher!Undecided, Extractor!Undecided, StatusAfter
  <2> QED
    BY <2>1, <2>2
<1> QED
  BY <1>6, <1>9, <1>11, <1>12 DEF IInv

LEMMA ExtractAcceptStep ==
    ASSUME IInv, NEW d \in Documents, ExtractAccept(d)
    PROVE  IInv' /\ Lifecycle!Next
<1> USE DEF api, records, fetcher, extractor, NoFault
<1>1. /\ Extractor!Undecided(d) /\ extracted' = [extracted EXCEPT ![d] = @ + 1]
      /\ UNCHANGED <<upload, objects, fetched, fetchRejected, extractRejected>>
  BY DEF ExtractAccept, Extractor!Accept
<1>2. Commit(d, StatusAfter(d), "ContentExtracted") /\ UNCHANGED <<leftBehind, topic, offset>>
  BY DEF ExtractAccept
<1>3. "ContentExtracted" \in Types /\ StatusAfter(d) \in Statuses
  BY DEF Types, Consumed, Statuses, StatusAfter
<1>4. ~Told("ContentExtracted", d) /\ Told("ContentExtracted", d)'
  BY <1>1 DEF Told, IInv, TypeOK, Extractor!Undecided
<1>5. status[d] = "fetched" /\ fetched[d] > 0
  <2>1. Told("DocumentFetched", d)
    BY NextIsTold DEF ExtractAccept, Consumed
  <2> QED
    BY <1>1, <2>1 DEF IInv, InStep, Told
<1>6. Lifecycle!Next
  <2>1. <<status[d], StatusAfter(d), "ContentExtracted">> \in Lifecycle!Transitions
    BY <1>5 DEF Lifecycle!Transitions, StatusAfter
  <2> QED
    BY <1>2, <1>3, <1>4, <2>1, CommitIsTransition
<1>7. status' = [status EXCEPT ![d] = StatusAfter(d)]
  BY <1>2 DEF Commit
<1>8. \A t \in Types, c \in Documents : Told(t, c) => Told(t, c)'
  <2>1. ASSUME NEW c \in Documents
        PROVE  /\ fetched[c] > 0 => fetched'[c] > 0
               /\ fetchRejected[c] > 0 => fetchRejected'[c] > 0
               /\ extracted[c] > 0 => extracted'[c] > 0
               /\ extractRejected[c] > 0 => extractRejected'[c] > 0
    BY <1>1, Counts DEF IInv
  <2> QED
    BY <1>1, <2>1, ToldKept DEF IInv
<1>9. /\ accepted' \subseteq Events /\ status' \in [Documents -> Statuses]
      /\ log' \in [Events -> Nat]
      /\ refused' \subseteq accepted' /\ leftBehind' \subseteq accepted'
      /\ TopicTypes'
      /\ \A e \in accepted' : Told(e.type, e.document)'
      /\ \A t \in Consumed : \A i \in 1..Len(topic'[t]) : Told(t, topic[t][i])'
  BY <1>2, <1>3, <1>4, <1>8, CommitKeepsRows
<1>10. faults' \in 0..MaxFaults
  BY FaultsBounded DEF IInv, TypeOK, ExtractAccept
<1>11. TypeOK'
  <2>1. /\ fetched' \in [Documents -> Nat] /\ fetchRejected' \in [Documents -> Nat]
        /\ extracted' \in [Documents -> Nat] /\ extractRejected' \in [Documents -> Nat]
    BY <1>1, Counts DEF IInv
  <2> QED
    BY <1>1, <1>9, <1>10, <2>1 DEF IInv, TypeOK
<1>12. ASSUME NEW c \in Documents PROVE InStep(c)'
  <2>1. CASE c # d
    BY <1>1, <1>7, <2>1, Counts DEF IInv, TypeOK, InStep, Fetcher!Undecided, Extractor!Undecided
  <2>2. CASE c = d
    BY <1>1, <1>5, <1>7, <2>2, Counts
    DEF IInv, TypeOK, InStep, Fetcher!Undecided, Extractor!Undecided, StatusAfter
  <2> QED
    BY <2>1, <2>2
<1> QED
  BY <1>6, <1>9, <1>11, <1>12 DEF IInv

LEMMA ExtractRejectStep ==
    ASSUME IInv, NEW d \in Documents, ExtractReject(d)
    PROVE  IInv' /\ Lifecycle!Next
<1> USE DEF api, records, fetcher, extractor, NoFault
<1>1. /\ Extractor!Undecided(d) /\ extractRejected' = [extractRejected EXCEPT ![d] = @ + 1]
      /\ UNCHANGED <<upload, objects, fetched, fetchRejected, extracted>>
  BY DEF ExtractReject, Extractor!Reject
<1>2. Commit(d, "failed", "ContentExtractionRejected") /\ UNCHANGED <<leftBehind, topic, offset>>
  BY DEF ExtractReject
<1>3. "ContentExtractionRejected" \in Types /\ "failed" \in Statuses
  BY DEF Types, Consumed, Statuses
<1>4. ~Told("ContentExtractionRejected", d) /\ Told("ContentExtractionRejected", d)'
  BY <1>1 DEF Told, IInv, TypeOK, Extractor!Undecided
<1>5. status[d] = "fetched" /\ fetched[d] > 0
  <2>1. Told("DocumentFetched", d)
    BY NextIsTold DEF ExtractReject, Consumed
  <2> QED
    BY <1>1, <2>1 DEF IInv, InStep, Told
<1>6. Lifecycle!Next
  <2>1. <<status[d], "failed", "ContentExtractionRejected">> \in Lifecycle!Transitions
    BY <1>5 DEF Lifecycle!Transitions
  <2> QED
    BY <1>2, <1>3, <1>4, <2>1, CommitIsTransition
<1>7. status' = [status EXCEPT ![d] = "failed"]
  BY <1>2 DEF Commit
<1>8. \A t \in Types, c \in Documents : Told(t, c) => Told(t, c)'
  <2>1. ASSUME NEW c \in Documents
        PROVE  /\ fetched[c] > 0 => fetched'[c] > 0
               /\ fetchRejected[c] > 0 => fetchRejected'[c] > 0
               /\ extracted[c] > 0 => extracted'[c] > 0
               /\ extractRejected[c] > 0 => extractRejected'[c] > 0
    BY <1>1, Counts DEF IInv
  <2> QED
    BY <1>1, <2>1, ToldKept DEF IInv
<1>9. /\ accepted' \subseteq Events /\ status' \in [Documents -> Statuses]
      /\ log' \in [Events -> Nat]
      /\ refused' \subseteq accepted' /\ leftBehind' \subseteq accepted'
      /\ TopicTypes'
      /\ \A e \in accepted' : Told(e.type, e.document)'
      /\ \A t \in Consumed : \A i \in 1..Len(topic'[t]) : Told(t, topic[t][i])'
  BY <1>2, <1>3, <1>4, <1>8, CommitKeepsRows
<1>10. faults' \in 0..MaxFaults
  BY FaultsBounded DEF IInv, TypeOK, ExtractReject
<1>11. TypeOK'
  <2>1. /\ fetched' \in [Documents -> Nat] /\ fetchRejected' \in [Documents -> Nat]
        /\ extracted' \in [Documents -> Nat] /\ extractRejected' \in [Documents -> Nat]
    BY <1>1, Counts DEF IInv
  <2> QED
    BY <1>1, <1>9, <1>10, <2>1 DEF IInv, TypeOK
<1>12. ASSUME NEW c \in Documents PROVE InStep(c)'
  <2>1. CASE c # d
    BY <1>1, <1>7, <2>1, Counts DEF IInv, TypeOK, InStep, Fetcher!Undecided, Extractor!Undecided
  <2>2. CASE c = d
    BY <1>1, <1>5, <1>7, <2>2, Counts
    DEF IInv, TypeOK, InStep, Fetcher!Undecided, Extractor!Undecided, StatusAfter
  <2> QED
    BY <2>1, <2>2
<1> QED
  BY <1>6, <1>9, <1>11, <1>12 DEF IInv

-----------------------------------------------------------------------------
(* The steps between the stages *)

\* They move records and leave the tables of the documents alone.
LEMMA RecordsKept ==
    ASSUME IInv,
           UNCHANGED <<status, objects, accepted, fetcher, extractor>>,
           upload' \in [Documents -> {"none", "refused", "accepted"}],
           \A d \in Documents : (upload[d] = "accepted") <=> (upload'[d] = "accepted"),
           log' \in [Events -> Nat],
           refused' \subseteq accepted, leftBehind' \subseteq accepted,
           faults' \in 0..MaxFaults,
           TopicTypes',
           \A t \in Consumed : \A i \in 1..Len(topic'[t]) : Told(t, topic'[t][i])
    PROVE  IInv' /\ UNCHANGED Lifecycle!vars
<1> USE DEF records, fetcher, extractor
<1>1. TypeOK'
  BY DEF IInv, TypeOK
<1>2. ASSUME NEW d \in Documents PROVE InStep(d)'
  BY DEF IInv, TypeOK, InStep, Fetcher!Undecided, Extractor!Undecided
<1>3. ASSUME NEW t, NEW d \in Documents, Told(t, d)
      PROVE  /\ upload[d] = "accepted" => upload'[d] = "accepted"
             /\ UNCHANGED <<fetched, fetchRejected, extracted, extractRejected>>
  OBVIOUS
<1>4. \A t \in Types, d \in Documents : Told(t, d) => Told(t, d)'
  BY ToldKept DEF IInv
<1>5. \A e \in accepted' : Told(e.type, e.document)'
  BY <1>4 DEF IInv, TypeOK, Events
<1>6. \A t \in Consumed : \A i \in 1..Len(topic'[t]) : Told(t, topic[t][i])'
  BY <1>4 DEF Types, TopicTypes
<1>7. UNCHANGED Lifecycle!vars
  BY DEF Lifecycle!vars
<1> QED
  BY <1>1, <1>2, <1>5, <1>6, <1>7 DEF IInv

LEMMA RefuseUploadStep ==
    ASSUME IInv, NEW d \in Documents, RefuseUpload(d)
    PROVE  IInv' /\ UNCHANGED Lifecycle!vars
<1>1. upload[d] = "none" /\ upload' = [upload EXCEPT ![d] = "refused"]
  BY DEF RefuseUpload
<1>2. UNCHANGED <<objects, status, outbox, leftBehind, topic, offset, fetcher, extractor, faults>>
  BY DEF RefuseUpload, records
<1>3. /\ upload' \in [Documents -> {"none", "refused", "accepted"}]
      /\ \A c \in Documents : (upload[c] = "accepted") <=> (upload'[c] = "accepted")
  BY <1>1 DEF IInv, TypeOK
<1> QED
  BY <1>2, <1>3, RecordsKept DEF IInv, TypeOK, outbox, TopicTypes

\* The record that arrives is one of an outbox row.
LEMMA ArrivalStep ==
    ASSUME IInv, NEW e \in accepted, Publish(e) \/ ArriveLate(e)
    PROVE  IInv' /\ UNCHANGED Lifecycle!vars
<1> USE DEF api, records, fetcher, extractor
<1>1. /\ e \in Events /\ e.type \in Consumed /\ e.document \in Documents
      /\ Told(e.type, e.document)
  BY DEF IInv, TypeOK, Events, Publish, ArriveLate, Arrives
<1>2. /\ log' = [log EXCEPT ![e] = @ + 1] /\ UNCHANGED <<accepted, refused>>
      /\ topic' = [topic EXCEPT ![e.type] = Append(@, e.document)]
      /\ UNCHANGED <<api, status, leftBehind, offset, fetcher, extractor>>
  BY DEF Publish, ArriveLate, Arrives, Outbox!Append
<1>3. faults' \in 0..MaxFaults
  BY FaultsBounded DEF IInv, TypeOK, Publish, ArriveLate, NoFault
<1>4. ASSUME NEW t \in Consumed
      PROVE  /\ topic'[t] \in Seq(Documents)
             /\ \A i \in 1..Len(topic'[t]) : Told(t, topic'[t][i])
  <2>1. CASE t = e.type
    <3> DEFINE old == topic[t]
               new == Append(old, e.document)
    <3>1. old \in Seq(Documents) /\ topic'[t] = new
      BY <1>2, <2>1 DEF IInv, TypeOK, TopicTypes
    <3>2. /\ new \in Seq(Documents) /\ Len(new) = Len(old) + 1
          /\ \A i \in 1..Len(new) : new[i] = IF i <= Len(old) THEN old[i] ELSE e.document
      BY <1>1, <3>1
    <3>3. \A i \in 1..Len(old) : Told(t, old[i])
      BY DEF IInv
    <3>4. ASSUME NEW i \in 1..Len(new) PROVE Told(t, new[i])
      <4>1. i <= Len(old) => i \in 1..Len(old)
        BY <3>1
      <4> HIDE DEF old, new
      <4> QED
        BY <1>1, <2>1, <3>2, <3>3, <4>1
    <3> HIDE DEF old, new
    <3> QED
      BY <3>1, <3>2, <3>4
  <2>2. CASE t # e.type
    BY <1>2, <2>2 DEF IInv, TypeOK, TopicTypes
  <2> QED
    BY <2>1, <2>2
<1>5. TopicTypes'
  <2>1. topic' \in [Consumed -> Seq(Documents)] /\ offset' \in [Consumed -> Nat]
    BY <1>2, <1>4 DEF IInv, TypeOK, TopicTypes
  <2>2. \A t \in Consumed : offset'[t] <= Len(topic'[t])
    <3> SUFFICES ASSUME NEW t \in Consumed PROVE offset[t] <= Len(topic'[t])
      BY <1>2
    <3>1. /\ topic[t] \in Seq(Documents) /\ offset[t] \in Nat
          /\ offset[t] <= Len(topic[t])
      BY DEF IInv, TypeOK, TopicTypes
    <3>2. topic'[t] = topic[t] \/ topic'[t] = Append(topic[t], e.document)
      BY <1>2 DEF IInv, TypeOK, TopicTypes
    <3> QED
      BY <3>1, <3>2
  <2> QED
    BY <2>1, <2>2 DEF TopicTypes
<1>6. log' \in [Events -> Nat]
  BY <1>1, <1>2 DEF IInv, TypeOK
<1> QED
  BY <1>2, <1>3, <1>4, <1>5, <1>6, RecordsKept DEF IInv, TypeOK

LEMMA LossStep ==
    ASSUME IInv, NEW e \in accepted, Refuse(e) \/ LeaveBehind(e)
    PROVE  IInv' /\ UNCHANGED Lifecycle!vars
<1>1. UNCHANGED <<api, status, accepted, log, topic, offset, fetcher, extractor>>
  BY DEF Refuse, LeaveBehind, Outbox!Refuse, outbox, records
<1>2. refused' \subseteq accepted /\ leftBehind' \subseteq accepted
  BY DEF IInv, TypeOK, Refuse, LeaveBehind, Outbox!Refuse, outbox
<1>3. faults' \in 0..MaxFaults
  BY FaultsBounded DEF IInv, TypeOK, Refuse, LeaveBehind
<1> QED
  BY <1>1, <1>2, <1>3, RecordsKept DEF IInv, TypeOK, api, TopicTypes

\* The consumer group moves over records that have come, and back.
LEMMA OffsetStep ==
    ASSUME IInv, NEW type \in Consumed, Acknowledge(type) \/ Rewind(type)
    PROVE  IInv' /\ UNCHANGED Lifecycle!vars
<1>1. PICK n \in 0..Len(topic[type]) : offset' = [offset EXCEPT ![type] = n]
  <2>1. offset[type] \in 0..Len(topic[type]) /\ Len(topic[type]) \in Nat
    BY DEF IInv, TypeOK, TopicTypes
  <2>2. CASE Acknowledge(type)
    <3>1. offset[type] < Len(topic[type]) /\ offset' = [offset EXCEPT ![type] = offset[type] + 1]
      BY <2>2 DEF Acknowledge, NextRecord
    <3>2. offset[type] + 1 \in 0..Len(topic[type])
      BY <2>1, <3>1
    <3> QED
      BY <3>1, <3>2
  <2>3. CASE Rewind(type)
    <3>1. PICK older \in 0..(offset[type] - 1) : offset' = [offset EXCEPT ![type] = older]
      BY <2>3 DEF Rewind
    <3>2. older \in 0..Len(topic[type])
      BY <2>1
    <3> QED
      BY <3>1, <3>2
  <2> QED
    BY <2>2, <2>3
<1>2. UNCHANGED <<api, status, outbox, leftBehind, topic, fetcher, extractor>>
  BY DEF Acknowledge, Rewind
<1>3. faults' \in 0..MaxFaults
  BY FaultsBounded DEF IInv, TypeOK, Acknowledge, Rewind, NoFault
<1>4. TopicTypes'
  BY <1>1, <1>2 DEF IInv, TypeOK, TopicTypes
<1>5. \A t \in Consumed : \A i \in 1..Len(topic[t]) : Told(t, topic[t][i])
  BY DEF IInv
<1> QED
  BY <1>2, <1>3, <1>4, <1>5, RecordsKept DEF IInv, TypeOK, api, outbox

-----------------------------------------------------------------------------

LEMMA StepRefines ==
    ASSUME IInv, [Next]_vars
    PROVE  IInv' /\ [Lifecycle!Next]_Lifecycle!vars
<1>1. CASE UNCHANGED vars
  <2>1. IInv'
    BY <1>1
    DEF IInv, TypeOK, TopicTypes, InStep, Told, Fetcher!Undecided, Extractor!Undecided,
        vars, api, outbox, records, fetcher, extractor
  <2>2. UNCHANGED Lifecycle!vars
    BY <1>1 DEF vars, outbox, Lifecycle!vars
  <2> QED
    BY <2>1, <2>2
<1>2. CASE \E d \in Documents : RefuseUpload(d) \/ Submit(d)
  BY <1>2, RefuseUploadStep, SubmitStep
<1>3. CASE \E e \in accepted : Publish(e) \/ ArriveLate(e) \/ Refuse(e) \/ LeaveBehind(e)
  BY <1>3, ArrivalStep, LossStep
<1>4. CASE FetchStep \/ ExtractStep
  BY <1>4, FetchAcceptStep, FetchRejectStep, ExtractAcceptStep, ExtractRejectStep
  DEF FetchStep, ExtractStep
<1>5. CASE \E t \in Consumed : Acknowledge(t) \/ Rewind(t)
  BY <1>5, OffsetStep
<1> QED
  BY <1>1, <1>2, <1>3, <1>4, <1>5 DEF Next

\* Every reachable state of the pipeline satisfies the inductive invariant.
THEOREM InductiveInvariant == Spec => []IInv
<1>1. IInv /\ [Next]_vars => IInv'
  BY StepRefines
<1> QED
  BY <1>1, InductiveInit, PTL DEF Spec

\* Every step of the pipeline keeps the types.
THEOREM TypeCorrect == Spec => []TypeOK
<1>1. IInv => TypeOK
  BY DEF IInv
<1> QED
  BY <1>1, InductiveInvariant, PTL

\* However records are duplicated, delayed, lost or delivered again, each document
\* goes through its life once and each transition inserts one new outbox row.
THEOREM PipelineFollowsLifecycle == Spec => FollowsLifecycle
<1>1. Init => Lifecycle!Init
  BY DEF Init, Outbox!Init, Lifecycle!Init
<1>2. IInv /\ [Next]_vars => [Lifecycle!Next]_Lifecycle!vars
  BY StepRefines
<1> QED
  BY <1>1, <1>2, InductiveInvariant, PTL DEF Spec, FollowsLifecycle, Lifecycle!Spec

-----------------------------------------------------------------------------
(* The end that the bytes of a document deserve *)

\* Content and limits are what the stages make of them.
LEMMA DeservesByStages ==
    ASSUME NEW d \in Documents
    PROVE  /\ Deserves(d) = "extracted" <=>
                 d \in Fetchable /\ d \in Extractable /\ Content[d].text
           /\ Content[d].size \in Nat
<1>1. Content[d].size \in Nat
  BY PipelineAssumption DEF PipelineAssumption, Contents
<1>2. InspectedWhole(Content[d].size) <=> Content[d].size <= FetchLimit
  BY <1>1, LimitsAreExact
<1>3. CopiedWhole(Content[d].size) <=> Content[d].size > 0 /\ Content[d].size <= ExtractLimit
  BY <1>1, LimitsAreExact
<1> QED
  BY <1>1, <1>2, <1>3 DEF Deserves, Fetchable, Extractable

Undeserved == {d \in Documents : status[d] = "failed" /\ Deserves(d) = "extracted"}

\* Each stage has judged by the bytes, and a wrong end has its failure.
Judged(d) ==
    /\ upload[d] = "refused" => Content[d].size + Framing > ApiLimit
    /\ upload[d] = "accepted" => Content[d].size <= ApiLimit
    /\ fetched[d] > 0 => d \in Fetchable
    /\ status[d] = "extracted" => Deserves(d) = "extracted"

EndInv ==
    /\ \A d \in Documents : Judged(d)
    /\ IsFiniteSet(Undeserved)
    /\ Cardinality(Undeserved) <= faults

LEMMA InitEndInv == Init => EndInv
<1> SUFFICES ASSUME Init PROVE EndInv
  OBVIOUS
<1>1. \A d \in Documents : Judged(d)
  BY DEF Init, Judged, Fetcher!Init
<1>2. Undeserved = {}
  BY DEF Init, Undeserved
<1>3. IsFiniteSet(Undeserved) /\ Cardinality(Undeserved) = 0
  BY <1>2, FS_EmptySet
<1> QED
  BY <1>1, <1>3 DEF Init, EndInv

\* A status that is no undeserved failure leaves the wrong ends as they are.
LEMMA StatusMoves ==
    ASSUME IInv, NEW d \in Documents, NEW new, status' = [status EXCEPT ![d] = new]
    PROVE  /\ \A c \in Documents \ {d} : status'[c] = status[c]
           /\ status'[d] = new
           /\ Undeserved' \subseteq Undeserved \cup {d}
           /\ new # "failed" \/ Deserves(d) # "extracted" => Undeserved' \subseteq Undeserved
<1>1. (\A c \in Documents \ {d} : status'[c] = status[c]) /\ status'[d] = new
  BY DEF IInv, TypeOK
<1>2. \A c \in Undeserved' : c \in Documents /\ status'[c] = "failed" /\ Deserves(c) = "extracted"
  BY DEF Undeserved, Deserves
<1> QED
  BY <1>1, <1>2 DEF Undeserved

\* What a step of the API or of a worker does to the ends.
LEMMA EndSteps ==
    ASSUME IInv, EndInv, NEW d \in Documents,
           \/ RefuseUpload(d) \/ Submit(d)
           \/ FetchAccept(d) \/ FetchReject(d) \/ ExtractAccept(d) \/ ExtractReject(d)
    PROVE  /\ \A c \in Documents : Judged(c)'
           /\ \/ Undeserved' \subseteq Undeserved /\ faults' \in {faults, faults + 1}
              \/ Undeserved' \subseteq Undeserved \cup {d} /\ faults' = faults + 1
<1> USE DEF api, records, fetcher, extractor, NoFault
<1>1. /\ upload \in [Documents -> {"none", "refused", "accepted"}]
      /\ fetched \in [Documents -> Nat]
      /\ \A c \in Documents : Judged(c)
  BY Counts DEF IInv, TypeOK, EndInv
<1>2. Deserves(d) = "extracted" <=> d \in Fetchable /\ d \in Extractable /\ Content[d].text
  BY DeservesByStages
<1>3. /\ Content[d].size \in Nat
      /\ RefusedWhileReading(Content[d].size) <=> Content[d].size > ApiLimit
  BY DeservesByStages, LimitsAreExact
<1>4. CASE RefuseUpload(d)
  <2>1. /\ upload' = [upload EXCEPT ![d] = "refused"]
        /\ UNCHANGED <<status, fetched, faults>>
    BY <1>4 DEF RefuseUpload
  <2>2. Content[d].size + Framing > ApiLimit
    BY <1>3, <1>4, Limits DEF RefuseUpload, RefusedByLength
  <2>3. \A c \in Documents : Judged(c)'
    BY <1>1, <2>1, <2>2 DEF Judged, Deserves
  <2>4. Undeserved' = Undeserved
    BY <2>1 DEF Undeserved, Deserves
  <2> QED
    BY <2>1, <2>3, <2>4
<1>5. CASE Submit(d)
  <2>1. /\ upload' = [upload EXCEPT ![d] = "accepted"] /\ fetched' = fetched
        /\ status' = [status EXCEPT ![d] = "submitted"]
        /\ faults' \in {faults, faults + 1}
    BY <1>5 DEF Submit, Commit, Fault
  <2>2. Content[d].size <= ApiLimit
    BY <1>3, <1>5, Limits DEF Submit
  <2>3. \A c \in Documents : Judged(c)'
    BY <1>1, <2>1, <2>2, StatusMoves DEF Judged, Deserves
  <2> QED
    BY <2>1, <2>3, StatusMoves
<1>6. CASE FetchAccept(d)
  <2>1. /\ upload' = upload /\ fetched' = [fetched EXCEPT ![d] = @ + 1]
        /\ status' = [status EXCEPT ![d] = "fetched"]
        /\ faults' = faults /\ d \in Fetchable
    BY <1>6 DEF FetchAccept, Fetcher!Accept, Commit
  <2>2. \A c \in Documents : Judged(c)'
    BY <1>1, <2>1, StatusMoves DEF Judged, Deserves, Fetchable
  <2> QED
    BY <2>1, <2>2, StatusMoves
<1>7. CASE FetchReject(d)
  <2>1. /\ upload' = upload /\ fetched' = fetched
        /\ status' = [status EXCEPT ![d] = "failed"]
        /\ faults' = faults /\ d \notin Fetchable
    BY <1>7 DEF FetchReject, Fetcher!Reject, Commit
  <2>2. \A c \in Documents : Judged(c)'
    BY <1>1, <2>1, StatusMoves DEF Judged, Deserves, Fetchable
  <2> QED
    BY <1>2, <2>1, <2>2, StatusMoves
<1>8. CASE ExtractAccept(d)
  <2>1. /\ upload' = upload /\ fetched' = fetched
        /\ status' = [status EXCEPT ![d] = StatusAfter(d)]
        /\ faults' = faults /\ d \in Extractable
    BY <1>8 DEF ExtractAccept, Extractor!Accept, Commit
  <2>2. d \in Fetchable
    <3>1. Told("DocumentFetched", d)
      BY <1>8, NextIsTold DEF ExtractAccept, Consumed
    <3> QED
      BY <1>1, <3>1 DEF Told, Judged
  <2>3. /\ StatusAfter(d) = "extracted" => Deserves(d) = "extracted"
        /\ StatusAfter(d) = "failed" => Deserves(d) # "extracted"
    BY <1>2, <2>1, <2>2 DEF StatusAfter
  <2>4. \A c \in Documents : Judged(c)'
    BY <1>1, <2>1, <2>3, StatusMoves DEF Judged, Deserves, Fetchable
  <2> QED
    BY <2>1, <2>3, <2>4, StatusMoves
<1>9. CASE ExtractReject(d)
  <2>1. /\ upload' = upload /\ fetched' = fetched
        /\ status' = [status EXCEPT ![d] = "failed"]
        /\ (faults' = faults /\ d \notin Extractable) \/ faults' = faults + 1
    BY <1>9 DEF ExtractReject, Extractor!Reject, Commit, Fault
  <2>2. \A c \in Documents : Judged(c)'
    BY <1>1, <2>1, StatusMoves DEF Judged, Deserves, Fetchable
  <2> QED
    BY <1>2, <2>1, <2>2, StatusMoves
<1> QED
  BY <1>4, <1>5, <1>6, <1>7, <1>8, <1>9

LEMMA NextEndInv ==
    ASSUME IInv, EndInv, [Next]_vars
    PROVE  EndInv'
<1>1. faults \in Nat /\ IsFiniteSet(Undeserved) /\ Cardinality(Undeserved) \in Nat
  BY FS_CardinalityType, PipelineAssumption DEF PipelineAssumption, IInv, TypeOK, EndInv
<1>2. ASSUME \A c \in Documents : Judged(c)',
             Undeserved' \subseteq Undeserved, faults' \in {faults, faults + 1}
      PROVE  EndInv'
  <2>1. /\ IsFiniteSet(Undeserved') /\ Cardinality(Undeserved') \in Nat
        /\ Cardinality(Undeserved') <= Cardinality(Undeserved)
    BY <1>1, <1>2, FS_Subset, FS_CardinalityType
  <2> QED
    BY <1>1, <1>2, <2>1 DEF EndInv
<1>3. ASSUME \A c \in Documents : Judged(c)', NEW d,
             Undeserved' \subseteq Undeserved \cup {d}, faults' = faults + 1
      PROVE  EndInv'
  <2>1. /\ IsFiniteSet(Undeserved') /\ Cardinality(Undeserved') \in Nat
        /\ Cardinality(Undeserved') <= Cardinality(Undeserved) + 1
    BY <1>1, <1>3, AtMostOneMore
  <2> QED
    BY <1>1, <1>3, <2>1 DEF EndInv
<1>4. ASSUME UNCHANGED <<upload, status, fetched>>, faults' \in {faults, faults + 1}
      PROVE  EndInv'
  <2>1. Undeserved' = Undeserved
    BY <1>4 DEF Undeserved, Deserves
  <2>2. \A c \in Documents : Judged(c)'
    BY <1>4 DEF EndInv, Judged, Deserves, Fetchable
  <2> QED
    BY <1>2, <1>4, <2>1, <2>2
<1>5. ASSUME NEW d \in Documents,
             \/ RefuseUpload(d) \/ Submit(d)
             \/ FetchAccept(d) \/ FetchReject(d) \/ ExtractAccept(d) \/ ExtractReject(d)
      PROVE  EndInv'
  BY <1>2, <1>3, <1>5, EndSteps
<1>6. ASSUME NEW e \in accepted, Publish(e) \/ ArriveLate(e) \/ Refuse(e) \/ LeaveBehind(e)
      PROVE  EndInv'
  BY <1>4, <1>6 DEF Publish, ArriveLate, Refuse, LeaveBehind, Fault, api, fetcher
<1>7. ASSUME NEW t \in Consumed, Acknowledge(t) \/ Rewind(t)
      PROVE  EndInv'
  BY <1>4, <1>7 DEF Acknowledge, Rewind, Fault, api, fetcher
<1>8. CASE UNCHANGED vars
  BY <1>4, <1>8 DEF vars, api, fetcher
<1> QED
  BY <1>5, <1>6, <1>7, <1>8 DEF Next, FetchStep, ExtractStep

\* Documents of up to the limits are accepted, fetched and extracted and others
\* are not, to the byte, at every size and every chunk size; only as many
\* documents as there were failures end worse than their bytes deserve.
THEOREM DeservedEnds == Spec => []EndIsDeserved
<1>1. IInv /\ EndInv => EndIsDeserved
  BY DEF EndInv, Judged, EndIsDeserved, Undeserved
<1> QED
  BY <1>1, InitEndInv, NextEndInv, InductiveInvariant, PTL DEF Spec
=============================================================================
