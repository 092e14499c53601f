---------------------- MODULE DocumentSubmissionProofs ----------------------
(***************************************************************************)
(* Proofs about DocumentSubmission for any set of requests, any attributes *)
(* and any failures.  Uniqueness of the committed documents rests on the   *)
(* keys of the open transactions (Support), and the truth of the answers   *)
(* on object keys that no two requests share.                              *)
(***************************************************************************)
EXTENDS DocumentSubmission, DataFacts

\* Keys carry the fresh document_id, so no two requests share one.
LEMMA SourceKeyUnique ==
    ASSUME NEW r, NEW s, SourceKey(r) = SourceKey(s)
    PROVE  r = s
    BY DEF SourceKey

LEMMA InitIInv == Init => IInv
    BY SubmissionAssumption
    DEF Init, IInv, TypeOK, NoSecondEvent, AnswersAreTrue, ConflictHasACause, Support,
        HasDocumentRow, HasVersionRow, PcValues

\* Every step keeps the variables in their types.
LEMMA NextTypeOK ==
    ASSUME TypeOK, Next
    PROVE  TypeOK'
  <1> USE SubmissionAssumption DEF TypeOK, PcValues, Goto, Answer
  <1>1. PICK r \in Requests : Refuse(r) \/ Receive(r) \/ Handle(r) \/ Fail(r)
    BY DEF Next
  <1>2. CASE Refuse(r)
    BY <1>2 DEF Refuse, RejectOversized, RejectUnnamed
  <1>3. CASE Receive(r)
    BY <1>3 DEF Receive
  <1>4. CASE Put(r)
    BY <1>4 DEF Put
  <1>5. CASE InsertDocument(r)
    BY <1>5 DEF InsertDocument
  <1>6. CASE InsertVersion(r)
    BY <1>6 DEF InsertVersion
  <1>7. CASE Commit(r)
    BY <1>7 DEF Commit
  <1>8. CASE Compensate(r)
    BY <1>8 DEF Compensate, Removed, CompensatedCode
  <1>9. CASE PutRaises(r)
    BY <1>9 DEF PutRaises, Fault
  <1>10. CASE TransactionRaises(r)
    BY <1>10 DEF TransactionRaises, Fault
  <1>11. CASE CompensationRaises(r)
    BY <1>11 DEF CompensationRaises, Fault, Removed
  <1>12. CASE Crash(r)
    BY <1>12 DEF Crash, Fault
  <1>13. QED
    BY <1>1, <1>2, <1>3, <1>4, <1>5, <1>6, <1>7, <1>8, <1>9, <1>10, <1>11, <1>12
    DEF Handle, Fail

-----------------------------------------------------------------------------
(* The inductive step, grouped by what a step does to the bucket and the   *)
(* tables.                                                                 *)

Relations == NoSecondEvent /\ AnswersAreTrue /\ ConflictHasACause /\ Support

\* A step of r that commits nothing, deletes nothing and takes no key.
Quiet(r, label, code) ==
    /\ label \in PcValues \ {"conflict", "versions", "outbox"}
    /\ pc' = [pc EXCEPT ![r] = label]
    /\ response' = [response EXCEPT ![r] = code]
    /\ committed' = committed
    /\ objects \subseteq objects'
    /\ label \notin {"undo", "answered", "gone"} => r \notin committed
    /\ label = "documents" => SourceKey(r) \in objects'
    /\ label # "answered" => code = 0
    /\ code \notin {201, 409}
    /\ code \in {413, 422, 503} => r \notin committed

LEMMA QuietStep ==
    ASSUME IInv, TypeOK', NEW r \in Requests, NEW label, NEW code, Quiet(r, label, code)
    PROVE  Relations'
  <1> USE DEF Quiet, IInv, TypeOK, SameDocument, SameContent
  <1>1. NoSecondEvent'
    BY DEF NoSecondEvent
  <1>2. AnswersAreTrue'
    BY DEF AnswersAreTrue, SourceKey
  <1>3. ConflictHasACause'
    BY DEF ConflictHasACause
  <1>4. Support'
    <2>1. \A s \in Requests \ {r} : pc'[s] = pc[s] /\ response'[s] = response[s]
      OBVIOUS
    <2>2. pc'[r] = label /\ response'[r] = code
      OBVIOUS
    <2>3. QED
      BY <2>1, <2>2 DEF Support, HasDocumentRow, HasVersionRow, SourceKey
  <1>5. QED
    BY <1>1, <1>2, <1>3, <1>4 DEF Relations

\* Taking the document key: no open transaction has it, no committed row.
LEMMA InsertDocumentKeepsRelations ==
    ASSUME IInv, TypeOK', NEW r \in Requests, InsertDocument(r)
    PROVE  Relations'
  <1> USE DEF IInv, TypeOK, SameDocument, SameContent
  <1>1. /\ pc[r] = "documents" /\ DocumentKeyFree(r)
        /\ pc' = [pc EXCEPT ![r] = IF DocumentViolates(r) THEN "conflict" ELSE "versions"]
        /\ UNCHANGED <<response, objects, committed>>
    BY DEF InsertDocument, Goto
  <1>2. NoSecondEvent' /\ AnswersAreTrue' /\ ConflictHasACause'
    BY <1>1 DEF NoSecondEvent, AnswersAreTrue, ConflictHasACause, SourceKey
  <1>3. \A s \in Requests \ {r} : pc'[s] = pc[s]
    BY <1>1
  <1>4. CASE DocumentViolates(r)
    <2>1. pc'[r] = "conflict"
      BY <1>1, <1>4
    <2>2. Tenant[r] \notin KnownTenants \/ \E s \in committed : SameDocument(r, s)
      BY <1>4 DEF DocumentViolates
    <2>3. QED
      BY <1>1, <1>2, <1>3, <2>1, <2>2
      DEF Relations, Support, HasDocumentRow, HasVersionRow, SourceKey, PcValues
  <1>5. CASE ~DocumentViolates(r)
    <2>1. pc'[r] = "versions"
      BY <1>1, <1>5
    <2>2. \A s \in committed : ~SameDocument(r, s)
      BY <1>5 DEF DocumentViolates
    <2>3. \A s \in Requests \ {r} :
             HasDocumentRow(s) => ~SameDocument(r, s) /\ ~SameDocument(s, r)
      BY <1>1 DEF DocumentKeyFree, Others
    <2>4. QED
      BY <1>1, <1>2, <1>3, <2>1, <2>2, <2>3
      DEF Relations, Support, HasDocumentRow, HasVersionRow, SourceKey, PcValues
  <1>6. QED
    BY <1>4, <1>5

\* Taking the content key, likewise.
LEMMA InsertVersionKeepsRelations ==
    ASSUME IInv, TypeOK', NEW r \in Requests, InsertVersion(r)
    PROVE  Relations'
  <1> USE DEF IInv, TypeOK, SameDocument, SameContent
  <1>1. /\ pc[r] = "versions" /\ ContentKeyFree(r)
        /\ pc' = [pc EXCEPT ![r] = IF VersionViolates(r) THEN "conflict" ELSE "outbox"]
        /\ UNCHANGED <<response, objects, committed>>
    BY DEF InsertVersion, Goto
  <1>2. NoSecondEvent' /\ AnswersAreTrue' /\ ConflictHasACause'
    BY <1>1 DEF NoSecondEvent, AnswersAreTrue, ConflictHasACause, SourceKey
  <1>3. \A s \in Requests \ {r} : pc'[s] = pc[s]
    BY <1>1
  <1>4. CASE VersionViolates(r)
    <2>1. pc'[r] = "conflict"
      BY <1>1, <1>4
    <2>2. \E s \in committed : SameContent(r, s)
      BY <1>4 DEF VersionViolates
    <2>3. QED
      BY <1>1, <1>2, <1>3, <2>1, <2>2
      DEF Relations, Support, HasDocumentRow, HasVersionRow, SourceKey, PcValues
  <1>5. CASE ~VersionViolates(r)
    <2>1. pc'[r] = "outbox"
      BY <1>1, <1>5
    <2>2. \A s \in committed : ~SameContent(r, s)
      BY <1>5 DEF VersionViolates
    <2>3. \A s \in Requests \ {r} :
             HasVersionRow(s) => ~SameContent(r, s) /\ ~SameContent(s, r)
      BY <1>1 DEF ContentKeyFree, Others
    <2>4. QED
      BY <1>1, <1>2, <1>3, <2>1, <2>2, <2>3
      DEF Relations, Support, HasDocumentRow, HasVersionRow, SourceKey, PcValues
  <1>6. QED
    BY <1>4, <1>5

\* Committing: the keys r holds differ from every committed row's and from
\* every other open transaction's.
Commits(r, label, code) ==
    /\ pc[r] = "outbox"
    /\ committed' = committed \cup {r}
    /\ pc' = [pc EXCEPT ![r] = label]
    /\ response' = [response EXCEPT ![r] = code]
    /\ objects' = objects
    /\ \/ label = "answered" /\ code = 201
       \/ label = "undo" /\ code = 0

LEMMA CommitKeepsRelations ==
    ASSUME IInv, TypeOK', NEW r \in Requests, NEW label, NEW code, Commits(r, label, code)
    PROVE  Relations'
  <1> USE DEF Commits, IInv, TypeOK, SameDocument, SameContent
  <1>1. HasDocumentRow(r) /\ HasVersionRow(r) /\ SourceKey(r) \in objects
    BY DEF HasDocumentRow, HasVersionRow, Support
  <1>2. \A s \in committed : ~SameDocument(r, s) /\ ~SameContent(r, s)
    BY <1>1 DEF Support
  <1>3. NoSecondEvent'
    BY <1>2 DEF NoSecondEvent
  <1>4. AnswersAreTrue'
    BY <1>1 DEF AnswersAreTrue, SourceKey, Support
  <1>5. ConflictHasACause'
    BY DEF ConflictHasACause
  <1>6. Support'
    <2>1. /\ \A s \in Requests \ {r} : pc'[s] = pc[s] /\ response'[s] = response[s]
          /\ pc'[r] = label /\ response'[r] = code
      OBVIOUS
    <2>2. \A s \in Requests \ {r} :
             /\ HasDocumentRow(s) => ~SameDocument(s, r)
             /\ HasVersionRow(s) => ~SameContent(s, r)
      BY <1>1 DEF Support
    <2>3. QED
      BY <2>1, <2>2 DEF Support, HasDocumentRow, HasVersionRow, SourceKey, PcValues
  <1>7. QED
    BY <1>3, <1>4, <1>5, <1>6 DEF Relations

\* Compensation removes r's own object and no other request's.
Compensates(r, code) ==
    /\ code \in {409, 500}
    /\ pc[r] \in {"conflict", "undo"}
    /\ objects' = objects \/ Removed(r)
    /\ committed' = committed
    /\ pc' = [pc EXCEPT ![r] = "answered"]
    /\ response' = [response EXCEPT ![r] = code]
    /\ code = 409 => pc[r] = "conflict"

LEMMA CompensationKeepsRelations ==
    ASSUME IInv, TypeOK', NEW r \in Requests, NEW code, Compensates(r, code)
    PROVE  Relations'
  <1> USE DEF Compensates, IInv, TypeOK, SameDocument, SameContent
  <1>1. \A s \in Requests \ {r} : SourceKey(s) \in objects => SourceKey(s) \in objects'
    BY SourceKeyUnique DEF Removed
  <1>2. /\ \A s \in Requests \ {r} : pc'[s] = pc[s] /\ response'[s] = response[s]
        /\ pc'[r] = "answered" /\ response'[r] = code
    OBVIOUS
  <1>3. NoSecondEvent'
    BY DEF NoSecondEvent
  <1>4. AnswersAreTrue'
    <2>1. \A s \in Requests \ {r} : response[s] = 201 => SourceKey(s) \in objects'
      BY <1>1 DEF AnswersAreTrue
    <2>2. code = 409 => r \notin committed
      BY DEF Support, PcValues
    <2>3. QED
      BY <1>2, <2>1, <2>2 DEF AnswersAreTrue, SourceKey
  <1>5. ConflictHasACause'
    <2>1. code = 409 => r \notin committed /\
             \/ Tenant[r] \notin KnownTenants
             \/ \E s \in committed : SameDocument(r, s) \/ SameContent(r, s)
      BY DEF Support, PcValues
    <2>2. QED
      BY <1>2, <2>1 DEF ConflictHasACause
  <1>6. Support'
    <2>1. \A s \in Requests \ {r} :
             pc[s] \in {"documents", "versions", "outbox"} => SourceKey(s) \in objects'
      BY <1>1 DEF Support
    <2>2. QED
      BY <1>2, <2>1 DEF Support, HasDocumentRow, HasVersionRow, SourceKey, PcValues
  <1>7. QED
    BY <1>3, <1>4, <1>5, <1>6 DEF Relations

\* Every step, and stuttering, preserve the inductive invariant.
LEMMA NextIInv ==
    ASSUME IInv, [Next]_vars
    PROVE  IInv'
  <1>1. CASE UNCHANGED vars
    BY <1>1 DEF vars, IInv, TypeOK, NoSecondEvent, AnswersAreTrue, ConflictHasACause, Support,
                HasDocumentRow, HasVersionRow, SameDocument, SameContent, SourceKey, PcValues
  <1>2. CASE Next
    <2>1. TypeOK'
      BY <1>2, NextTypeOK DEF IInv
    <2>2. SUFFICES ASSUME NEW r \in Requests,
                          Refuse(r) \/ Receive(r) \/ Handle(r) \/ Fail(r)
                   PROVE  Relations'
      BY <1>2, <2>1 DEF Next, IInv, Relations
    <2>3. /\ response = [response EXCEPT ![r] = response[r]]
          /\ pc[r] # "answered" => response[r] = 0
          /\ pc[r] \in PcValues
          /\ pc[r] \in PcValues \ {"undo", "answered", "gone"} => r \notin committed
      BY <2>2 DEF Support, IInv, TypeOK
    <2>4. CASE Refuse(r)
      <3>1. Quiet(r, "answered", 413) \/ Quiet(r, "answered", 422)
        BY <2>3, <2>4 DEF Refuse, RejectOversized, RejectUnnamed, Answer, Quiet, PcValues
      <3>2. QED
        BY <2>1, <2>2, <3>1, QuietStep
    <2>5. CASE Receive(r)
      <3>1. Quiet(r, "uploading", 0)
        BY <2>3, <2>5 DEF Receive, Goto, Quiet, PcValues
      <3>2. QED
        BY <2>1, <2>2, <3>1, QuietStep
    <2>6. CASE Put(r)
      <3>1. Quiet(r, "documents", 0)
        BY <2>3, <2>6 DEF Put, Goto, Quiet, PcValues
      <3>2. QED
        BY <2>1, <2>2, <3>1, QuietStep
    <2>7. CASE PutRaises(r)
      <3>1. Quiet(r, "answered", 503)
        BY <2>3, <2>7 DEF PutRaises, Answer, Quiet, PcValues
      <3>2. QED
        BY <2>1, <2>2, <3>1, QuietStep
    <2>8. CASE Crash(r)
      <3>1. Quiet(r, "gone", 0)
        BY <2>3, <2>8 DEF Crash, Goto, Quiet, PcValues
      <3>2. QED
        BY <2>1, <2>2, <3>1, QuietStep
    <2>9. CASE InsertDocument(r)
      BY <2>1, <2>2, <2>9, InsertDocumentKeepsRelations
    <2>10. CASE InsertVersion(r)
      BY <2>1, <2>2, <2>10, InsertVersionKeepsRelations
    <2>11. CASE Commit(r)
      <3>1. Commits(r, "answered", 201)
        BY <2>11 DEF Commit, Answer, Commits
      <3>2. QED
        BY <2>1, <2>2, <3>1, CommitKeepsRelations
    <2>12. CASE TransactionRaises(r)
      <3>1. CASE UNCHANGED committed
        <4>1. Quiet(r, "undo", 0)
          BY <2>3, <2>12, <3>1 DEF TransactionRaises, Goto, Quiet, PcValues
        <4>2. QED
          BY <2>1, <2>2, <4>1, QuietStep
      <3>2. CASE pc[r] = "outbox" /\ committed' = committed \cup {r}
        <4>1. Commits(r, "undo", 0)
          BY <2>3, <2>12, <3>2 DEF TransactionRaises, Goto, Commits
        <4>2. QED
          BY <2>1, <2>2, <4>1, CommitKeepsRelations
      <3>3. QED
        BY <2>12, <3>1, <3>2 DEF TransactionRaises
    <2>13. CASE Compensate(r)
      <3>1. Compensates(r, CompensatedCode(r))
        BY <2>13 DEF Compensate, Answer, Compensates, CompensatedCode
      <3>2. QED
        BY <2>1, <2>2, <3>1, CompensationKeepsRelations
    <2>14. CASE CompensationRaises(r)
      <3>1. Compensates(r, 500)
        BY <2>14 DEF CompensationRaises, Answer, Compensates
      <3>2. QED
        BY <2>1, <2>2, <3>1, CompensationKeepsRelations
    <2>15. QED
      BY <2>2, <2>4, <2>5, <2>6, <2>7, <2>8, <2>9, <2>10, <2>11, <2>12, <2>13, <2>14
      DEF Handle, Fail
  <1>3. QED
    BY <1>1, <1>2

-----------------------------------------------------------------------------
(* Theorems *)

\* The inductive invariant holds in every reachable state.
THEOREM InductiveInvariant == Spec => []IInv
  <1>1. QED
    BY InitIInv, NextIInv, PTL DEF Spec

\* Every variable keeps its type.
THEOREM TypeCorrect == Spec => []TypeOK
  <1>1. IInv => TypeOK
    BY DEF IInv
  <1>2. QED
    BY <1>1, InductiveInvariant, PTL

\* Overlapping submissions of one external id, or of the same bytes, commit at
\* most one document and one event.
THEOREM OneEventPerDocument == Spec => []NoSecondEvent
  <1>1. IInv => NoSecondEvent
    BY DEF IInv
  <1>2. QED
    BY <1>1, InductiveInvariant, PTL

\* 201 has rows and an object, 409, 413, 422 and 503 have no rows.
THEOREM TrueAnswers == Spec => []AnswersAreTrue
  <1>1. IInv => AnswersAreTrue
    BY DEF IInv
  <1>2. QED
    BY <1>1, InductiveInvariant, PTL

\* Every 409 has a cause in the committed state.
THEOREM ConflictsHaveCauses == Spec => []ConflictHasACause
  <1>1. IInv => ConflictHasACause
    BY DEF IInv
  <1>2. QED
    BY <1>1, InductiveInvariant, PTL

\* With outcomes the API is told of, compensation only ever runs for requests
\* that are not committed.
SourceInv ==
    /\ CommittedKeepsSource
    /\ \A r \in Requests : pc[r] = "undo" => r \notin committed

LEMMA NextSourceInv ==
    ASSUME IInv, SourceInv, [Next]_vars, "commit_ack_lost" \notin FaultKinds
    PROVE  SourceInv'
  <1> USE DEF IInv, TypeOK, PcValues
  <1>1. CASE UNCHANGED vars
    BY <1>1 DEF vars, SourceInv, CommittedKeepsSource, SourceKey
  <1>2. CASE Next
    <2>1. PICK r \in Requests : Refuse(r) \/ Receive(r) \/ Handle(r) \/ Fail(r)
      BY <1>2 DEF Next
    <2>2. ASSUME committed' = committed, objects \subseteq objects',
                 \A s \in Requests \ {r} : pc'[s] = pc[s],
                 pc'[r] = "undo" => r \notin committed
          PROVE  SourceInv'
      BY <2>1, <2>2 DEF SourceInv, CommittedKeepsSource, SourceKey
    <2>3. CASE Refuse(r) \/ Receive(r) \/ Put(r) \/ PutRaises(r) \/ Crash(r)
               \/ InsertDocument(r) \/ InsertVersion(r)
      BY <2>1, <2>2, <2>3
      DEF Refuse, RejectOversized, RejectUnnamed, Receive, Put,
          PutRaises, Crash, InsertDocument, InsertVersion,
          Goto, Answer
    <2>4. CASE Commit(r)
      <3>1. SourceKey(r) \in objects
        BY <2>1, <2>4 DEF Commit, Support
      <3>2. QED
        BY <2>1, <2>4, <3>1 DEF Commit, Answer, SourceInv, CommittedKeepsSource, SourceKey
    <2>5. CASE TransactionRaises(r)
      <3>1. committed' = committed /\ r \notin committed
        BY <2>1, <2>5 DEF TransactionRaises, Fault, Support
      <3>2. QED
        BY <2>1, <2>2, <2>5, <3>1 DEF TransactionRaises, Goto
    <2>6. CASE Compensate(r) \/ CompensationRaises(r)
      <3>1. r \notin committed
        BY <2>1, <2>6 DEF Compensate, CompensationRaises, Support, SourceInv
      <3>2. /\ committed' = committed
            /\ pc' = [pc EXCEPT ![r] = "answered"]
            /\ objects' = objects \/ Removed(r)
        BY <2>1, <2>6 DEF Compensate, CompensationRaises, Answer
      <3>3. \A s \in committed : SourceKey(s) \in objects'
        BY <2>1, <3>1, <3>2, SourceKeyUnique DEF SourceInv, CommittedKeepsSource, Removed
      <3>4. QED
        BY <2>1, <3>2, <3>3 DEF SourceInv, CommittedKeepsSource, SourceKey
    <2>7. QED
      BY <2>1, <2>3, <2>4, <2>5, <2>6 DEF Handle, Fail
  <1>3. QED
    BY <1>1, <1>2

\* A committed document keeps its source object, if no COMMIT succeeds behind
\* an exception.
THEOREM SourceKept ==
    ASSUME "commit_ack_lost" \notin FaultKinds
    PROVE  Spec => []CommittedKeepsSource
  <1>1. Init => SourceInv
    BY DEF Init, SourceInv, CommittedKeepsSource
  <1>2. ASSUME IInv, SourceInv, [Next]_vars
        PROVE  SourceInv'
    BY <1>2, NextSourceInv
  <1>3. SourceInv => CommittedKeepsSource
    BY DEF SourceInv
  <1>4. QED
    BY <1>1, <1>2, <1>3, InductiveInvariant, PTL DEF Spec

-----------------------------------------------------------------------------
(* Orphaned objects: each is paid for by a failure. *)

Orphan(r) == Finished(r) /\ r \notin committed /\ SourceKey(r) \in objects

Orphans == {r \in Requests : Orphan(r)}

\* The count of the orphans, and that no object is there before its upload.
OrphanInv ==
    /\ \A r \in Requests : pc[r] = "idle" => SourceKey(r) \notin objects
    /\ IsFiniteSet(Orphans)
    /\ Cardinality(Orphans) <= faults

LEMMA InitOrphanInv == Init => OrphanInv
  <1> SUFFICES ASSUME Init PROVE OrphanInv
    OBVIOUS
  <1>1. Orphans = {}
    BY DEF Init, Orphans, Orphan
  <1>2. IsFiniteSet(Orphans) /\ Cardinality(Orphans) = 0
    BY <1>1, FS_EmptySet
  <1>3. QED
    BY <1>2 DEF Init, OrphanInv

\* A step concerns one request: it makes no other orphan, and makes one of its
\* own only at the price of a failure.
LEMMA StepOrphans ==
    ASSUME IInv, OrphanInv, NEW r \in Requests,
           Refuse(r) \/ Receive(r) \/ Handle(r) \/ Fail(r)
    PROVE  /\ \A s \in Requests \ {r} : Orphan(s)' => Orphan(s)
           /\ pc'[r] # "idle"
           /\ \A s \in Requests \ {r} : pc'[s] = "idle" => SourceKey(s) \notin objects'
           /\ \/ faults' = faults /\ ~Orphan(r)'
              \/ faults' = faults + 1
  <1> USE DEF IInv, TypeOK
  <1>1. \A s \in Requests \ {r} : pc'[s] = pc[s]
    BY DEF Refuse, RejectOversized, RejectUnnamed,
           Receive, Handle, Put, InsertDocument, InsertVersion, Commit,
           Compensate, Fail, PutRaises, TransactionRaises, CompensationRaises, Crash,
           Goto, Answer
  <1>2. objects' \subseteq objects \cup {SourceKey(r)}
    BY DEF Refuse, RejectOversized, RejectUnnamed,
           Receive, Handle, Put, InsertDocument, InsertVersion, Commit,
           Compensate, Fail, PutRaises, TransactionRaises, CompensationRaises, Crash,
           Removed
  <1>3. committed \subseteq committed'
    BY DEF Refuse, RejectOversized, RejectUnnamed,
           Receive, Handle, Put, InsertDocument, InsertVersion, Commit,
           Compensate, Fail, PutRaises, TransactionRaises, CompensationRaises, Crash
  <1>4. \A s \in Requests \ {r} : SourceKey(s) \in objects' => SourceKey(s) \in objects
    BY <1>2, SourceKeyUnique
  <1>5. \A s \in Requests \ {r} : Orphan(s)' => Orphan(s)
    BY <1>1, <1>3, <1>4 DEF Orphan, Finished, SourceKey
  <1>6. \A s \in Requests \ {r} : pc'[s] = "idle" => SourceKey(s) \notin objects'
    BY <1>1, <1>4 DEF OrphanInv
  <1>7. pc'[r] # "idle"
    BY DEF Refuse, RejectOversized, RejectUnnamed,
           Receive, Handle, Put, InsertDocument, InsertVersion, Commit,
           Compensate, Fail, PutRaises, TransactionRaises, CompensationRaises, Crash,
           Goto, Answer
  <1>8. CASE Refuse(r)
    <2>1. SourceKey(r) \notin objects' /\ faults' = faults
      BY <1>8 DEF Refuse, RejectOversized, RejectUnnamed, OrphanInv
    <2>2. QED
      BY <1>5, <1>6, <1>7, <2>1 DEF Orphan, SourceKey
  <1>9. CASE Receive(r) \/ Put(r) \/ InsertDocument(r) \/ InsertVersion(r)
    <2>1. pc'[r] \notin {"answered", "gone"} /\ faults' = faults
      BY <1>9 DEF Receive, Put, InsertDocument, InsertVersion, Goto
    <2>2. QED
      BY <1>5, <1>6, <1>7, <2>1 DEF Orphan, Finished
  <1>10. CASE Commit(r)
    <2>1. r \in committed' /\ faults' = faults
      BY <1>10 DEF Commit
    <2>2. QED
      BY <1>5, <1>6, <1>7, <2>1 DEF Orphan
  <1>11. CASE Compensate(r)
    <2>1. SourceKey(r) \notin objects' /\ faults' = faults
      BY <1>11 DEF Compensate, Removed
    <2>2. QED
      BY <1>5, <1>6, <1>7, <2>1 DEF Orphan, SourceKey
  <1>12. CASE Fail(r)
    <2>1. faults' = faults + 1
      BY <1>12 DEF Fail, PutRaises, TransactionRaises, CompensationRaises, Crash, Fault
    <2>2. QED
      BY <1>5, <1>6, <1>7, <2>1
  <1>13. QED
    BY <1>8, <1>9, <1>10, <1>11, <1>12 DEF Handle

LEMMA NextOrphanInv ==
    ASSUME IInv, OrphanInv, [Next]_vars
    PROVE  OrphanInv'
  <1> USE DEF IInv, TypeOK
  <1>1. CASE UNCHANGED vars
    <2>1. Orphans' = Orphans
      BY <1>1 DEF vars, Orphans, Orphan, Finished, SourceKey
    <2>2. QED
      BY <1>1, <2>1 DEF vars, OrphanInv, SourceKey
  <1>2. CASE Next
    <2>1. PICK r \in Requests : Refuse(r) \/ Receive(r) \/ Handle(r) \/ Fail(r)
      BY <1>2 DEF Next
    <2>2. \A s \in Requests : pc'[s] = "idle" => SourceKey(s) \notin objects'
      BY <2>1, StepOrphans
    <2>3. faults \in Nat /\ Cardinality(Orphans) \in Nat
      BY FS_CardinalityType, SubmissionAssumption DEF OrphanInv
    <2>4. CASE faults' = faults /\ Orphans' \subseteq Orphans
      <3>1. IsFiniteSet(Orphans') /\ Cardinality(Orphans') <= Cardinality(Orphans)
        BY <2>4, FS_Subset DEF OrphanInv
      <3>2. Cardinality(Orphans') \in Nat
        BY <3>1, FS_CardinalityType
      <3>3. QED
        BY <2>2, <2>3, <2>4, <3>1, <3>2 DEF OrphanInv, SourceKey
    <2>5. CASE faults' = faults + 1 /\ Orphans' \subseteq Orphans \cup {r}
      <3>1. /\ IsFiniteSet(Orphans') /\ Cardinality(Orphans') \in Nat
            /\ Cardinality(Orphans') <= Cardinality(Orphans) + 1
        BY <2>5, AtMostOneMore DEF OrphanInv
      <3>2. QED
        BY <2>2, <2>3, <2>5, <3>1 DEF OrphanInv, SourceKey
    <2>6. \/ faults' = faults /\ Orphans' \subseteq Orphans
          \/ faults' = faults + 1 /\ Orphans' \subseteq Orphans \cup {r}
      BY <2>1, StepOrphans DEF Orphans
    <2>7. QED
      BY <2>4, <2>5, <2>6
  <1>3. QED
    BY <1>1, <1>2

\* Compensation deletes the object of every submission that did not commit, but
\* where a call of its own fails or the process dies: never more orphaned
\* objects than failures, however submissions overlap.
THEOREM OrphansArePaidFor == Spec => []OrphansNeedFaults
  <1>1. OrphanInv => OrphansNeedFaults
    BY DEF OrphanInv, OrphansNeedFaults, Orphans, Orphan
  <1>2. QED
    BY <1>1, InitOrphanInv, NextOrphanInv, InductiveInvariant, PTL DEF Spec
=============================================================================
