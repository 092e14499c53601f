------------------------------ MODULE Bootstrap ------------------------------
(***************************************************************************)
(* The two bootstrap scripts, which create the Qdrant collection and the   *)
(* Kafka topics that the pipeline expects.  Each run of them is a process  *)
(* of its own: the initialiser of the compose stack runs both, an operator *)
(* may run them again, or bootstrap_kafka.py alone, at the same time.      *)
(* Whoever reads what exists before creating it may act on stale state.    *)
(***************************************************************************)
EXTENDS Integers, Sequences

CONSTANTS
    Runs,        \* runs of the scripts
    KafkaOnly,   \* those of bootstrap_kafka.py alone
    Topics,      \* pipeline_topic_specs
    Fields,      \* the payload fields with an index, in their order
    Attempts,    \* attempts of ensure_pipeline_topics
    FaultKinds,
    MaxFaults

AllFaults == {"crash", "qdrant_error", "topic_error", "outage"}

IndexedFields == {Fields[i] : i \in DOMAIN Fields}

ASSUME BootstrapAssumption ==
    /\ KafkaOnly \subseteq Runs
    /\ Fields \in Seq(IndexedFields) /\ Fields # <<>>
    /\ Attempts \in Nat \ {0}
    /\ FaultKinds \subseteq AllFaults
    /\ MaxFaults \in Nat

VARIABLES
    pc,          \* where each run is
    requested,   \* payload indexes each run has requested
    attempt,     \* failed attempts of the retry loop
    collection,  \* whether the Qdrant collection exists
    indexes,     \* its payload indexes
    topics,      \* topics in Kafka
    answer,      \* run -> topic -> what became of its creation request
    up,          \* whether the Kafka broker answers
    faults

qdrant == <<collection, indexes>>
kafka == <<topics, answer, up>>
vars == <<pc, requested, attempt, qdrant, kafka, faults>>

Ended == {"done", "failed", "killed"}
PcValues == Ended \cup {"check", "create", "index", "list", "await"}

\* "none" when nothing was asked for, or when it was created.
Answers == {"none", "pending", "exists", "error"}

Init ==
    /\ pc = [r \in Runs |-> IF r \in KafkaOnly THEN "list" ELSE "check"]
    /\ requested = [r \in Runs |-> 0]
    /\ attempt = [r \in Runs |-> 0]
    /\ collection = FALSE
    /\ indexes = {}
    /\ topics = {}
    /\ answer = [r \in Runs |-> [t \in Topics |-> "none"]]
    /\ up = TRUE
    /\ faults = 0

Fault(kind) == kind \in FaultKinds /\ faults < MaxFaults /\ faults' = faults + 1
NoFault == UNCHANGED faults

Goto(r, label) == pc' = [pc EXCEPT ![r] = label]

-----------------------------------------------------------------------------
(* bootstrap_qdrant.py *)

CheckCollection(r) ==
    /\ pc[r] = "check"
    /\ Goto(r, IF collection THEN "index" ELSE "create")
    /\ UNCHANGED <<requested, attempt, qdrant, kafka, faults>>

CreateCollection(r) ==
    /\ pc[r] = "create" /\ ~collection
    /\ collection' = TRUE
    /\ Goto(r, "index")
    /\ UNCHANGED <<requested, attempt, indexes, kafka, faults>>

\* Another run has created the collection since the check: Qdrant refuses.
CollectionConflict(r) ==
    /\ pc[r] = "create" /\ collection
    /\ Goto(r, "failed")
    /\ UNCHANGED <<requested, attempt, qdrant, kafka, faults>>

\* An index that exists is created again without an error.  After the last one
\* the second script is run.
CreateIndex(r) ==
    /\ pc[r] = "index"
    /\ indexes' = indexes \cup {Fields[requested[r] + 1]}
    /\ requested' = [requested EXCEPT ![r] = @ + 1]
    /\ Goto(r, IF requested'[r] = Len(Fields) THEN "list" ELSE "index")
    /\ UNCHANGED <<attempt, collection, kafka, faults>>

\* A call raises, before or after it has taken effect.
QdrantRaises(r) ==
    /\ pc[r] \in {"check", "create", "index"}
    /\ Fault("qdrant_error")
    /\ Goto(r, "failed")
    /\ \/ UNCHANGED qdrant
       \/ pc[r] = "create" /\ collection' = TRUE /\ UNCHANGED indexes
       \/ /\ pc[r] = "index" /\ UNCHANGED collection
          /\ indexes' = indexes \cup {Fields[requested[r] + 1]}
    /\ UNCHANGED <<requested, attempt, kafka>>

-----------------------------------------------------------------------------
(* bootstrap_kafka.py *)

\* Plausible bug: the condition of the comprehension is the wrong way round.
MissingSwapped == Topics \cap topics

Missing == Topics \ topics

\* list_topics, then create_topics for what is missing.
RequestTopics(r) ==
    /\ pc[r] = "list" /\ up /\ Missing # {}
    /\ answer' = [answer EXCEPT ![r] =
                     [t \in Topics |-> IF t \in Missing THEN "pending" ELSE @[t]]]
    /\ Goto(r, "await")
    /\ UNCHANGED <<requested, attempt, qdrant, topics, up, faults>>

\* The client takes no empty list: a ValueError, which nobody catches.
NothingToRequest(r) ==
    /\ pc[r] = "list" /\ up /\ Missing = {}
    /\ Goto(r, "failed")
    /\ UNCHANGED <<requested, attempt, qdrant, kafka, faults>>

\* Plausible bug: the loop does not count its attempts.
NotCounted(r) == attempt[r]

Failures(r) == attempt[r] + 1

\* Plausible bug: the loop compares with attempts instead of attempts - 1.
GivesUpLate(r) == attempt[r] = Attempts

GivesUp(r) == attempt[r] = Attempts - 1

\* list_topics raises a KafkaException: the loop sleeps and tries again.
ListRaises(r) ==
    /\ pc[r] = "list" /\ ~up
    /\ IF GivesUp(r)
       THEN Goto(r, "failed") /\ UNCHANGED attempt
       ELSE UNCHANGED pc /\ attempt' = [attempt EXCEPT ![r] = Failures(r)]
    /\ UNCHANGED <<requested, qdrant, kafka, faults>>

\* Plausible bug: no error of a topic is looked at.
ToleratesAll == {"exists", "error"}

\* TOPIC_ALREADY_EXISTS is the only error that is not raised.
Tolerated == {"exists"}

TopicsDone(r) ==
    /\ pc[r] = "await"
    /\ \A t \in Topics : answer[r][t] \in Tolerated \cup {"none"}
    /\ Goto(r, "done")
    /\ UNCHANGED <<requested, attempt, qdrant, kafka, faults>>

\* A RuntimeError, which the loop does not catch; requests stay in flight.
TopicRaises(r) ==
    /\ pc[r] = "await"
    /\ \E t \in Topics : answer[r][t] \notin Tolerated \cup {"none", "pending"}
    /\ Goto(r, "failed")
    /\ UNCHANGED <<requested, attempt, qdrant, kafka, faults>>

-----------------------------------------------------------------------------
(* The broker and the processes *)

Answered(r, t, code) == answer' = [answer EXCEPT ![r][t] = code]

\* The broker handles a request, also of a run that has ended.
CreateTopic(r, t) ==
    /\ answer[r][t] = "pending" /\ up
    /\ Answered(r, t, IF t \in topics THEN "exists" ELSE "none")
    /\ topics' = topics \cup {t}
    /\ UNCHANGED <<pc, requested, attempt, qdrant, up, faults>>

\* The request is refused, or its answer is lost or late.
TopicFails(r, t) ==
    /\ answer[r][t] = "pending"
    /\ IF up THEN Fault("topic_error") ELSE NoFault
    /\ Answered(r, t, "error")
    /\ topics' \in {topics, topics \cup {t}}
    /\ UNCHANGED <<pc, requested, attempt, qdrant, up>>

Outage ==
    /\ up /\ Fault("outage")
    /\ up' = FALSE
    /\ UNCHANGED <<pc, requested, attempt, qdrant, topics, answer>>

Recovery ==
    /\ ~up
    /\ up' = TRUE
    /\ UNCHANGED <<pc, requested, attempt, qdrant, topics, answer, faults>>

Crash(r) ==
    /\ pc[r] \notin Ended
    /\ Fault("crash")
    /\ Goto(r, "killed")
    /\ UNCHANGED <<requested, attempt, qdrant, kafka>>

RunStep(r) ==
    \/ CheckCollection(r) \/ CreateCollection(r) \/ CollectionConflict(r)
    \/ CreateIndex(r) \/ RequestTopics(r) \/ NothingToRequest(r) \/ ListRaises(r)
    \/ TopicsDone(r) \/ TopicRaises(r)

\* Every request gets an answer, at the latest when it times out.
BrokerStep(r, t) == CreateTopic(r, t) \/ TopicFails(r, t)

Next ==
    \/ \E r \in Runs : RunStep(r) \/ QdrantRaises(r) \/ Crash(r)
    \/ \E r \in Runs, t \in Topics : BrokerStep(r, t)
    \/ Outage \/ Recovery

Spec == Init /\ [][Next]_vars

\* A run goes on, and its requests are answered; an outage may last for ever.
FairSpec ==
    /\ Spec
    /\ \A r \in Runs : WF_vars(RunStep(r))
    /\ WF_vars(\E r \in Runs, t \in Topics : BrokerStep(r, t))

-----------------------------------------------------------------------------
(* Properties *)

TypeOK ==
    /\ pc \in [Runs -> PcValues]
    /\ requested \in [Runs -> 0..Len(Fields)]
    /\ attempt \in [Runs -> 0..(Attempts - 1)]
    /\ collection \in BOOLEAN /\ indexes \subseteq IndexedFields
    /\ topics \subseteq Topics
    /\ answer \in [Runs -> [Topics -> Answers]]
    /\ up \in BOOLEAN
    /\ faults \in 0..MaxFaults

QdrantReady == collection /\ indexes = IndexedFields
Ready == QdrantReady /\ topics = Topics

\* A run that ends well leaves everything ready that it is there for, whatever
\* the other runs do, and although it creates only what it saw missing.
SuccessMeansReady ==
    \A r \in Runs :
        pc[r] = "done" => topics = Topics /\ (r \in KafkaOnly \/ QdrantReady)

\* Another run created the collection after this one had seen none, or all the
\* topics are there: a run that is merely repeated fails as well.
FoundItDone(r) ==
    topics = Topics \/ (r \notin KafkaOnly /\ collection /\ requested[r] = 0)

\* Runs that meet fail each other, and one that is repeated fails by itself, but
\* without a failure of the environment only because the work was done already:
\* they never fail together with something missing.
UnreadyNeedsFaults ==
    faults = 0 =>
        /\ Runs # KafkaOnly /\ (\A r \in Runs : pc[r] \in Ended) => Ready
        /\ \A r \in Runs : pc[r] = "failed" => FoundItDone(r)

\* Every run ends, even if the broker never comes back.
EveryRunEnds == <>(\A r \in Runs : pc[r] \in Ended)
=============================================================================
