---------------------------- MODULE MCExtractor ----------------------------
(* Extractor with up to two workers and two partitions. *)
EXTENDS Extractor, TLC

CONSTANTS w1, w2, p1, p2, plain, fickle, blank, broken, gone, lost

\* A duplicated record in one partition, a document that is rejected in the other.
PairLog == p1 :> <<plain, blank, plain>> @@ p2 :> <<broken>>

\* One partition with a record of every other outcome, so that tasks finish out
\* of order.  Two workers with the first record may decide differently about it;
\* the last one's object was deleted.
RowLog == p1 :> <<fickle, gone, lost>>

MixedSource == [d \in {plain, fickle, blank, broken, gone, lost} |->
    CASE d = fickle -> "fickle"
      [] d = blank -> "empty_text"
      [] d = broken -> "bad_bytes"
      [] d = lost -> "missing"
      [] OTHER -> "text"]

OneRelease == [w \in {w1, w2} |-> "docling_1"]

EveryFault == AllFaults
CrashOnly == {"crash"}
Symmetric == Permutations({w1, w2})
=============================================================================
