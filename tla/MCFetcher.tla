----------------------------- MODULE MCFetcher -----------------------------
(* Fetcher with two consumers and a partition with a duplicated record. *)
EXTENDS Fetcher, TLC

CONSTANTS f1, f2, good, bad, odd, gone, lost

\* A record of every outcome, a duplicate of the first one, and a record whose
\* object was deleted.
MixedLog == <<good, bad, gone, odd, good, lost>>
MixedSource == [d \in {good, bad, odd, gone, lost} |->
    CASE d = bad -> "not_pdf"
      [] d = odd -> "other_bytes"
      [] d = lost -> "missing"
      [] OTHER -> "pdf"]

\* The first record's object was deleted.
BlockedLog == <<lost, good>>

EveryFault == AllFaults
NoFaults == {}
=============================================================================
