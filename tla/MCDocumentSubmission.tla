------------------------ MODULE MCDocumentSubmission ------------------------
(***************************************************************************)
(* Six requests: an original; its retry with the same external id and the  *)
(* same bytes; another document with the same bytes; an update of the      *)
(* original's external id with other bytes; one for an unknown tenant; and *)
(* one that is oversized and has no file name.  The others have the same   *)
(* file name.                                                              *)
(***************************************************************************)
EXTENDS DocumentSubmission, TLC

CONSTANTS original, retry, copy, update, stranger, oversized

AllRequests == {original, retry, copy, update, stranger, oversized}
RequestTenant == [r \in AllRequests |-> IF r = stranger THEN "unknown" ELSE "acme"]
RequestExternalId == [r \in AllRequests |->
    CASE r \in {original, retry, update} -> "doc-1" [] r = copy -> "doc-2"
      [] OTHER -> "doc-3"]
RequestSha == [r \in AllRequests |->
    CASE r \in {original, retry, copy} -> "bytes-1" [] r = update -> "bytes-2"
      [] OTHER -> "bytes-3"]
RequestFile == [r \in AllRequests |-> "report.pdf"]

EveryFault == AllFaults
=============================================================================
