----------------------------- MODULE MCPipeline -----------------------------
(* Pipeline with documents at the limits. *)
EXTENDS Pipeline, TLC

CONSTANTS exact, full, long, huge

Text(size) == [size |-> size, pdf |-> TRUE, permitted |-> TRUE, text |-> TRUE]

\* exact fits the extractor to the byte; full fits the fetcher to the byte, in
\* whole chunks, and is one byte too long for the extractor; long fits the API
\* to the byte and is one too long for the fetcher; huge is one too long for all.
Boundary == exact :> Text(3) @@ full :> Text(4) @@ long :> Text(5) @@ huge :> Text(6)

EveryFault == AllFaults
=============================================================================
