----------------------------- MODULE BoundedRead -----------------------------
(***************************************************************************)
(* The three read loops that bound a document: the upload of the API, the  *)
(* inspection of the fetcher and the copy of the extractor.  A document is *)
(* its number of bytes; read(n) returns n bytes, or what is left.          *)
(***************************************************************************)
EXTENDS Integers, FiniteSetsExt

CONSTANTS
    ApiLimit,       \* api_max_upload_bytes
    FetchLimit,     \* document_fetcher_max_document_bytes
    ExtractLimit,   \* document_extraction_max_bytes
    Chunk,          \* CHUNK_SIZE
    Framing         \* bytes that multipart/form-data adds to the file

ASSUME BoundedReadAssumption ==
    /\ {ApiLimit, FetchLimit, ExtractLimit, Chunk} \subseteq Nat \ {0}
    /\ Framing \in Nat

\* Plausible bug: a document of exactly the limit is too large.
ReachesLimit(count, limit) == count >= limit

ExceedsLimit(count, limit) == count > limit

\* The bytes counted when the loop ends, and whether it ended at the limit.
\* ask says how many bytes the next read asks for.
ReadLoop(size, limit, ask) ==
    LET after[count \in 0..size] ==
            LET chunk == Min({ask[count], size - count}) IN
            IF chunk = 0 THEN [count |-> count, tooLarge |-> FALSE]
            ELSE IF ExceedsLimit(count + chunk, limit)
                 THEN [count |-> count + chunk, tooLarge |-> TRUE]
                 ELSE after[count + chunk]
    IN  after[0]

\* A whole chunk at a time: the API and the extractor.
ByChunks(size, limit) == ReadLoop(size, limit, [count \in 0..size |-> Chunk])

\* No more than one byte beyond the limit: the fetcher.
JustBeyond(size, limit) ==
    ReadLoop(size, limit, [count \in 0..size |-> Min({Chunk, limit - count + 1})])

\* The middleware looks at the length of the whole request, if it is declared.
RefusedByLength(size) == size + Framing > ApiLimit

RefusedWhileReading(size) == ByChunks(size, ApiLimit).tooLarge

\* The fetcher and the extractor compare the digest of the bytes they read
\* with the one of the whole document.
ReadWhole(size, loop) == ~loop.tooLarge /\ loop.count = size

InspectedWhole(size) == ReadWhole(size, JustBeyond(size, FetchLimit))

CopiedWhole(size) == size > 0 /\ ReadWhole(size, ByChunks(size, ExtractLimit))
=============================================================================
