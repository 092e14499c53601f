-------------------------- MODULE BoundedReadProofs --------------------------
(***************************************************************************)
(* For every size and every limit: the read loops of the three stages tell *)
(* documents over their limit from those that fit, to the byte, whatever   *)
(* the chunk size; they count every byte of the ones that fit.             *)
(***************************************************************************)
EXTENDS BoundedRead, DataFacts

LEMMA MinOfTwo ==
    ASSUME NEW a \in Int, NEW b \in Int
    PROVE  Min({a, b}) = IF a <= b THEN a ELSE b
<1> DEFINE m == IF a <= b THEN a ELSE b
<1>1. m \in {a, b} /\ \A n \in {a, b} : m <= n
  OBVIOUS
<1>2. \A x \in {a, b} : (\A n \in {a, b} : x <= n) => x = m
  OBVIOUS
<1> HIDE DEF m
<1>3. Min({a, b}) = m
  BY <1>1, <1>2 DEF Min
<1> QED
  BY <1>3 DEF m

-----------------------------------------------------------------------------
(* The loop *)

Results == [count : Nat, tooLarge : BOOLEAN]

\* The read at count: what it brings.
Got(size, ask, count) == Min({ask[count], size - count})

\* What the loop makes of count, if after says what it makes of later counts.
OneRead(size, limit, ask, after, count) ==
    LET chunk == Got(size, ask, count) IN
    IF chunk = 0 THEN [count |-> count, tooLarge |-> FALSE]
    ELSE IF ExceedsLimit(count + chunk, limit)
         THEN [count |-> count + chunk, tooLarge |-> TRUE]
         ELSE after[count + chunk]

\* Every read asks for a byte at least, until the limit is exceeded.
Asks(size, limit, ask) ==
    \A count \in 0..size :
        /\ ask[count] \in Int
        /\ ask[count] >= 1 \/ count + ask[count] > limit
        /\ count <= limit => ask[count] >= 1

\* The loop goes on with a later count only.
LEMMA ReadProgress ==
    ASSUME NEW size \in Nat, NEW limit \in Nat, NEW ask, Asks(size, limit, ask),
           NEW count \in 0..size
    PROVE  LET chunk == Got(size, ask, count) IN
           /\ chunk \in Int /\ chunk <= ask[count] /\ count + chunk <= size
           /\ chunk = 0 => count = size \/ count > limit
           /\ ~ExceedsLimit(count + chunk, limit) /\ chunk # 0 => count + chunk > count
<1>1. /\ ask[count] \in Int /\ size - count \in Int /\ size - count >= 0
      /\ ask[count] >= 1 \/ count + ask[count] > limit
      /\ count <= limit => ask[count] >= 1
  BY DEF Asks
<1>2. Got(size, ask, count) = IF ask[count] <= size - count THEN ask[count] ELSE size - count
  BY <1>1, MinOfTwo DEF Got
<1> QED
  BY <1>1, <1>2 DEF ExceedsLimit

\* So there is a function that says what the loop makes of every count: it is
\* built from the end of the document, one count at a time.
LEMMA LoopIsDefined ==
    ASSUME NEW size \in Nat, NEW limit \in Nat, NEW ask, Asks(size, limit, ask)
    PROVE  \E after \in [0..size -> Results] :
              after = [count \in 0..size |-> OneRead(size, limit, ask, after, count)]
<1> DEFINE Solves(g, n) ==
              /\ g \in [(size - n)..size -> Results]
              /\ \A c \in (size - n)..size : g[c] = OneRead(size, limit, ask, g, c)
           S == {n \in Nat : n <= size => \E g : Solves(g, n)}
<1>1. 0 \in S
  <2>1. size \in 0..size /\ size..size = {size}
    OBVIOUS
  <2>2. Got(size, ask, size) = 0 \/ ExceedsLimit(size + Got(size, ask, size), limit)
    <3>1. /\ ask[size] \in Int
          /\ ask[size] >= 1 \/ size + ask[size] > limit
      BY <2>1 DEF Asks
    <3>2. Got(size, ask, size) = IF ask[size] <= 0 THEN ask[size] ELSE 0
      BY <3>1, MinOfTwo DEF Got
    <3> QED
      BY <3>1, <3>2 DEF ExceedsLimit
  <2>3. \E r \in Results : \A f : OneRead(size, limit, ask, f, size) = r
    <3>1. CASE Got(size, ask, size) = 0
      <4>1. /\ [count |-> size, tooLarge |-> FALSE] \in Results
            /\ \A f : OneRead(size, limit, ask, f, size) = [count |-> size, tooLarge |-> FALSE]
        BY <3>1 DEF OneRead, Results
      <4> QED
        BY <4>1
    <3>2. CASE Got(size, ask, size) # 0 /\ ExceedsLimit(size + Got(size, ask, size), limit)
      <4>1. size + Got(size, ask, size) \in Nat
        BY <2>1, <3>2, ReadProgress DEF ExceedsLimit
      <4> QED
        BY <3>2, <4>1 DEF OneRead, Results
    <3> QED
      BY <2>2, <3>1, <3>2
  <2>4. PICK r \in Results : \A f : OneRead(size, limit, ask, f, size) = r
    BY <2>3
  <2>5. Solves([c \in size..size |-> r], 0)
    BY <2>1, <2>4
  <2> QED
    BY <2>5
<1>2. ASSUME NEW n \in Nat, n \in S, n + 1 <= size
      PROVE  \E g : Solves(g, n + 1)
  <2>1. PICK g : Solves(g, n)
    BY <1>2
  <2> DEFINE c0 == size - (n + 1)
             h == [c \in c0..size |-> IF c = c0 THEN OneRead(size, limit, ask, g, c) ELSE g[c]]
  <2>2. c0 \in 0..size /\ c0 + 1 = size - n /\ (size - n)..size = (c0 + 1)..size
    BY <1>2
  <2>3. g \in [(c0 + 1)..size -> Results]
    BY <2>1, <2>2
  <2>4. \A c \in (c0 + 1)..size : g[c] = OneRead(size, limit, ask, g, c)
    BY <2>1, <2>2
  <2> HIDE DEF c0
  <2>5. ASSUME NEW c \in c0..size
        PROVE  /\ OneRead(size, limit, ask, h, c) = OneRead(size, limit, ask, g, c)
               /\ OneRead(size, limit, ask, g, c) \in Results
    <3> DEFINE chunk == Got(size, ask, c)
    <3>1. /\ chunk \in Int /\ c + chunk <= size /\ c \in Nat
          /\ ~ExceedsLimit(c + chunk, limit) /\ chunk # 0 => c + chunk > c
      BY <2>2, ReadProgress
    <3> HIDE DEF chunk
    <3>2. CASE chunk = 0
      BY <3>1, <3>2 DEF OneRead, chunk, Results
    <3>3. CASE chunk # 0 /\ ExceedsLimit(c + chunk, limit)
      <4>1. c + chunk \in Nat
        BY <3>1, <3>3 DEF ExceedsLimit
      <4> QED
        BY <3>3, <4>1 DEF OneRead, chunk, Results
    <3>4. CASE chunk # 0 /\ ~ExceedsLimit(c + chunk, limit)
      <4>1. c + chunk \in (c0 + 1)..size /\ c + chunk # c0 /\ c + chunk \in c0..size
        BY <2>2, <3>1, <3>4
      <4>2. h[c + chunk] = g[c + chunk] /\ g[c + chunk] \in Results
        BY <2>3, <4>1
      <4> HIDE DEF h
      <4> QED
        BY <3>4, <4>2 DEF OneRead, chunk
    <3> QED
      BY <3>2, <3>3, <3>4
  <2>6. ASSUME NEW c \in c0..size
        PROVE  h[c] = OneRead(size, limit, ask, g, c)
    <3>1. c # c0 => c \in (c0 + 1)..size
      BY <2>2
    <3> QED
      BY <2>4, <3>1
  <2>7. h \in [c0..size -> Results]
    BY <2>5, <2>6
  <2>8. Solves(h, n + 1)
    BY <2>5, <2>6, <2>7 DEF c0
  <2> QED
    BY <2>8
<1>3. size \in S
  <2> HIDE DEF Solves
  <2>1. \A n \in Nat : n \in S => n + 1 \in S
    BY <1>2
  <2> QED
    BY <1>1, <2>1, InductiveSet
<1>4. PICK g : Solves(g, size)
  BY <1>3
<1>5. size - size = 0
  OBVIOUS
<1>6. g \in [0..size -> Results] /\ \A c \in 0..size : g[c] = OneRead(size, limit, ask, g, c)
  BY <1>4, <1>5
<1> QED
  BY <1>6

\* What the loop makes of a count within the limit.
LEMMA LoopDecides ==
    ASSUME NEW size \in Nat, NEW limit \in Nat, NEW ask, Asks(size, limit, ask),
           NEW bound \in Nat, \A c \in 0..size : c <= limit => c + ask[c] <= bound,
           NEW after,
           after = [count \in 0..size |-> OneRead(size, limit, ask, after, count)]
    PROVE  /\ after[0].tooLarge <=> size > limit
           /\ ~after[0].tooLarge => after[0].count = size
           /\ after[0].count <= bound
<1> DEFINE Right(c) == /\ after[c].tooLarge <=> size > limit
                       /\ ~after[c].tooLarge => after[c].count = size
                       /\ after[c].count <= bound
           S == {n \in Nat : \A c \in 0..size : size - c <= n /\ c <= limit => Right(c)}
<1>1. ASSUME NEW c \in 0..size, c <= limit,
             \A b \in 0..size : b > c /\ b <= limit => Right(b)
      PROVE  Right(c)
  <2> DEFINE chunk == Got(size, ask, c)
  <2>1. after[c] = OneRead(size, limit, ask, after, c)
    OBVIOUS
  <2>2. /\ chunk \in Int /\ c + chunk <= size
        /\ chunk = 0 => c = size \/ c > limit
        /\ ~ExceedsLimit(c + chunk, limit) /\ chunk # 0 => c + chunk > c
        /\ c + chunk <= bound
    <3>1. ask[c] \in Int /\ c + ask[c] <= bound
      BY <1>1 DEF Asks
    <3> QED
      BY <3>1, ReadProgress
  <2> HIDE DEF chunk
  <2>3. CASE chunk = 0
    <3>1. after[c] = [count |-> c, tooLarge |-> FALSE] /\ c = size /\ c <= bound
      BY <1>1, <2>1, <2>2, <2>3 DEF OneRead, chunk
    <3> QED
      BY <1>1, <3>1
  <2>4. CASE chunk # 0 /\ ExceedsLimit(c + chunk, limit)
    <3>1. after[c] = [count |-> c + chunk, tooLarge |-> TRUE]
      BY <2>1, <2>4 DEF OneRead, chunk
    <3>2. size > limit /\ c + chunk <= bound
      BY <2>2, <2>4 DEF ExceedsLimit
    <3> QED
      BY <3>1, <3>2
  <2>5. CASE chunk # 0 /\ ~ExceedsLimit(c + chunk, limit)
    <3>1. after[c] = after[c + chunk]
      BY <2>1, <2>5 DEF OneRead, chunk
    <3>2. c + chunk \in 0..size /\ c + chunk > c /\ c + chunk <= limit
      BY <2>2, <2>5 DEF ExceedsLimit
    <3>3. Right(c + chunk)
      BY <1>1, <3>2
    <3> QED
      BY <3>1, <3>3
  <2> QED
    BY <2>3, <2>4, <2>5
<1> HIDE DEF Right
<1>2. 0 \in S
  <2> SUFFICES ASSUME NEW c \in 0..size, size - c <= 0, c <= limit PROVE Right(c)
    OBVIOUS
  <2>1. ~ \E b \in 0..size : b > c
    OBVIOUS
  <2> QED
    BY <1>1, <2>1
<1>3. ASSUME NEW n \in Nat, n \in S PROVE n + 1 \in S
  <2> SUFFICES ASSUME NEW c \in 0..size, size - c <= n + 1, c <= limit PROVE Right(c)
    OBVIOUS
  <2>1. \A b \in 0..size : b > c => size - b <= n
    OBVIOUS
  <2>2. \A b \in 0..size : b > c /\ b <= limit => Right(b)
    BY <1>3, <2>1
  <2> QED
    BY <1>1, <2>2
<1>4. size \in S
  BY <1>2, <1>3, InductiveSet
<1>5. Right(0)
  BY <1>4
<1> QED
  BY <1>5 DEF Right

\* The read loop refuses what is over the limit, counts the whole of what is
\* not, and reads no further than one read that starts within the limit.
LEMMA ReadLoopDecides ==
    ASSUME NEW size \in Nat, NEW limit \in Nat, NEW ask, Asks(size, limit, ask),
           NEW bound \in Nat, \A c \in 0..size : c <= limit => c + ask[c] <= bound
    PROVE  /\ ReadLoop(size, limit, ask).tooLarge <=> size > limit
           /\ ~ReadLoop(size, limit, ask).tooLarge => ReadLoop(size, limit, ask).count = size
           /\ ReadLoop(size, limit, ask).count <= bound
<1> DEFINE Loop == CHOOSE after :
                     after = [count \in 0..size |-> OneRead(size, limit, ask, after, count)]
<1>1. Loop = [count \in 0..size |-> OneRead(size, limit, ask, Loop, count)]
  BY LoopIsDefined
<1>2. ReadLoop(size, limit, ask) = Loop[0]
  BY DEF ReadLoop, OneRead, Got
<1> HIDE DEF Loop
<1> QED
  BY <1>1, <1>2, LoopDecides

-----------------------------------------------------------------------------
(* The three stages *)

LEMMA Limits ==
    /\ ApiLimit \in Nat \ {0} /\ FetchLimit \in Nat \ {0} /\ ExtractLimit \in Nat \ {0}
    /\ Chunk \in Nat \ {0} /\ Framing \in Nat
  BY BoundedReadAssumption DEF BoundedReadAssumption

LEMMA ByChunksDecides ==
    ASSUME NEW size \in Nat, NEW limit \in Nat
    PROVE  /\ ByChunks(size, limit).tooLarge <=> size > limit
           /\ ~ByChunks(size, limit).tooLarge => ByChunks(size, limit).count = size
           /\ ByChunks(size, limit).count <= limit + Chunk
<1> DEFINE ask == [count \in 0..size |-> Chunk]
<1>1. Asks(size, limit, ask)
  BY Limits DEF Asks
<1>2. limit + Chunk \in Nat /\ \A c \in 0..size : c <= limit => c + ask[c] <= limit + Chunk
  BY Limits
<1> HIDE DEF ask
<1>3. /\ ReadLoop(size, limit, ask).tooLarge <=> size > limit
      /\ ~ReadLoop(size, limit, ask).tooLarge => ReadLoop(size, limit, ask).count = size
      /\ ReadLoop(size, limit, ask).count <= limit + Chunk
  BY <1>1, <1>2, ReadLoopDecides
<1> QED
  BY <1>3 DEF ByChunks, ask

LEMMA JustBeyondDecides ==
    ASSUME NEW size \in Nat, NEW limit \in Nat
    PROVE  /\ JustBeyond(size, limit).tooLarge <=> size > limit
           /\ ~JustBeyond(size, limit).tooLarge => JustBeyond(size, limit).count = size
           /\ JustBeyond(size, limit).count <= limit + 1
<1> DEFINE ask == [count \in 0..size |-> Min({Chunk, limit - count + 1})]
<1>1. ASSUME NEW count \in 0..size
      PROVE  /\ ask[count] \in Int
             /\ ask[count] >= 1 \/ count + ask[count] > limit
             /\ count <= limit => ask[count] >= 1 /\ count + ask[count] <= limit + 1
  <2>1. Chunk \in Int /\ Chunk >= 1 /\ limit - count + 1 \in Int
    BY Limits
  <2>2. ask[count] = IF Chunk <= limit - count + 1 THEN Chunk ELSE limit - count + 1
    BY <2>1, MinOfTwo
  <2> HIDE DEF ask
  <2> QED
    BY <2>1, <2>2
<1>2. Asks(size, limit, ask)
  BY <1>1 DEF Asks
<1>3. limit + 1 \in Nat /\ \A c \in 0..size : c <= limit => c + ask[c] <= limit + 1
  BY <1>1
<1> HIDE DEF ask
<1>4. /\ ReadLoop(size, limit, ask).tooLarge <=> size > limit
      /\ ~ReadLoop(size, limit, ask).tooLarge => ReadLoop(size, limit, ask).count = size
      /\ ReadLoop(size, limit, ask).count <= limit + 1
  BY <1>2, <1>3, ReadLoopDecides
<1> QED
  BY <1>4 DEF JustBeyond, ask

\* The API refuses an upload while reading it, the fetcher inspects it and the
\* extractor copies it, by its number of bytes and nothing else: a document of
\* exactly the limit passes, one byte more does not, and the digest that the
\* workers compare is that of the whole document.
THEOREM LimitsAreExact ==
    \A size \in Nat :
        /\ RefusedWhileReading(size) <=> size > ApiLimit
        /\ InspectedWhole(size) <=> size <= FetchLimit
        /\ CopiedWhole(size) <=> size > 0 /\ size <= ExtractLimit
<1> SUFFICES ASSUME NEW size \in Nat
             PROVE  /\ RefusedWhileReading(size) <=> size > ApiLimit
                    /\ InspectedWhole(size) <=> size <= FetchLimit
                    /\ CopiedWhole(size) <=> size > 0 /\ size <= ExtractLimit
  OBVIOUS
<1>1. RefusedWhileReading(size) <=> size > ApiLimit
  BY Limits, ByChunksDecides DEF RefusedWhileReading
<1>2. InspectedWhole(size) <=> size <= FetchLimit
  BY Limits, JustBeyondDecides DEF InspectedWhole, ReadWhole
<1>3. CopiedWhole(size) <=> size > 0 /\ size <= ExtractLimit
  BY Limits, ByChunksDecides DEF CopiedWhole, ReadWhole
<1> QED
  BY <1>1, <1>2, <1>3

\* However large a document is, the fetcher reads one byte beyond its limit at
\* most, and the API and the extractor one chunk.
THEOREM ReadsAreBounded ==
    \A size \in Nat :
        /\ JustBeyond(size, FetchLimit).count <= FetchLimit + 1
        /\ ByChunks(size, ApiLimit).count <= ApiLimit + Chunk
        /\ ByChunks(size, ExtractLimit).count <= ExtractLimit + Chunk
  BY Limits, ByChunksDecides, JustBeyondDecides
=============================================================================
