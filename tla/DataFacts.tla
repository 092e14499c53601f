------------------------------ MODULE DataFacts ------------------------------
(***************************************************************************)
(* Facts about numbers, sequences and finite sets that the proofs of       *)
(* several components rest on.                                             *)
(***************************************************************************)
EXTENDS Integers, Sequences, SequencesExt, FiniteSets, FiniteSetsExt,
        FiniteSetTheorems, SequenceTheorems, WellFoundedInduction, TLAPS

-----------------------------------------------------------------------------
(* The least-number principle, for sets: it takes the place of induction. *)

\* A non-empty set of natural numbers has a least element.
LEMMA LeastElement ==
    ASSUME NEW S \in SUBSET Nat, S # {}
    PROVE  \E m \in S : \A n \in S : m <= n
<1> DEFINE R == OpToRel(<, Nat)
<1>1. IsWellFoundedOn(R, Nat)
  BY NatLessThanWellFounded
<1>2. \A x, y \in Nat : <<x, y>> \in R <=> x < y
  BY DEF OpToRel
<1> HIDE DEF R
<1>3. PICK x \in S : \A y \in S : ~ (<<y, x>> \in R)
  BY <1>1, WFMin
<1>4. \A y \in S : x <= y
  <2> TAKE y \in S
  <2>1. x \in Nat /\ y \in Nat
    OBVIOUS
  <2>2. ~ (y < x)
    BY <1>2, <1>3, <2>1
  <2> QED
    BY <2>1, <2>2
<1> QED
  BY <1>4

\* A set of natural numbers with 0 that is closed under successor is Nat.
LEMMA InductiveSet ==
    ASSUME NEW S, 0 \in S, \A n \in Nat : n \in S => n + 1 \in S
    PROVE  Nat \subseteq S
<1> SUFFICES ASSUME Nat \ S # {} PROVE FALSE
  OBVIOUS
<1>1. PICK m \in Nat \ S : \A n \in Nat \ S : m <= n
  BY LeastElement
<1>2. m - 1 \in Nat /\ m - 1 \in S
  BY <1>1
<1> QED
  BY <1>1, <1>2

\* Min is what its name says.
LEMMA MinIsLeast ==
    ASSUME NEW S \in SUBSET Nat, S # {}
    PROVE  Min(S) \in S /\ \A n \in S : Min(S) <= n
BY LeastElement DEF Min

-----------------------------------------------------------------------------
(* Sequences *)

\* What is left of a sequence when one element is taken out.
LEMMA RemoveAtFacts ==
    ASSUME NEW S, NEW s \in Seq(S), NEW i \in 1..Len(s)
    PROVE  /\ RemoveAt(s, i) \in Seq(S)
           /\ Len(RemoveAt(s, i)) = Len(s) - 1
           /\ \A j \in 1..(Len(s) - 1) :
                 RemoveAt(s, i)[j] = s[IF j < i THEN j ELSE j + 1]
<1> DEFINE front == SubSeq(s, 1, i - 1)
           back == SubSeq(s, i + 1, Len(s))
<1>1. /\ front \in Seq(S) /\ Len(front) = i - 1
      /\ \A j \in 1..(i - 1) : front[j] = s[j]
  OBVIOUS
<1>2. /\ back \in Seq(S) /\ Len(back) = Len(s) - i
      /\ \A j \in 1..(Len(s) - i) : back[j] = s[i + j]
  OBVIOUS
<1>3. RemoveAt(s, i) = front \o back
  BY DEF RemoveAt
<1> HIDE DEF front, back
<1>4. front \o back \in Seq(S) /\ Len(front \o back) = Len(s) - 1
  BY <1>1, <1>2
<1>5. ASSUME NEW j \in 1..(Len(s) - 1)
      PROVE  (front \o back)[j] = s[IF j < i THEN j ELSE j + 1]
  <2>1. CASE j < i
    BY <1>1, <1>2, <2>1
  <2>2. CASE ~ (j < i)
    <3>1. (front \o back)[j] = back[j - (i - 1)]
      BY <1>1, <1>2, <2>2
    <3>2. back[j - (i - 1)] = s[i + (j - (i - 1))]
      BY <1>2, <2>2
    <3> QED
      BY <2>2, <3>1, <3>2
  <2> QED
    BY <2>1, <2>2
<1> QED
  BY <1>3, <1>4, <1>5

-----------------------------------------------------------------------------
(* Finite sets *)

\* A set gains at most one element at a time.
LEMMA AtMostOneMore ==
    ASSUME NEW S, IsFiniteSet(S), NEW x, NEW T \in SUBSET (S \cup {x})
    PROVE  /\ IsFiniteSet(T)
           /\ Cardinality(T) \in Nat
           /\ Cardinality(T) <= Cardinality(S) + 1
<1>1. /\ IsFiniteSet(S \cup {x})
      /\ Cardinality(S \cup {x}) = IF x \in S THEN Cardinality(S) ELSE Cardinality(S) + 1
  BY FS_AddElement
<1>2. IsFiniteSet(T) /\ Cardinality(T) <= Cardinality(S \cup {x})
  BY <1>1, FS_Subset
<1>3. Cardinality(S) \in Nat /\ Cardinality(S \cup {x}) \in Nat /\ Cardinality(T) \in Nat
  BY <1>1, <1>2, FS_CardinalityType
<1> QED
  BY <1>1, <1>2, <1>3

\* What two finite sets have together.
LEMMA UnionBound ==
    ASSUME NEW S, IsFiniteSet(S), NEW B, IsFiniteSet(B), NEW T \in SUBSET (S \cup B)
    PROVE  /\ IsFiniteSet(T)
           /\ Cardinality(T) \in Nat
           /\ Cardinality(T) <= Cardinality(S) + Cardinality(B)
<1>1. /\ IsFiniteSet(S \cup B) /\ IsFiniteSet(S \cap B)
      /\ Cardinality(S \cup B) = Cardinality(S) + Cardinality(B) - Cardinality(S \cap B)
  BY FS_Union, FS_Intersection
<1>2. IsFiniteSet(T) /\ Cardinality(T) <= Cardinality(S \cup B)
  BY <1>1, FS_Subset
<1>3. /\ Cardinality(S) \in Nat /\ Cardinality(B) \in Nat /\ Cardinality(S \cap B) \in Nat
      /\ Cardinality(S \cup B) \in Nat /\ Cardinality(T) \in Nat
  BY <1>1, <1>2, FS_CardinalityType
<1> QED
  BY <1>1, <1>2, <1>3

\* Induction over the subsets of a finite set.
LEMMA SubsetInduction ==
    ASSUME NEW S, IsFiniteSet(S), NEW G, {} \in G,
           \A s \in SUBSET S : s # {} /\ (\A x \in s : s \ {x} \in G) => s \in G
    PROVE  SUBSET S \subseteq G
<1> DEFINE N == {n \in Nat : \A s \in SUBSET S : Cardinality(s) = n => s \in G}
<1>1. \A s \in SUBSET S : IsFiniteSet(s) /\ Cardinality(s) \in Nat
  BY FS_Subset, FS_CardinalityType
<1>2. 0 \in N
  BY <1>1, FS_EmptySet
<1>3. ASSUME NEW n \in Nat, n \in N PROVE n + 1 \in N
  <2> SUFFICES ASSUME NEW s \in SUBSET S, Cardinality(s) = n + 1 PROVE s \in G
    OBVIOUS
  <2>1. s # {}
    BY FS_EmptySet
  <2>2. ASSUME NEW x \in s PROVE s \ {x} \in G
    <3>1. Cardinality(s \ {x}) = n
      BY <1>1, FS_RemoveElement
    <3> QED
      BY <1>3, <3>1
  <2> QED
    BY <2>1, <2>2
<1>4. Nat \subseteq N
  <2> HIDE DEF N
  <2> QED
    BY <1>2, <1>3, InductiveSet
<1> QED
  BY <1>1, <1>4

-----------------------------------------------------------------------------
(* Sums over finite sets.  MapThenSumSet adds up one chosen element after  *)
(* the other; sums are compared along that order, whatever it is.          *)

OneOf(s) == CHOOSE x \in s : TRUE

SumStep(f, F, s) == IF s = {} THEN 0 ELSE f[OneOf(s)] + F[s \ {OneOf(s)}]

\* F holds the sum of f over every subset of S.
Sums(F, f, S) ==
    /\ F \in [SUBSET S -> Nat]
    /\ \A s \in SUBSET S : F[s] = SumStep(f, F, s)

LEMMA OneOfIsIn ==
    ASSUME NEW s, s # {}
    PROVE  OneOf(s) \in s
BY DEF OneOf

\* There is such an F: it is built from the empty set, one size at a time.
LEMMA SumsExist ==
    ASSUME NEW S, IsFiniteSet(S), NEW f \in [S -> Nat]
    PROVE  \E F : Sums(F, f, S)
<1> DEFINE D(n) == {s \in SUBSET S : Cardinality(s) <= n}
           Solves(g, n) == g \in [D(n) -> Nat] /\ \A s \in D(n) : g[s] = SumStep(f, g, s)
           N == {n \in Nat : \E g : Solves(g, n)}
<1>1. \A s \in SUBSET S : IsFiniteSet(s) /\ Cardinality(s) \in Nat
                          /\ Cardinality(s) <= Cardinality(S)
  BY FS_Subset, FS_CardinalityType
<1>2. 0 \in N
  <2> DEFINE none == [s \in D(0) |-> 0]
  <2>1. \A s \in D(0) : s = {}
    BY <1>1, FS_EmptySet
  <2>2. \A s \in D(0) : none[s] = SumStep(f, none, s)
    BY <2>1 DEF SumStep
  <2>3. none \in [D(0) -> Nat]
    OBVIOUS
  <2>4. Solves(none, 0)
    BY <2>2, <2>3
  <2> QED
    BY <2>4
<1>3. ASSUME NEW n \in Nat, n \in N PROVE n + 1 \in N
  <2>1. PICK g : Solves(g, n)
    BY <1>3
  <2> DEFINE h == [s \in D(n + 1) |-> SumStep(f, g, s)]
  <2>2. ASSUME NEW s \in D(n + 1), s # {}
        PROVE  /\ OneOf(s) \in S /\ s \ {OneOf(s)} \in D(n) /\ s \ {OneOf(s)} \in D(n + 1)
    <3>1. OneOf(s) \in s
      BY <2>2, OneOfIsIn
    <3>2. Cardinality(s \ {OneOf(s)}) = Cardinality(s) - 1
      BY <1>1, <3>1, FS_RemoveElement
    <3>3. s \ {OneOf(s)} \in SUBSET S /\ Cardinality(s \ {OneOf(s)}) \in Nat
      BY <1>1
    <3> QED
      BY <1>1, <3>1, <3>2, <3>3
  <2> HIDE DEF D
  <2>3. ASSUME NEW s \in D(n + 1)
        PROVE  h[s] \in Nat /\ h[s] = SumStep(f, h, s)
    <3>1. CASE s = {}
      BY <3>1 DEF SumStep
    <3>2. CASE s # {}
      <4> DEFINE t == s \ {OneOf(s)}
      <4>1. /\ f[OneOf(s)] \in Nat /\ t \in D(n) /\ t \in D(n + 1)
            /\ g[t] \in Nat /\ g[t] = SumStep(f, g, t)
        BY <2>1, <2>2, <3>2
      <4>2. h[t] = g[t]
        BY <4>1
      <4>3. h[s] = f[OneOf(s)] + g[t]
        BY <3>2 DEF SumStep
      <4> HIDE DEF t, h
      <4> QED
        BY <3>2, <4>1, <4>2, <4>3 DEF SumStep, t
    <3> QED
      BY <3>1, <3>2
  <2>4. h \in [D(n + 1) -> Nat]
    <3>1. \A s \in D(n + 1) : SumStep(f, g, s) \in Nat
      BY <2>3
    <3> QED
      BY <3>1
  <2>5. Solves(h, n + 1)
    BY <2>3, <2>4
  <2> HIDE DEF Solves, h
  <2>6. n + 1 \in Nat /\ \E k : Solves(k, n + 1)
    BY <2>5
  <2> QED
    BY <2>6
<1>4. Cardinality(S) \in N
  <2>1. Cardinality(S) \in Nat
    BY FS_CardinalityType
  <2> HIDE DEF N
  <2> QED
    BY <1>2, <1>3, <2>1, InductiveSet
<1>5. PICK g : Solves(g, Cardinality(S))
  BY <1>4
<1>6. D(Cardinality(S)) = SUBSET S
  BY <1>1
<1> QED
  BY <1>5, <1>6 DEF Sums

\* MapThenSumSet is the value of one such F.
LEMMA SumIsSums ==
    ASSUME NEW S, IsFiniteSet(S), NEW f \in [S -> Nat]
    PROVE  \E F : Sums(F, f, S) /\ MapThenSumSet(LAMBDA x : f[x], S) = F[S]
<1> DEFINE It == CHOOSE F : F = [s \in SUBSET S |-> SumStep(f, F, s)]
<1>1. \E F : F = [s \in SUBSET S |-> SumStep(f, F, s)]
  <2>1. PICK F : Sums(F, f, S)
    BY SumsExist
  <2>2. F = [s \in SUBSET S |-> SumStep(f, F, s)]
    BY <2>1 DEF Sums
  <2> QED
    BY <2>2
<1>2. It = [s \in SUBSET S |-> SumStep(f, It, s)]
  BY <1>1
<1>3. MapThenSumSet(LAMBDA x : f[x], S) = It[S]
  BY DEF MapThenSumSet, MapThenFoldSet, SumStep, OneOf
<1> HIDE DEF It
<1>4. \A s \in SUBSET S : It[s] = SumStep(f, It, s)
  BY <1>2
<1>5. \A s \in SUBSET S : It[s] \in Nat
  <2> DEFINE G == {s \in SUBSET S : It[s] \in Nat}
  <2>1. {} \in G
    <3>1. {} \in SUBSET S /\ SumStep(f, It, {}) = 0
      BY DEF SumStep
    <3> QED
      BY <1>4, <3>1
  <2>2. ASSUME NEW s \in SUBSET S, s # {}, \A x \in s : s \ {x} \in G PROVE s \in G
    <3>1. OneOf(s) \in s /\ f[OneOf(s)] \in Nat
      BY <2>2, OneOfIsIn
    <3>2. It[s] = f[OneOf(s)] + It[s \ {OneOf(s)}]
      BY <1>4, <2>2 DEF SumStep
    <3>3. It[s \ {OneOf(s)}] \in Nat
      BY <2>2, <3>1
    <3> QED
      BY <3>1, <3>2, <3>3
  <2>3. SUBSET S \subseteq G
    <3> HIDE DEF G
    <3> QED
      BY <2>1, <2>2, SubsetInduction
  <2> QED
    BY <2>3
<1> QED
  BY <1>2, <1>3, <1>4, <1>5 DEF Sums

\* A sum is a number.
LEMMA SumType ==
    ASSUME NEW S, IsFiniteSet(S), NEW f \in [S -> Nat]
    PROVE  MapThenSumSet(LAMBDA x : f[x], S) \in Nat
<1>1. PICK F : Sums(F, f, S) /\ MapThenSumSet(LAMBDA x : f[x], S) = F[S]
  BY SumIsSums
<1> QED
  BY <1>1 DEF Sums

\* Smaller terms, smaller sums.
LEMMA SumMonotone ==
    ASSUME NEW S, IsFiniteSet(S), NEW f \in [S -> Nat], NEW g \in [S -> Nat],
           \A x \in S : f[x] <= g[x]
    PROVE  MapThenSumSet(LAMBDA x : f[x], S) <= MapThenSumSet(LAMBDA x : g[x], S)
<1>1. PICK F : Sums(F, f, S) /\ MapThenSumSet(LAMBDA x : f[x], S) = F[S]
  BY SumIsSums
<1>2. PICK H : Sums(H, g, S) /\ MapThenSumSet(LAMBDA x : g[x], S) = H[S]
  BY SumIsSums
<1> DEFINE G == {s \in SUBSET S : F[s] <= H[s]}
<1>3. {} \in G
  <2>1. F[{}] = 0 /\ H[{}] = 0
    BY <1>1, <1>2 DEF Sums, SumStep
  <2> QED
    BY <2>1
<1>4. ASSUME NEW s \in SUBSET S, s # {}, \A x \in s : s \ {x} \in G PROVE s \in G
  <2> DEFINE t == s \ {OneOf(s)}
  <2>1. OneOf(s) \in s /\ t \in G
    BY <1>4, OneOfIsIn
  <2>2. f[OneOf(s)] \in Nat /\ g[OneOf(s)] \in Nat /\ f[OneOf(s)] <= g[OneOf(s)]
    BY <2>1
  <2>3. F[s] = f[OneOf(s)] + F[t] /\ H[s] = g[OneOf(s)] + H[t]
    BY <1>1, <1>2, <1>4 DEF Sums, SumStep
  <2>4. F[t] \in Nat /\ H[t] \in Nat /\ F[t] <= H[t]
    BY <1>1, <1>2, <2>1 DEF Sums
  <2> QED
    BY <2>2, <2>3, <2>4
<1>5. SUBSET S \subseteq G
  <2> HIDE DEF G
  <2> QED
    BY <1>3, <1>4, SubsetInduction
<1>6. F[S] <= H[S]
  BY <1>5
<1> QED
  BY <1>1, <1>2, <1>6

\* One term larger by one, the sum larger by one.
LEMMA SumPlusOne ==
    ASSUME NEW S, IsFiniteSet(S), NEW f \in [S -> Nat], NEW g \in [S -> Nat],
           NEW a \in S, g[a] = f[a] + 1, \A x \in S \ {a} : g[x] = f[x]
    PROVE  MapThenSumSet(LAMBDA x : g[x], S) = MapThenSumSet(LAMBDA x : f[x], S) + 1
<1>1. PICK F : Sums(F, f, S) /\ MapThenSumSet(LAMBDA x : f[x], S) = F[S]
  BY SumIsSums
<1>2. PICK H : Sums(H, g, S) /\ MapThenSumSet(LAMBDA x : g[x], S) = H[S]
  BY SumIsSums
<1> DEFINE More(s) == IF a \in s THEN 1 ELSE 0
           G == {s \in SUBSET S : H[s] = F[s] + More(s)}
<1>3. {} \in G
  <2>1. F[{}] = 0 /\ H[{}] = 0
    BY <1>1, <1>2 DEF Sums, SumStep
  <2> QED
    BY <2>1
<1>4. ASSUME NEW s \in SUBSET S, s # {}, \A x \in s : s \ {x} \in G PROVE s \in G
  <2> DEFINE y == OneOf(s)
             t == s \ {y}
  <2>1. y \in s /\ t \in G
    BY <1>4, OneOfIsIn
  <2>2. f[y] \in Nat /\ g[y] \in Nat
    BY <2>1
  <2>3. F[s] = f[y] + F[t] /\ H[s] = g[y] + H[t]
    BY <1>1, <1>2, <1>4 DEF Sums, SumStep
  <2>4. F[t] \in Nat /\ H[t] = F[t] + More(t)
    BY <1>1, <2>1 DEF Sums
  <2>5. CASE y = a
    <3>1. g[y] = f[y] + 1 /\ More(t) = 0 /\ More(s) = 1
      BY <2>1, <2>5
    <3> QED
      BY <2>2, <2>3, <2>4, <3>1
  <2>6. CASE y # a
    <3>1. g[y] = f[y] /\ More(t) = More(s)
      BY <2>1, <2>6
    <3>2. More(t) \in Nat
      OBVIOUS
    <3> HIDE DEF More, y, t
    <3> QED
      BY <2>2, <2>3, <2>4, <3>1, <3>2
  <2> QED
    BY <2>5, <2>6
<1>5. SUBSET S \subseteq G
  <2> HIDE DEF G
  <2> QED
    BY <1>3, <1>4, SubsetInduction
<1>6. H[S] = F[S] + 1
  BY <1>5
<1> QED
  BY <1>1, <1>2, <1>6

\* Nothing adds up to nothing.
LEMMA SumOfZeros ==
    ASSUME NEW S, IsFiniteSet(S), NEW f \in [S -> Nat], \A x \in S : f[x] = 0
    PROVE  MapThenSumSet(LAMBDA x : f[x], S) = 0
<1>1. PICK F : Sums(F, f, S) /\ MapThenSumSet(LAMBDA x : f[x], S) = F[S]
  BY SumIsSums
<1> DEFINE G == {s \in SUBSET S : F[s] = 0}
<1>2. {} \in G
  BY <1>1 DEF Sums, SumStep
<1>3. ASSUME NEW s \in SUBSET S, s # {}, \A x \in s : s \ {x} \in G PROVE s \in G
  <2>1. OneOf(s) \in s /\ s \ {OneOf(s)} \in G
    BY <1>3, OneOfIsIn
  <2>2. F[s] = f[OneOf(s)] + F[s \ {OneOf(s)}]
    BY <1>1, <1>3 DEF Sums, SumStep
  <2> QED
    BY <2>1, <2>2
<1>4. SUBSET S \subseteq G
  <2> HIDE DEF G
  <2> QED
    BY <1>2, <1>3, SubsetInduction
<1> QED
  BY <1>1, <1>4
=============================================================================
