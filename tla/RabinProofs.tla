---------------------------- MODULE RabinProofs -----------------------------
(***************************************************************************)
(* The segmentation, for every window, every polynomial with the highest    *)
(* bit of a word, all size bounds that rabin_init accepts and any stream:   *)
(* the counter cur_seg_size keeps the segments within the bounds, whatever  *)
(* the fingerprint is; the fingerprint is the remainder of the window       *)
(* modulo POLY; and the cuts depend on the contents only.                   *)
(*                                                                          *)
(* Polynomials over GF(2) are finite sets of exponents and (+) adds them.   *)
(* The tables of calcT and the reference definitions are recursive          *)
(* functions: Recursion shows that they exist, InductionTo what they are.   *)
(***************************************************************************)
EXTENDS Rabin, FiniteSetTheorems, WellFoundedInduction, TLAPS

(***************************************************************************)
(* The sizes of the segments.                                               *)
(***************************************************************************)
\* Where the segment that is still open starts.
Start == Len(stream) - cur_seg_size

\* The counter measures from the last cut, and stays below the maximum that it
\* is compared with by equality.
Counted ==
  /\ stream \in Seq(Bytes)
  /\ cur_seg_size \in 0..(max_segment_size - 1)
  /\ cuts \subseteq 1..Len(stream)
  /\ Start \in cuts \cup {0}
  /\ \A d \in cuts : d <= Start

\* The segments that have ended have the size they should have.
Ended ==
  \A c \in cuts : \E b \in cuts \cup {0} :
    /\ c - b \in min_segment_size..max_segment_size
    /\ \A d \in cuts : ~(b < d /\ d < c)

LEMMA Sizes ==
  /\ min_segment_size \in Nat \ {0}
  /\ max_segment_size \in Nat \ {0}
  /\ min_segment_size <= max_segment_size
BY RabinAssumption

LEMMA Initially == Init => Counted /\ Ended
BY Sizes DEF Init, Counted, Ended, Start

\* A step of the window makes the stream one byte longer (slide8).
LEMMA Longer ==
  ASSUME NEW m \in Bytes, slide8(m), stream \in Seq(Bytes)
  PROVE  stream' \in Seq(Bytes) /\ Len(stream') = Len(stream) + 1 /\ Len(stream) \in Nat
BY DEF slide8

LEMMA Step ==
  ASSUME Counted, Ended, [Next]_vars
  PROVE  Counted' /\ Ended'
<1>1. CASE Reset
  BY <1>1, Sizes DEF Reset, Counted, Ended, Start
<1>2. ASSUME NEW bytes \in 1..MaxCall, Call(bytes)
      PROVE  Counted' /\ Ended'
  BY <1>2 DEF Call, Counted, Ended, Start
<1>3. ASSUME NEW m \in Bytes, ReadCutting(m)
      PROVE  Counted' /\ Ended'
  <2> DEFINE n == Len(stream) + 1
  <2>1. /\ stream' \in Seq(Bytes) /\ Len(stream') = n /\ Len(stream) \in Nat
        /\ cuts' = cuts \cup {n} /\ cur_seg_size' = 0
    BY <1>3, Longer DEF ReadCutting, Counted
  <2>2. n - Start \in min_segment_size..max_segment_size
    <3>1. n - Start = cur_seg_size + 1
      BY <2>1 DEF Start, Counted
    <3>2. cur_seg_size + 1 >= min_segment_size
      BY <1>3 DEF ReadCutting, Boundary
    <3> QED BY <3>1, <3>2, Sizes DEF Counted
  <2>3. \A d \in cuts : d \in Nat /\ d < n
    BY <2>1 DEF Counted
  <2>4. Counted'
    <3>1. Start' = n
      BY <2>1 DEF Start
    <3>2. \A d \in cuts' : d \in 1..n
      <4>1. \A d \in cuts : d \in 1..n
        BY <2>1 DEF Counted
      <4>2. n \in 1..n
        BY <2>1
      <4> QED BY <2>1, <4>1, <4>2
    <3>3. \A d \in cuts' : d <= Start'
      BY <2>1, <2>3, <3>1
    <3>4. cur_seg_size' \in 0..(max_segment_size - 1)
      BY <2>1, Sizes
    <3> QED BY <2>1, <3>1, <3>2, <3>3, <3>4 DEF Counted
  <2>5. ASSUME NEW c \in cuts'
        PROVE  \E b \in cuts' \cup {0} :
                 /\ c - b \in min_segment_size..max_segment_size
                 /\ \A d \in cuts' : ~(b < d /\ d < c)
    <3>1. CASE c \in cuts
      <4>1. PICK b \in cuts \cup {0} :
              /\ c - b \in min_segment_size..max_segment_size
              /\ \A d \in cuts : ~(b < d /\ d < c)
        BY <3>1 DEF Ended
      <4>2. ~(b < n /\ n < c)
        BY <2>1, <2>3, <3>1
      <4> QED BY <2>1, <4>1, <4>2
    <3>2. CASE c = n
      <4>1. Start \in cuts \cup {0} /\ \A d \in cuts : d <= Start
        BY DEF Counted
      <4>2. \A d \in cuts' : ~(Start < d /\ d < n)
        BY <2>1, <2>3, <4>1 DEF Start, Counted
      <4> QED BY <2>1, <2>2, <3>2, <4>1, <4>2
    <3> QED BY <2>1, <3>1, <3>2
  <2> QED BY <2>4, <2>5 DEF Ended
<1>4. ASSUME NEW m \in Bytes, Read(m)
      PROVE  Counted' /\ Ended'
  <2>1. /\ stream' \in Seq(Bytes) /\ Len(stream') = Len(stream) + 1 /\ Len(stream) \in Nat
        /\ cuts' = cuts /\ cur_seg_size' = cur_seg_size + 1
    BY <1>4, Longer DEF Read, Counted
  <2>2. cur_seg_size + 1 # max_segment_size
    BY <1>4, Sizes DEF Read, Boundary
  <2>3. Start' = Start
    BY <2>1 DEF Start, Counted
  <2>4. Counted'
    BY <2>1, <2>2, <2>3, Sizes DEF Counted
  <2> QED BY <2>1, <2>4 DEF Ended
<1>5. CASE UNCHANGED vars
  BY <1>5 DEF vars, Counted, Ended, Start
<1> QED BY <1>1, <1>2, <1>3, <1>4, <1>5 DEF Next

\* Segments are never shorter than min_segment_size nor longer than
\* max_segment_size, for every argument rabin_init accepts and any stream, cut
\* into calls in any way (rabin_segment_next).
THEOREM SegmentSizesHold == Spec => []SegmentSizes
<1>1. Spec => [](Counted /\ Ended)
  BY Initially, Step, PTL DEF Spec
<1>2. Counted /\ Ended => SegmentSizes
  BY Sizes DEF Counted, Ended, SegmentSizes, Start
<1> QED BY <1>1, <1>2, PTL

(***************************************************************************)
(* Natural numbers: induction, stated about a set instead of a predicate.   *)
(***************************************************************************)
\* Of some numbers one is the least.
LEMMA Least ==
  ASSUME NEW S \in SUBSET Nat, S # {}
  PROVE  \E n \in S : \A m \in S : n <= m
<1> DEFINE Below == {0..n : n \in S}
<1>1. IsWellFoundedOn(StrictSubsetOrdering(Nat), FiniteSubsetsOf(Nat))
  BY FS_StrictSubsetOrderingWellFounded
<1>2. Below \subseteq FiniteSubsetsOf(Nat) /\ Below # {}
  <2>1. ASSUME NEW n \in S PROVE 0..n \subseteq Nat /\ IsFiniteSet(0..n)
    BY FS_Interval
  <2> QED BY <2>1 DEF FiniteSubsetsOf
<1>3. PICK t \in Below : \A u \in Below : ~(<<u, t>> \in StrictSubsetOrdering(Nat))
  BY <1>1, <1>2, WFMin
<1>4. PICK n \in S : t = 0..n
  BY <1>3
<1>5. ASSUME NEW m \in S, m < n PROVE FALSE
  <2>1. 0..m \in Below /\ 0..m \subseteq 0..n /\ 0..m # 0..n
    <3>1. n \in 0..n /\ ~(n \in 0..m)
      BY <1>5
    <3> QED BY <1>5, <3>1
  <2>2. 0..m \subseteq Nat /\ 0..n \subseteq Nat
    OBVIOUS
  <2>3. <<0..m, t>> \in StrictSubsetOrdering(Nat)
    BY <1>4, <2>1, <2>2 DEF StrictSubsetOrdering
  <2> QED BY <1>3, <2>1, <2>3
<1> QED BY <1>5

\* Of some numbers up to a bound one is the greatest.
LEMMA Greatest ==
  ASSUME NEW n \in Nat, NEW S \in SUBSET (0..n), S # {}
  PROVE  \E m \in S : \A k \in S : k <= m
<1> DEFINE R == {n - k : k \in S}
<1>1. R \in SUBSET Nat /\ R # {}
  <2>1. \A k \in S : n - k \in Nat
    OBVIOUS
  <2>2. PICK k \in S : TRUE
    OBVIOUS
  <2>3. n - k \in R
    OBVIOUS
  <2> QED BY <2>1, <2>3
<1>2. PICK r \in R : \A k \in R : r <= k
  BY <1>1, Least
<1>3. PICK m \in S : r = n - m
  OBVIOUS
<1>4. ASSUME NEW k \in S PROVE k <= m
  <2>1. n - k \in R
    OBVIOUS
  <2>2. r <= n - k
    BY <1>2, <2>1
  <2> QED BY <1>3, <2>2
<1> QED BY <1>4

\* Up to n.
LEMMA InductionTo ==
  ASSUME NEW n \in Nat, NEW S, 0 \in S, \A i \in 0..(n - 1) : i \in S => i + 1 \in S
  PROVE  \A i \in 0..n : i \in S
<1> SUFFICES ASSUME (0..n) \ S # {} PROVE FALSE
  OBVIOUS
<1> DEFINE R == (0..n) \ S
<1>1. R \in SUBSET Nat /\ R # {}
  OBVIOUS
<1> HIDE DEF R
<1>2. PICK k \in R : \A m \in R : k <= m
  BY <1>1, Least
<1>3. k # 0 /\ k \in 0..n
  BY DEF R
<1>4. k - 1 \notin R /\ k - 1 \in 0..(n - 1)
  BY <1>2, <1>3
<1>5. k - 1 \in S
  BY <1>4 DEF R
<1>6. (k - 1) + 1 \in S /\ (k - 1) + 1 = k
  BY <1>3, <1>4, <1>5
<1>7. k \in S
  BY <1>6
<1> QED BY <1>7 DEF R

LEMMA Induction ==
  ASSUME NEW S, 0 \in S, \A n \in Nat : n \in S => n + 1 \in S
  PROVE  \A n \in Nat : n \in S
<1> SUFFICES ASSUME NEW n \in Nat PROVE n \in S
  OBVIOUS
<1>1. \A i \in 0..(n - 1) : i \in S => i + 1 \in S
  OBVIOUS
<1>2. \A i \in 0..n : i \in S
  BY <1>1, InductionTo
<1> QED BY <1>2

\* What is defined step by step exists.
Follows(f, n, V, base, G) ==
  f \in [0..n -> V] /\ f[0] = base /\ \A i \in 0..(n - 1) : f[i + 1] = G[i][f[i]]

LEMMA Recursion ==
  ASSUME NEW V, NEW base \in V, NEW n \in Nat, NEW G \in [0..(n - 1) -> [V -> V]]
  PROVE  \E f : Follows(f, n, V, base, G)
<1> DEFINE Steps(f, k) == f[0] = base /\ \A i \in 0..(k - 1) : f[i + 1] = G[i][f[i]]
           Ks == {k \in 0..n : \E f \in [0..k -> V] : Steps(f, k)}
<1>1. 0 \in Ks
  <2> DEFINE f == [i \in 0..0 |-> base]
  <2>1. f \in [0..0 -> V] /\ Steps(f, 0) /\ 0 \in 0..n
    OBVIOUS
  <2> HIDE DEF f, Steps
  <2> QED BY <2>1
<1>2. ASSUME NEW k \in 0..(n - 1), k \in Ks PROVE k + 1 \in Ks
  <2>1. PICK f \in [0..k -> V] : Steps(f, k)
    BY <1>2
  <2> DEFINE g == [i \in 0..(k + 1) |-> IF i = k + 1 THEN G[k][f[k]] ELSE f[i]]
  <2>2. g \in [0..(k + 1) -> V]
    <3>1. G[k][f[k]] \in V
      OBVIOUS
    <3>2. \A i \in 0..(k + 1) : i # k + 1 => f[i] \in V
      OBVIOUS
    <3> QED BY <3>1, <3>2
  <2>3. Steps(g, k + 1)
    <3>1. g[0] = base
      BY <2>1
    <3>2. ASSUME NEW i \in 0..k PROVE g[i + 1] = G[i][g[i]]
      <4>1. g[i] = f[i]
        OBVIOUS
      <4>2. CASE i = k
        BY <4>1, <4>2
      <4>3. CASE i # k
        <5>1. i \in 0..(k - 1) /\ g[i + 1] = f[i + 1]
          BY <4>3
        <5> QED BY <2>1, <4>1, <5>1
      <4> QED BY <4>2, <4>3
    <3>3. \A i \in 0..((k + 1) - 1) : g[i + 1] = G[i][g[i]]
      <4>1. \A i \in 0..((k + 1) - 1) : i \in 0..k
        OBVIOUS
      <4> HIDE DEF g
      <4> QED BY <3>2, <4>1
    <3> QED BY <3>1, <3>3
  <2>4. k + 1 \in 0..n
    OBVIOUS
  <2> HIDE DEF g, Steps
  <2> QED BY <2>2, <2>3, <2>4
<1> HIDE DEF Ks
<1>3. \A i \in 0..(n - 1) : i \in Ks => i + 1 \in Ks
  BY <1>2
<1>4. n \in Ks
  <2>1. \A i \in 0..n : i \in Ks
    BY <1>1, <1>3, InductionTo
  <2> QED BY <2>1
<1> QED BY <1>4 DEF Ks, Follows

(***************************************************************************)
(* Polynomials over GF(2): sets of exponents up to some bound.              *)
(***************************************************************************)
Polys == {a \in SUBSET Nat : \E n \in Nat : \A e \in a : e <= n}

\* Times x^n.
Times(a, n) == {e + n : e \in a}

Odd(S) == Cardinality(S) % 2 = 1

\* The pairs of terms whose product is x^e, by the first of them.
Pairs(x, y, e) == {i \in x : e - i \in y}

LEMMA PolysFinite ==
  ASSUME NEW a \in Polys
  PROVE  IsFiniteSet(a) /\ a \subseteq Nat
<1>1. PICK n \in Nat : \A e \in a : e <= n
  BY DEF Polys
<1>2. a \in SUBSET Nat
  BY DEF Polys
<1> QED BY <1>1, <1>2, FS_BoundedSetOfNaturals

\* A polynomial has a degree, unless it is 0.
LEMMA Degrees ==
  ASSUME NEW a \in Polys, a # {}
  PROVE  Degree(a) \in a /\ \A e \in a : e <= Degree(a)
<1>1. PICK n \in Nat : \A e \in a : e <= n
  BY DEF Polys
<1>2. a \in SUBSET (0..n)
  BY <1>1 DEF Polys
<1>3. \E k \in a : \A e \in a : e <= k
  BY <1>2, Greatest
<1> QED BY <1>3 DEF Degree

LEMMA SumsArePolys ==
  ASSUME NEW a \in Polys, NEW b \in Polys
  PROVE  a (+) b \in Polys
<1>1. PICK m \in Nat : \A e \in a : e <= m
  BY DEF Polys
<1>2. PICK n \in Nat : \A e \in b : e <= n
  BY DEF Polys
<1>3. a \subseteq Nat /\ b \subseteq Nat
  BY PolysFinite
<1>4. \A e \in a (+) b : e <= m + n
  BY <1>1, <1>2, <1>3 DEF (+)
<1> QED BY <1>3, <1>4 DEF Polys, (+)

\* The size of a sum is odd if one of the sizes is.
LEMMA OddSum ==
  ASSUME NEW A, NEW B, IsFiniteSet(A), IsFiniteSet(B)
  PROVE  Odd(A (+) B) <=> ~(Odd(A) <=> Odd(B))
<1>1. /\ IsFiniteSet(A \cup B)
      /\ Cardinality(A \cup B) = Cardinality(A) + Cardinality(B) - Cardinality(A \cap B)
  BY FS_Union
<1>2. A (+) B = (A \cup B) \ (A \cap B) /\ (A \cup B) \cap (A \cap B) = A \cap B
  BY DEF (+)
<1>3. Cardinality((A \cup B) \ (A \cap B)) = Cardinality(A \cup B) - Cardinality((A \cup B) \cap (A \cap B))
  BY <1>1, FS_Difference
<1>4. Cardinality(A) \in Nat /\ Cardinality(B) \in Nat /\ Cardinality(A \cap B) \in Nat
  BY FS_CardinalityType, FS_Intersection
<1>5. Cardinality(A (+) B) = (Cardinality(A) + Cardinality(B) - Cardinality(A \cap B)) - Cardinality(A \cap B)
  BY <1>1, <1>2, <1>3, Zenon
<1>6. ASSUME NEW a \in Nat, NEW b \in Nat, NEW c \in Nat
      PROVE  ((a + b - c) - c) % 2 = 1 <=> ~(a % 2 = 1 <=> b % 2 = 1)
  OBVIOUS
<1>7. ((Cardinality(A) + Cardinality(B) - Cardinality(A \cap B)) - Cardinality(A \cap B)) % 2 = 1
        <=> ~(Cardinality(A) % 2 = 1 <=> Cardinality(B) % 2 = 1)
  BY <1>4, <1>6
<1> QED BY <1>5, <1>7, Zenon DEF Odd

LEMMA PairsFinite ==
  ASSUME NEW x \in Polys, NEW y, NEW e
  PROVE  IsFiniteSet(Pairs(x, y, e))
BY PolysFinite, FS_Subset DEF Pairs

\* A product by its coefficients.
LEMMA Product ==
  ASSUME NEW x \in Polys, NEW y \in Polys
  PROVE  /\ polymult(x, y) = {e \in Nat : Odd(Pairs(x, y, e))}
         /\ polymult(x, y) \in Polys
<1>1. x \subseteq Nat /\ y \subseteq Nat
  BY PolysFinite
<1>2. polymult(x, y) \subseteq Nat
  BY <1>1 DEF polymult
<1>3. ASSUME NEW e \in Nat
      PROVE  e \in polymult(x, y) <=> Odd(Pairs(x, y, e))
  <2>1. CASE Pairs(x, y, e) = {}
    <3>1. ~Odd(Pairs(x, y, e))
      BY <2>1, FS_EmptySet DEF Odd
    <3> QED BY <3>1 DEF polymult, Pairs, Odd
  <2>2. CASE Pairs(x, y, e) # {}
    <3>1. PICK i \in x : e - i \in y
      BY <2>2 DEF Pairs
    <3>2. i + (e - i) = e
      BY <1>1, <3>1
    <3>3. e \in {k + j : k \in x, j \in y}
      BY <3>1, <3>2
    <3> QED BY <3>3 DEF polymult, Pairs, Odd
  <2> QED BY <2>1, <2>2
<1>4. polymult(x, y) \in Polys
  <2>1. PICK m \in Nat : \A e \in x : e <= m
    BY DEF Polys
  <2>2. PICK n \in Nat : \A e \in y : e <= n
    BY DEF Polys
  <2>3. \A e \in polymult(x, y) : e <= m + n
    BY <1>1, <2>1, <2>2 DEF polymult
  <2>4. m + n \in Nat
    OBVIOUS
  <2> QED BY <1>2, <2>3, <2>4 DEF Polys
<1> QED BY <1>2, <1>3, <1>4

\* Products distribute over sums ...
LEMMA ProductOfSum ==
  ASSUME NEW x \in Polys, NEW z \in Polys, NEW y \in Polys
  PROVE  polymult(x (+) z, y) = polymult(x, y) (+) polymult(z, y)
<1>1. ASSUME NEW e \in Nat
      PROVE  Odd(Pairs(x (+) z, y, e)) <=> ~(Odd(Pairs(x, y, e)) <=> Odd(Pairs(z, y, e)))
  <2>1. Pairs(x (+) z, y, e) = Pairs(x, y, e) (+) Pairs(z, y, e)
    BY Zenon DEF Pairs, (+)
  <2> QED BY <2>1, PairsFinite, OddSum
<1>2. x (+) z \in Polys
  BY SumsArePolys
<1>3. ASSUME NEW p \in Polys
      PROVE  polymult(p, y) \subseteq Nat /\ \A e \in Nat : e \in polymult(p, y) <=> Odd(Pairs(p, y, e))
  BY Product
<1>4. \A e \in Nat : e \in polymult(x (+) z, y) <=> ~(e \in polymult(x, y) <=> e \in polymult(z, y))
  BY <1>1, <1>2, <1>3
<1>5. /\ polymult(x (+) z, y) \subseteq Nat
      /\ polymult(x, y) \subseteq Nat /\ polymult(z, y) \subseteq Nat
  BY <1>2, <1>3
<1> HIDE DEF polymult
<1> QED BY <1>4, <1>5 DEF (+)

\* ... a term moves the exponents ...
LEMMA ProductOfTerm ==
  ASSUME NEW j \in Nat, NEW y \in Polys
  PROVE  polymult({j}, y) = Times(y, j)
<1>1. {j} \in Polys /\ y \subseteq Nat
  BY PolysFinite DEF Polys
<1>2. polymult({j}, y) = {e \in Nat : Odd(Pairs({j}, y, e))}
  BY <1>1, Product
<1>3. ASSUME NEW e \in Nat PROVE Odd(Pairs({j}, y, e)) <=> e \in Times(y, j)
  <2>1. CASE e - j \in y
    <3>1. Pairs({j}, y, e) = {j} /\ (e - j) + j = e
      BY <2>1 DEF Pairs
    <3>2. e \in Times(y, j)
      BY <2>1, <3>1 DEF Times
    <3>3. Cardinality({j}) = 1
      BY FS_Singleton
    <3> QED BY <3>1, <3>2, <3>3 DEF Odd
  <2>2. CASE e - j \notin y
    <3>1. Pairs({j}, y, e) = {}
      BY <2>2 DEF Pairs
    <3>2. \A f \in y : e = f + j => e - j = f
      BY <1>1
    <3>3. e \notin Times(y, j)
      BY <2>2, <3>2 DEF Times
    <3> QED BY <3>1, <3>3, FS_EmptySet DEF Odd
  <2> QED BY <2>1, <2>2
<1>4. Times(y, j) \subseteq Nat
  BY <1>1 DEF Times
<1> QED BY <1>2, <1>3, <1>4

\* ... and there is nothing in nothing.
LEMMA ProductOfNone ==
  ASSUME NEW y \in Polys
  PROVE  polymult({}, y) = {}
BY DEF polymult

\* Moving the exponents of a factor moves those of the product.
LEMMA TimesType ==
  ASSUME NEW a \in Polys, NEW n \in Nat
  PROVE  Times(a, n) \in Polys
<1>1. PICK m \in Nat : \A e \in a : e <= m
  BY DEF Polys
<1>2. a \subseteq Nat
  BY PolysFinite
<1>3. \A e \in Times(a, n) : e \in Nat /\ e <= m + n
  BY <1>1, <1>2 DEF Times
<1>4. m + n \in Nat
  OBVIOUS
<1> QED BY <1>3, <1>4 DEF Polys

LEMMA InTimes ==
  ASSUME NEW a \in Polys, NEW n \in Nat, NEW e \in Nat
  PROVE  e \in Times(a, n) <=> e >= n /\ e - n \in a
<1>1. a \subseteq Nat
  BY PolysFinite
<1>2. ASSUME e \in Times(a, n) PROVE e >= n /\ e - n \in a
  <2>1. PICK f \in a : e = f + n
    BY <1>2 DEF Times
  <2>2. f \in Nat /\ e - n = f
    BY <1>1, <2>1
  <2> QED BY <2>1, <2>2
<1>3. ASSUME e >= n, e - n \in a PROVE e \in Times(a, n)
  <2>1. e = (e - n) + n
    OBVIOUS
  <2> QED BY <1>3, <2>1 DEF Times
<1> QED BY <1>2, <1>3

LEMMA TimesOfSum ==
  ASSUME NEW a \in Polys, NEW b \in Polys, NEW n \in Nat
  PROVE  Times(a (+) b, n) = Times(a, n) (+) Times(b, n)
<1>1. a (+) b \in Polys
  BY SumsArePolys
<1>2. \A e \in Nat : e - n \in a (+) b <=> ~(e - n \in a <=> e - n \in b)
  BY DEF (+)
<1>3. \A e \in Nat : e \in Times(a (+) b, n) <=> ~(e \in Times(a, n) <=> e \in Times(b, n))
  BY <1>1, <1>2, InTimes
<1>4. Times(a (+) b, n) \subseteq Nat /\ Times(a, n) \subseteq Nat /\ Times(b, n) \subseteq Nat
  BY <1>1, TimesType, PolysFinite
<1> QED BY <1>3, <1>4 DEF (+)

LEMMA ProductOfTimes ==
  ASSUME NEW x \in Polys, NEW y \in Polys, NEW n \in Nat
  PROVE  polymult(Times(x, n), y) = Times(polymult(x, y), n)
<1>1. Times(x, n) \in Polys /\ x \subseteq Nat /\ y \subseteq Nat
  BY TimesType, PolysFinite
<1>2. ASSUME NEW e \in Nat, e < n PROVE Pairs(Times(x, n), y, e) = {}
  BY <1>1, <1>2 DEF Pairs, Times
<1>3. ASSUME NEW e \in Nat PROVE Odd(Pairs(Times(x, n), y, e + n)) <=> Odd(Pairs(x, y, e))
  <2> DEFINE P == Pairs(x, y, e)
             Q == Pairs(Times(x, n), y, e + n)
             f == [i \in P |-> i + n]
  <2>1. P \subseteq x /\ Q = {i + n : i \in P}
    <3>1. \A i \in x : (e + n) - (i + n) = e - i
      BY <1>1
    <3> QED BY <3>1, Zenon DEF Pairs, Times
  <2>2. f \in Bijection(P, Q)
    <3> HIDE DEF P, Q
    <3>1. f \in [P -> Q]
      BY <2>1
    <3>2. \A i, j \in P : f[i] = f[j] => i = j
      <4>1. \A i, j \in P : i + n = j + n => i = j
        BY <1>1, <2>1
      <4> QED BY <4>1
    <3>3. \A q \in Q : \E i \in P : f[i] = q
      BY <2>1
    <3> HIDE DEF f
    <3>4. f \in Injection(P, Q)
      BY <3>1, <3>2, Zenon DEF Injection, IsInjective
    <3>5. f \in Surjection(P, Q)
      BY <3>1, <3>3, Zenon DEF Surjection
    <3> QED BY <3>4, <3>5 DEF Bijection
  <2>3. Cardinality(P) = Cardinality(Q)
    BY <2>2, PairsFinite, FS_Bijection DEF ExistsBijection
  <2> QED BY <2>3 DEF Odd
<1>4. ASSUME NEW e \in Nat
      PROVE  Odd(Pairs(Times(x, n), y, e)) <=> e >= n /\ Odd(Pairs(x, y, e - n))
  <2>1. CASE e < n
    <3>1. Cardinality({}) % 2 # 1
      BY FS_EmptySet
    <3> QED BY <1>2, <2>1, <3>1 DEF Odd
  <2>2. CASE e >= n
    <3>1. e - n \in Nat /\ (e - n) + n = e
      BY <2>2
    <3> QED BY <1>3, <2>2, <3>1
  <2> QED BY <2>1, <2>2
<1>5. ASSUME NEW e \in Nat
      PROVE  e \in polymult(Times(x, n), y) <=> e \in Times(polymult(x, y), n)
  <2>1. e \in polymult(Times(x, n), y) <=> Odd(Pairs(Times(x, n), y, e))
    BY <1>1, Product, Zenon
  <2>2. e \in Times(polymult(x, y), n) <=> e >= n /\ e - n \in polymult(x, y)
    BY InTimes, Product
  <2>3. e >= n => (e - n \in polymult(x, y) <=> Odd(Pairs(x, y, e - n)))
    <3>1. e >= n => e - n \in Nat
      OBVIOUS
    <3> QED BY <3>1, Product, Zenon
  <2> QED BY <1>4, <2>1, <2>2, <2>3
<1>6. polymult(Times(x, n), y) \subseteq Nat /\ Times(polymult(x, y), n) \subseteq Nat
  BY <1>1, Product, TimesType, PolysFinite
<1> HIDE DEF polymult
<1> QED BY <1>5, <1>6

\* The degree of a product.
LEMMA ProductDegree ==
  ASSUME NEW x \in Polys, NEW y \in Polys, x # {}, y # {}
  PROVE  Degree(x) + Degree(y) \in polymult(x, y)
<1> DEFINE d == Degree(x)
           k == Degree(y)
<1>1. /\ d \in x /\ \A e \in x : e <= d
      /\ k \in y /\ \A e \in y : e <= k
  BY Degrees
<1>2. x \subseteq Nat /\ y \subseteq Nat
  BY PolysFinite
<1> HIDE DEF d, k
<1>3. d \in Nat /\ k \in Nat /\ (d + k) - d = k
  BY <1>1, <1>2
<1>4. Pairs(x, y, d + k) = {d}
  <2>1. d \in Pairs(x, y, d + k)
    BY <1>1, <1>3 DEF Pairs
  <2>2. ASSUME NEW i \in Pairs(x, y, d + k) PROVE i = d
    <3>1. i \in x /\ (d + k) - i \in y /\ i \in Nat
      BY <1>2 DEF Pairs
    <3>2. i <= d /\ (d + k) - i <= k
      BY <1>1, <3>1
    <3> QED BY <1>3, <3>1, <3>2
  <2> QED BY <2>1, <2>2
<1>5. Odd(Pairs(x, y, d + k))
  <2>1. Cardinality({d}) = 1
    BY FS_Singleton
  <2>2. Cardinality({d}) % 2 = 1
    BY <2>1
  <2> QED BY <1>4, <2>2 DEF Odd
<1>6. d + k \in Nat
  BY <1>3
<1> QED BY <1>5, <1>6, Product DEF d, k

(***************************************************************************)
(* Congruence modulo POLY.                                                  *)
(***************************************************************************)
Congruent(a, b) == \E q \in Polys : polymult(q, POLY) = a (+) b

\* What a remainder is.
Residues == SUBSET (0..(xshift - 1))

LEMMA Width ==
  /\ POLY \in Polys /\ POLY # {}
  /\ xshift = WIDTH - 1 /\ xshift \in POLY /\ \A e \in POLY : e <= xshift
  /\ WIDTH \in Nat /\ BYTE \in Nat \ {0} /\ BYTE < WIDTH
  /\ xshift \in Nat \ {0} /\ xshift >= BYTE /\ window_size \in Nat \ {0}
<1>1. /\ WIDTH \in Nat /\ BYTE \in Nat \ {0} /\ BYTE < WIDTH
      /\ POLY \subseteq 0..(WIDTH - 1) /\ WIDTH - 1 \in POLY
      /\ window_size \in Nat \ {0}
  BY RabinAssumption DEF Words
<1>2. POLY \in Polys
  <2>1. \A e \in POLY : e \in Nat /\ e <= WIDTH
    BY <1>1
  <2> QED BY <1>1, <2>1 DEF Polys
<1>3. Degree(POLY) \in POLY /\ \A e \in POLY : e <= Degree(POLY)
  BY <1>1, <1>2, Degrees
<1>4. Degree(POLY) \in 0..(WIDTH - 1) /\ WIDTH - 1 <= Degree(POLY)
  BY <1>1, <1>3
<1>5. Degree(POLY) = WIDTH - 1
  BY <1>1, <1>4
<1> QED BY <1>1, <1>2, <1>3, <1>5 DEF xshift

LEMMA ResiduesArePolys ==
  ASSUME NEW a \in Residues
  PROVE  a \in Polys
<1>1. xshift \in Nat
  BY Width
<1>2. \A e \in a : e \in Nat /\ e <= xshift
  BY <1>1 DEF Residues
<1> QED BY <1>1, <1>2 DEF Polys

LEMMA CongruentRefl ==
  ASSUME NEW a
  PROVE  Congruent(a, a)
<1>1. {} \in Polys
  BY DEF Polys
<1>2. polymult({}, POLY) = {}
  BY ProductOfNone, Width
<1>3. a (+) a = {}
  BY DEF (+)
<1> QED BY <1>1, <1>2, <1>3 DEF Congruent

LEMMA CongruentSym ==
  ASSUME NEW a, NEW b, Congruent(a, b)
  PROVE  Congruent(b, a)
<1>1. a (+) b = b (+) a
  BY DEF (+)
<1> QED BY <1>1 DEF Congruent

LEMMA CongruentSums ==
  ASSUME NEW a, NEW b, NEW c, NEW d, Congruent(a, b), Congruent(c, d)
  PROVE  Congruent(a (+) c, b (+) d)
<1>1. PICK q \in Polys : polymult(q, POLY) = a (+) b
  BY DEF Congruent
<1>2. PICK r \in Polys : polymult(r, POLY) = c (+) d
  BY DEF Congruent
<1>3. q (+) r \in Polys /\ polymult(q (+) r, POLY) = (a (+) b) (+) (c (+) d)
  BY <1>1, <1>2, SumsArePolys, ProductOfSum, Width
<1>4. (a (+) b) (+) (c (+) d) = (a (+) c) (+) (b (+) d)
  BY DEF (+)
<1> QED BY <1>3, <1>4, Zenon DEF Congruent

LEMMA CongruentTrans ==
  ASSUME NEW a, NEW b, NEW c, Congruent(a, b), Congruent(b, c)
  PROVE  Congruent(a, c)
<1>1. PICK q \in Polys : polymult(q, POLY) = a (+) b
  BY DEF Congruent
<1>2. PICK r \in Polys : polymult(r, POLY) = b (+) c
  BY DEF Congruent
<1>3. q (+) r \in Polys /\ polymult(q (+) r, POLY) = (a (+) b) (+) (b (+) c)
  BY <1>1, <1>2, SumsArePolys, ProductOfSum, Width
<1>4. (a (+) b) (+) (b (+) c) = a (+) c
  BY DEF (+)
<1> QED BY <1>3, <1>4, Zenon DEF Congruent

LEMMA CongruentTimes ==
  ASSUME NEW a \in Polys, NEW b \in Polys, NEW n \in Nat, Congruent(a, b)
  PROVE  Congruent(Times(a, n), Times(b, n))
<1>1. PICK q \in Polys : polymult(q, POLY) = a (+) b
  BY DEF Congruent
<1>2. Times(q, n) \in Polys /\ polymult(Times(q, n), POLY) = Times(a, n) (+) Times(b, n)
  BY <1>1, TimesType, TimesOfSum, ProductOfTimes, Width
<1> QED BY <1>2, Zenon DEF Congruent

\* So products by the same factor are congruent.
LEMMA CongruentProducts ==
  ASSUME NEW x \in Polys, NEW a \in Polys, NEW b \in Polys, Congruent(a, b)
  PROVE  Congruent(polymult(x, a), polymult(x, b))
<1> DEFINE Good(y) == Congruent(polymult(y, a), polymult(y, b))
           Below(n) == {y \in Polys : \A e \in y : e < n}
           S == {n \in Nat : \A y \in Below(n) : Good(y)}
<1>1. 0 \in S
  <2>1. ASSUME NEW y \in Below(0) PROVE y = {}
    BY PolysFinite
  <2>2. Good({})
    BY ProductOfNone, CongruentRefl
  <2> QED BY <2>1, <2>2
<1>2. ASSUME NEW n \in Nat, n \in S PROVE n + 1 \in S
  <2>1. ASSUME NEW y \in Below(n + 1) PROVE Good(y)
    <3>1. CASE n \notin y
      <4>1. y \in Below(n)
        BY <3>1, PolysFinite
      <4> QED BY <1>2, <4>1
    <3>2. CASE n \in y
      <4> DEFINE z == y \ {n}
      <4>1. y \in Polys /\ y \subseteq Nat
        BY PolysFinite
      <4>2. z \in Below(n) /\ {n} \in Polys
        BY <4>1 DEF Polys
      <4>3. y = z (+) {n}
        BY <3>2 DEF (+)
      <4>4. ASSUME NEW c \in Polys
            PROVE  polymult(y, c) = polymult(z, c) (+) Times(c, n)
        BY <4>2, <4>3, ProductOfSum, ProductOfTerm
      <4>5. Good(z)
        BY <1>2, <4>2
      <4>6. Congruent(Times(a, n), Times(b, n))
        BY CongruentTimes
      <4> HIDE DEF z
      <4> QED BY <4>4, <4>5, <4>6, CongruentSums
    <3> QED BY <3>1, <3>2
  <2> QED BY <1>2, <2>1
<1> HIDE DEF S
<1>3. \A n \in Nat : n \in S
  BY <1>1, <1>2, Induction
<1>4. PICK n \in Nat : \A e \in x : e <= n
  BY DEF Polys
<1>5. n + 1 \in S /\ \A e \in x : e < n + 1
  BY <1>3, <1>4, PolysFinite
<1> QED BY <1>5 DEF S

\* A multiple of POLY that is not 0 does not have a lower degree ...
LEMMA Multiples ==
  ASSUME NEW q \in Polys, q # {}
  PROVE  \E e \in polymult(q, POLY) : e \in Nat /\ e = Degree(q) + xshift
<1>1. Degree(q) \in Nat
  BY Degrees, PolysFinite
<1> QED BY <1>1, ProductDegree, Width DEF xshift

\* ... and so there is one remainder.
LEMMA OneRemainder ==
  ASSUME NEW a \in Residues, NEW b \in Residues, Congruent(a, b)
  PROVE  a = b
<1>1. PICK q \in Polys : polymult(q, POLY) = a (+) b
  BY DEF Congruent
<1>2. a (+) b \subseteq 0..(xshift - 1)
  BY DEF Residues, (+)
<1>3. q = {}
  <2> SUFFICES ASSUME q # {} PROVE FALSE
    OBVIOUS
  <2>1. Degree(q) \in Nat
    BY Degrees, PolysFinite
  <2>2. Degree(q) + xshift \in 0..(xshift - 1)
    BY <1>1, <1>2, Multiples
  <2> QED BY <2>1, <2>2, Width
<1>4. a (+) b = {}
  BY <1>1, <1>3, ProductOfNone, Width
<1> QED BY <1>4 DEF (+)

\* It is the one that the definition means.
LEMMA RemainderIs ==
  ASSUME NEW p \in SUBSET (0..(BYTE * window_size - 1)), NEW r \in Residues, Congruent(p, r)
  PROVE  Remainder[p] = r
<1> DEFINE Quotients == SUBSET (0..(BYTE * window_size - xshift))
           Is(s) == \E q \in Quotients : polymult(q, POLY) = p (+) s
<1>1. BYTE * window_size \in Nat /\ xshift \in Nat
  BY Width
<1>2. Is(r)
  <2>1. PICK q \in Polys : polymult(q, POLY) = p (+) r
    BY DEF Congruent
  <2>2. q \in Quotients
    <3>1. CASE q = {}
      BY <3>1
    <3>2. CASE q # {}
      <4>1. Degree(q) \in Nat /\ \A e \in q : e <= Degree(q)
        BY <3>2, Degrees, PolysFinite
      <4>2. Degree(q) + xshift \in p (+) r
        BY <2>1, <3>2, Multiples
      <4>3. Degree(q) + xshift <= BYTE * window_size
        <5>1. Degree(q) + xshift \notin r
          BY <1>1, <4>1 DEF Residues
        <5>2. Degree(q) + xshift \in p
          BY <4>2, <5>1 DEF (+)
        <5> HIDE DEF Quotients, Is
        <5> QED BY <1>1, <4>1, <5>2
      <4>4. \A e \in q : e \in Nat /\ e <= BYTE * window_size - xshift
        BY <1>1, <4>1, <4>3, PolysFinite
      <4> QED BY <1>1, <4>4
    <3> QED BY <3>1, <3>2
  <2> QED BY <2>1, <2>2
<1>3. ASSUME NEW s \in Residues, Is(s) PROVE s = r
  <2>1. Congruent(p, s)
    <3>1. Quotients \subseteq Polys
      <4>1. ASSUME NEW q \in Quotients PROVE \A e \in q : e \in Nat /\ e <= BYTE * window_size
        BY <1>1
      <4> QED BY <1>1, <4>1 DEF Polys
    <3> QED BY <1>3, <3>1 DEF Congruent
  <2> QED BY <2>1, CongruentSym, CongruentTrans, OneRemainder
<1>4. Remainder[p] = CHOOSE s \in Residues : Is(s)
  BY DEF Remainder, Residues
<1> HIDE DEF Is
<1> QED BY <1>2, <1>3, <1>4

(***************************************************************************)
(* polymod.                                                                 *)
(***************************************************************************)
\* The step of the long division at x^i.
Divided(r, i) == IF i \in r THEN r (+) {e + i - xshift : e \in POLY} ELSE r

\* The rests of a division, from the highest bit down.
LEMMA Rests ==
  ASSUME NEW n \in SUBSET Nat
  PROVE  \E rest : /\ rest[2 * WIDTH] = n
                   /\ \A i \in xshift..(2 * WIDTH - 1) : rest[i] = Divided(rest[i + 1], i)
                   /\ polymod(n, POLY) = rest[xshift]
<1> DEFINE top == 2 * WIDTH
           Is(h) == h = [i \in xshift..top |->
                           IF i = top THEN n
                           ELSE LET r == h[i + 1]
                                IN  IF i \in r THEN r (+) {e + i - xshift : e \in POLY} ELSE r]
           G == [j \in 0..((top - xshift) - 1) |->
                   [r \in SUBSET Nat |-> Divided(r, top - 1 - j)]]
<1>1. top \in Nat /\ xshift \in Nat /\ xshift < top /\ top - xshift \in Nat
  BY Width
<1>2. polymod(n, POLY) = (CHOOSE h : Is(h))[xshift]
  BY DEF polymod, xshift
<1>3. \E h : Is(h)
  <2>1. ASSUME NEW j \in 0..((top - xshift) - 1), NEW r \in SUBSET Nat
        PROVE  Divided(r, top - 1 - j) \in SUBSET Nat
    <3>1. POLY \subseteq Nat /\ top - 1 - j \in Nat /\ top - 1 - j >= xshift
      BY <1>1, Width, PolysFinite
    <3>2. \A e \in POLY : e + (top - 1 - j) - xshift \in Nat
      BY <1>1, <3>1
    <3> QED BY <3>2 DEF Divided, (+)
  <2>2. G \in [0..((top - xshift) - 1) -> [SUBSET Nat -> SUBSET Nat]]
    BY <2>1
  <2> HIDE DEF G
  <2>3. PICK f \in [0..(top - xshift) -> SUBSET Nat] :
          f[0] = n /\ \A j \in 0..((top - xshift) - 1) : f[j + 1] = G[j][f[j]]
    <3> DEFINE V == SUBSET Nat
               N == top - xshift
    <3>1. n \in V /\ N \in Nat /\ G \in [0..(N - 1) -> [V -> V]]
      BY <1>1, <2>2
    <3> HIDE DEF V, N
    <3>2. \E f : Follows(f, N, V, n, G)
      BY <3>1, Recursion, Zenon
    <3> QED BY <3>2 DEF V, N, Follows
  <2> DEFINE h == [i \in xshift..top |-> f[top - i]]
  <2>4. ASSUME NEW i \in xshift..top
        PROVE  h[i] = IF i = top THEN n ELSE Divided(h[i + 1], i)
    <3>1. CASE i = top
      BY <1>1, <2>3, <3>1
    <3>2. CASE i # top
      <4> DEFINE j == top - (i + 1)
      <4>1. /\ j \in 0..((top - xshift) - 1) /\ j + 1 = top - i /\ i + 1 \in xshift..top
            /\ top - 1 - j = i /\ j \in 0..(top - xshift)
        BY <1>1, <3>2
      <4>2. h[i] = f[j + 1] /\ h[i + 1] = f[j]
        BY <4>1
      <4>3. f[j + 1] = G[j][f[j]] /\ f[j] \in SUBSET Nat
        BY <2>3, <4>1
      <4>4. G[j][f[j]] = Divided(f[j], i)
        BY <4>1, <4>3 DEF G
      <4> HIDE DEF h, j
      <4> QED BY <3>2, <4>2, <4>3, <4>4
    <3> QED BY <3>1, <3>2
  <2>5. Is(h)
    <3>1. h = [i \in xshift..top |-> h[i]]
      OBVIOUS
    <3> HIDE DEF h
    <3> QED BY <2>4, <3>1, Zenon DEF Divided
  <2> QED BY <2>5
<1> DEFINE rest == CHOOSE h : Is(h)
<1>4. Is(rest)
  BY <1>3
<1> HIDE DEF rest
<1>5. rest[top] = n
  BY <1>1, <1>4
<1>6. ASSUME NEW i \in xshift..(top - 1)
      PROVE  rest[i] = Divided(rest[i + 1], i)
  <2>1. i \in xshift..top /\ i # top
    BY <1>1
  <2> QED BY <1>4, <2>1 DEF Divided
<1>7. polymod(n, POLY) = rest[xshift]
  BY <1>2 DEF rest
<1> QED BY <1>5, <1>6, <1>7

\* A step removes the term that it is about and adds a multiple of POLY.
LEMMA DivisionStep ==
  ASSUME NEW r \in Polys, NEW i \in Nat, i >= xshift, \A e \in r : e <= i
  PROVE  /\ Divided(r, i) \in Polys /\ \A e \in Divided(r, i) : e < i
         /\ Congruent(Divided(r, i), r)
<1>1. r \subseteq Nat /\ POLY \subseteq Nat /\ xshift \in Nat
  BY PolysFinite, Width
<1>2. CASE i \notin r
  <2>1. \A e \in r : e < i
    BY <1>1, <1>2
  <2> QED BY <1>2, <2>1, CongruentRefl DEF Divided
<1>3. CASE i \in r
  <2> DEFINE t == Times(POLY, i - xshift)
  <2>1. i - xshift \in Nat
    BY <1>1
  <2>2. {e + i - xshift : e \in POLY} = t
    <3>1. \A e \in POLY : e + i - xshift = e + (i - xshift)
      BY <1>1
    <3> QED BY <3>1, Zenon DEF Times
  <2>3. t \in Polys /\ polymult({i - xshift}, POLY) = t
    BY <2>1, TimesType, ProductOfTerm, Width
  <2>4. i \in t /\ \A e \in t : e <= i
    <3>1. xshift + (i - xshift) = i /\ \A e \in POLY : e + (i - xshift) <= i
      BY <1>1, Width
    <3> QED BY <3>1, Width DEF Times
  <2> HIDE DEF t
  <2>5. Divided(r, i) = r (+) t
    BY <1>3, <2>2 DEF Divided
  <2>6. r (+) t \in Polys
    BY <2>3, SumsArePolys
  <2>7. \A e \in r (+) t : e < i
    <3>1. r (+) t \subseteq Nat
      BY <2>6, PolysFinite
    <3>2. \A e \in r (+) t : e <= i /\ e # i
      BY <1>3, <2>4 DEF (+)
    <3> QED BY <3>1, <3>2
  <2>8. Congruent(r (+) t, r)
    <3>1. (r (+) t) (+) r = t
      BY DEF (+)
    <3>2. {i - xshift} \in Polys
      BY <2>1 DEF Polys
    <3> QED BY <2>3, <3>1, <3>2 DEF Congruent
  <2> QED BY <2>5, <2>6, <2>7, <2>8
<1> QED BY <1>2, <1>3

\* polymod returns the remainder of a double word.
LEMMA PolymodReduces ==
  ASSUME NEW n \in SUBSET (0..(2 * WIDTH - 1))
  PROVE  polymod(n, POLY) \in Residues /\ Congruent(polymod(n, POLY), n)
<1> DEFINE top == 2 * WIDTH
<1>1. top \in Nat /\ xshift \in Nat /\ xshift < top /\ n \in SUBSET Nat
  BY Width
<1>2. PICK rest : /\ rest[top] = n
                  /\ \A i \in xshift..(top - 1) : rest[i] = Divided(rest[i + 1], i)
                  /\ polymod(n, POLY) = rest[xshift]
  BY <1>1, Rests
<1> DEFINE Good(i) == /\ rest[i] \in Polys /\ \A e \in rest[i] : e < i
                      /\ Congruent(rest[i], n)
           S == {j \in 0..(top - xshift) : Good(top - j)}
<1>3. 0 \in S
  <2>1. \A e \in n : e \in Nat /\ e < top
    BY <1>1
  <2>2. n \in Polys
    <3>1. \A e \in n : e <= top
      BY <1>1, <2>1
    <3> HIDE DEF top
    <3> QED BY <1>1, <3>1 DEF Polys
  <2>3. top - 0 = top /\ 0 \in 0..(top - xshift)
    BY <1>1
  <2> QED BY <1>2, <2>1, <2>2, <2>3, CongruentRefl
<1>4. ASSUME NEW j \in 0..((top - xshift) - 1), j \in S PROVE j + 1 \in S
  <2> DEFINE i == top - (j + 1)
  <2>1. i \in xshift..(top - 1) /\ i + 1 = top - j /\ j + 1 \in 0..(top - xshift) /\ i \in Nat
    BY <1>1
  <2> HIDE DEF i
  <2>2. Good(i + 1)
    BY <1>4, <2>1
  <2>3. \A e \in rest[i + 1] : e <= i
    <3>1. rest[i + 1] \subseteq Nat
      BY <2>2, PolysFinite
    <3> QED BY <2>1, <2>2, <3>1
  <2>4. rest[i] = Divided(rest[i + 1], i)
    BY <1>2, <2>1
  <2>5. i >= xshift
    BY <1>1, <2>1
  <2>6. Good(i)
    BY <2>1, <2>2, <2>3, <2>4, <2>5, DivisionStep, CongruentTrans
  <2> QED BY <2>1, <2>6 DEF i
<1> HIDE DEF S
<1>5. top - xshift \in S
  <2>1. \A j \in 0..(top - xshift) : j \in S
    BY <1>1, <1>3, <1>4, InductionTo
  <2> QED BY <1>1, <2>1
<1>6. Good(xshift)
  <2>1. top - (top - xshift) = xshift
    BY <1>1
  <2> QED BY <1>5, <2>1 DEF S
<1>7. rest[xshift] \subseteq 0..(xshift - 1)
  BY <1>1, <1>6, PolysFinite
<1> QED BY <1>2, <1>6, <1>7 DEF Residues

(***************************************************************************)
(* The tables.                                                              *)
(***************************************************************************)
\* A product by a term on the right.
LEMMA ProductByTerm ==
  ASSUME NEW x \in Polys, NEW j \in Nat
  PROVE  polymult(x, {j}) = Times(x, j)
<1>1. {j} \in Polys /\ x \subseteq Nat
  BY PolysFinite DEF Polys
<1>2. ASSUME NEW e \in Nat PROVE Odd(Pairs(x, {j}, e)) <=> e \in Times(x, j)
  <2>1. CASE e - j \in x
    <3>1. Pairs(x, {j}, e) = {e - j}
      <4>1. \A i \in x : e - i = j <=> i = e - j
        BY <1>1
      <4> QED BY <2>1, <4>1 DEF Pairs
    <3>2. Cardinality({e - j}) = 1
      BY FS_Singleton
    <3>3. Cardinality({e - j}) % 2 = 1
      BY <3>2
    <3>4. e >= j
      BY <1>1, <2>1
    <3> QED BY <2>1, <3>1, <3>3, <3>4, InTimes DEF Odd
  <2>2. CASE e - j \notin x
    <3>1. Pairs(x, {j}, e) = {}
      <4>1. \A i \in x : e - i = j => i = e - j
        BY <1>1
      <4> QED BY <2>2, <4>1 DEF Pairs
    <3>2. Cardinality({}) % 2 # 1
      BY FS_EmptySet
    <3> QED BY <2>2, <3>1, <3>2, InTimes DEF Odd
  <2> QED BY <2>1, <2>2
<1>3. \A e \in Nat : e \in polymult(x, {j}) <=> Odd(Pairs(x, {j}, e))
  BY <1>1, Product, Zenon
<1>4. polymult(x, {j}) \subseteq Nat /\ Times(x, j) \subseteq Nat
  BY <1>1, Product, TimesType, PolysFinite
<1> HIDE DEF polymult
<1> QED BY <1>2, <1>3, <1>4

\* Exponents of a product.
LEMMA ProductBound ==
  ASSUME NEW m \in Nat, NEW n \in Nat, NEW x \in SUBSET (0..m), NEW y \in SUBSET (0..n)
  PROVE  polymult(x, y) \subseteq 0..(m + n)
<1>1. \A i \in x, j \in y : i + j \in 0..(m + n)
  OBVIOUS
<1> QED BY <1>1 DEF polymult

LEMMA TermsArePolys ==
  ASSUME NEW j \in Nat
  PROVE  {j} \in Polys
BY DEF Polys

LEMMA BytesArePolys ==
  ASSUME NEW m \in Bytes
  PROVE  m \in Polys /\ m \subseteq 0..(BYTE - 1)
<1>1. BYTE \in Nat
  BY Width
<1>2. \A e \in m : e \in Nat /\ e <= BYTE
  BY <1>1 DEF Bytes
<1> QED BY <1>1, <1>2 DEF Bytes, Polys

\* A product of a byte and a residue, reduced (polymmult).
LEMMA ByteTimesResidue ==
  ASSUME NEW i \in Bytes, NEW r \in Residues
  PROVE  /\ polymmult(i, r, POLY) \in Residues
         /\ Congruent(polymmult(i, r, POLY), polymult(i, r))
<1>1. xshift \in Nat \ {0} /\ BYTE \in Nat \ {0} /\ WIDTH = xshift + 1 /\ BYTE <= xshift
  BY Width
<1>2. i \in SUBSET (0..(BYTE - 1)) /\ r \in SUBSET (0..(xshift - 1))
  BY DEF Bytes, Residues
<1>3. polymult(i, r) \subseteq 0..((BYTE - 1) + (xshift - 1))
  <2>1. BYTE - 1 \in Nat /\ xshift - 1 \in Nat
    BY <1>1
  <2> QED BY <1>2, <2>1, ProductBound
<1>4. polymult(i, r) \subseteq 0..(2 * WIDTH - 1)
  <2>1. \A e \in 0..((BYTE - 1) + (xshift - 1)) : e \in 0..(2 * WIDTH - 1)
    BY <1>1
  <2> QED BY <1>3, <2>1
<1> QED BY <1>4, PolymodReduces DEF polymmult

\* T[i] removes bit xshift, where i has it, and replaces what i stands for above it by
\* its remainder.
LEMMA TableT ==
  ASSUME NEW i \in Bytes
  PROVE  \E r \in Residues : /\ T[i] = r (+) (IF 0 \in i THEN {xshift} ELSE {})
                             /\ Congruent(r, Times(i, xshift))
<1> DEFINE one == polymod({xshift}, POLY)
           r   == polymmult(i, one, POLY)
<1>1. xshift \in Nat \ {0} /\ WIDTH = xshift + 1
  BY Width
<1>2. {xshift} \in Polys /\ i \in Polys /\ i \subseteq Nat
  <2>1. {xshift} \in Polys
    BY <1>1, TermsArePolys
  <2>2. i \in Polys
    BY BytesArePolys
  <2> QED BY <2>1, <2>2, PolysFinite
<1>3. one \in Residues /\ Congruent(one, {xshift})
  <2>1. {xshift} \in SUBSET (0..(2 * WIDTH - 1))
    BY <1>1
  <2> QED BY <2>1, PolymodReduces
<1> HIDE DEF one
<1>4. r \in Residues /\ Congruent(r, polymult(i, one))
  BY <1>3, ByteTimesResidue
<1>5. Congruent(polymult(i, one), Times(i, xshift))
  <2>1. Congruent(polymult(i, one), polymult(i, {xshift}))
    BY <1>2, <1>3, ResiduesArePolys, CongruentProducts
  <2>2. polymult(i, {xshift}) = Times(i, xshift)
    BY <1>1, <1>2, ProductByTerm
  <2> QED BY <2>1, <2>2
<1>6. Congruent(r, Times(i, xshift))
  BY <1>4, <1>5, CongruentTrans
<1>7. T[i] = r \cup Shl(i, xshift)
  BY DEF T, one
<1>8. Shl(i, xshift) = IF 0 \in i THEN {xshift} ELSE {}
  <2>1. \A e \in i : e + xshift \in 0..(WIDTH - 1) <=> e = 0
    BY <1>1, <1>2
  <2>2. 0 + xshift = xshift
    BY <1>1
  <2>3. \A e \in Shl(i, xshift) : e = xshift /\ 0 \in i
    BY <2>1, <2>2 DEF Shl
  <2>4. 0 \in i => xshift \in Shl(i, xshift)
    BY <2>1, <2>2 DEF Shl
  <2> QED BY <2>3, <2>4
<1> HIDE DEF r
<1>9. xshift \notin r
  BY <1>1, <1>4 DEF Residues
<1>10. T[i] = r (+) (IF 0 \in i THEN {xshift} ELSE {})
  BY <1>7, <1>8, <1>9 DEF (+)
<1> QED BY <1>4, <1>6, <1>10

\* append8 appends a byte modulo POLY, although p << 8 loses the high bits of p.
LEMMA Append8 ==
  ASSUME NEW p \in Residues, NEW m \in Bytes
  PROVE  append8(p, m) \in Residues /\ Congruent(append8(p, m), Times(p, BYTE) (+) m)
<1> DEFINE j    == Shr(p, shift)
           low  == {e \in Times(p, BYTE) : e < xshift} \cup m
           bit  == IF 0 \in j THEN {xshift} ELSE {}
<1>1. /\ xshift \in Nat \ {0} /\ BYTE \in Nat \ {0} /\ BYTE <= xshift /\ WIDTH = xshift + 1
      /\ shift \in Nat /\ shift + BYTE = xshift
  BY Width DEF shift
<1>2. p \in Polys /\ p \subseteq 0..(xshift - 1) /\ m \subseteq 0..(BYTE - 1)
  BY ResiduesArePolys, BytesArePolys DEF Residues
<1>3. j \in Bytes
  <2>1. \A e \in p : e >= shift => e - shift \in 0..(BYTE - 1)
    BY <1>1, <1>2
  <2> QED BY <2>1 DEF Shr, Bytes
<1>4. PICK r \in Residues : T[j] = r (+) bit /\ Congruent(r, Times(j, xshift))
  BY <1>3, TableT
<1>5. \A e \in Nat : e \in Times(p, BYTE) <=> e >= BYTE /\ e - BYTE \in p
  BY <1>1, <1>2, InTimes
<1>6. Times(p, BYTE) \subseteq Nat
  BY <1>1, <1>2, TimesType, PolysFinite
<1>7. Shl(p, BYTE) = {e \in Times(p, BYTE) : e < xshift} \cup bit
  <2>1. Shl(p, BYTE) = Times(p, BYTE) \cap (0..xshift)
    BY <1>1 DEF Shl, Times
  <2>2. xshift \in Times(p, BYTE) <=> 0 \in j
    <3>1. xshift \in Times(p, BYTE) <=> shift \in p
      <4>1. xshift - BYTE = shift /\ xshift >= BYTE /\ xshift \in Nat
        BY <1>1
      <4> QED BY <1>5, <4>1
    <3>2. 0 \in j <=> shift \in p
      <4>1. \A e \in p : e >= shift => (0 = e - shift <=> e = shift)
        BY <1>1, <1>2
      <4>2. shift >= shift
        BY <1>1
      <4> QED BY <4>1, <4>2 DEF Shr
    <3> QED BY <3>1, <3>2
  <2> HIDE DEF j
  <2>3. \A e \in Times(p, BYTE) : e \in 0..xshift <=> e < xshift \/ e = xshift
    BY <1>1, <1>6
  <2> QED BY <2>1, <2>2, <2>3
<1> HIDE DEF j
<1>8. append8(p, m) = low (+) r
  <2>1. append8(p, m) = (Shl(p, BYTE) \cup m) (+) T[j]
    BY DEF append8, j
  <2>2. Shl(p, BYTE) \cup m = low (+) bit
    <3>1. xshift \notin low
      BY <1>1, <1>2
    <3> QED BY <1>7, <3>1 DEF (+)
  <2>3. (low (+) bit) (+) (r (+) bit) = low (+) r
    BY DEF (+)
  <2> QED BY <1>4, <2>1, <2>2, <2>3
<1>9. low \in Residues
  <2>1. \A e \in Times(p, BYTE) : e < xshift => e \in 0..(xshift - 1)
    BY <1>1, <1>6
  <2>2. \A e \in m : e \in 0..(xshift - 1)
    BY <1>1, <1>2
  <2> QED BY <2>1, <2>2 DEF Residues
<1>10. Times(p, BYTE) (+) m = low (+) Times(j, xshift)
  <2>1. ASSUME NEW e \in Nat
        PROVE  e \in Times(j, xshift) <=> e \in Times(p, BYTE) /\ e >= xshift
    <3>1. e \in Times(j, xshift) <=> e >= xshift /\ e - xshift \in j
      BY <1>1, <1>3, BytesArePolys, InTimes
    <3>2. e >= xshift => (e - xshift \in j <=> e - BYTE \in p)
      <4> SUFFICES ASSUME e >= xshift PROVE e - xshift \in j <=> e - BYTE \in p
        OBVIOUS
      <4>1. \A f \in p : f >= shift => (e - xshift = f - shift <=> f = e - BYTE)
        BY <1>1, <1>2
      <4>2. e - BYTE >= shift
        BY <1>1
      <4> QED BY <4>1, <4>2 DEF j, Shr
    <3>3. e >= xshift => e >= BYTE
      BY <1>1
    <3> QED BY <1>5, <3>1, <3>2, <3>3
  <2>2. Times(j, xshift) \subseteq Nat
    BY <1>1, <1>3, BytesArePolys, TimesType, PolysFinite
  <2>3. \A e \in Times(p, BYTE) : e >= BYTE /\ (e >= xshift <=> ~(e < xshift)) /\ e \in Nat
    BY <1>1, <1>5, <1>6
  <2>4. \A e \in m : e \notin Times(p, BYTE) /\ e \in Nat
    BY <1>1, <1>2, <1>5
  <2>5. \A e \in Nat : e \in low <=> (e \in Times(p, BYTE) /\ e < xshift) \/ e \in m
    OBVIOUS
  <2>6. low \subseteq Nat
    BY <1>6, <2>4
  <2> HIDE DEF low
  <2>7. \A e \in Nat : e \in Times(p, BYTE) (+) m <=> e \in low (+) Times(j, xshift)
    BY <2>1, <2>3, <2>4, <2>5 DEF (+)
  <2>8. Times(p, BYTE) (+) m \subseteq Nat /\ low (+) Times(j, xshift) \subseteq Nat
    BY <1>6, <2>2, <2>4, <2>6 DEF (+)
  <2> QED BY <2>7, <2>8
<1> HIDE DEF low
<1>11. low (+) r \in Residues
  BY <1>4, <1>9 DEF Residues, (+)
<1>12. Congruent(low (+) r, low (+) Times(j, xshift))
  BY <1>4, CongruentRefl, CongruentSums
<1> QED BY <1>8, <1>10, <1>11, <1>12

\* U[i] is what the byte i contributes from the front of the window.
LEMMA TableU ==
  ASSUME NEW i \in Bytes
  PROVE  U[i] \in Residues /\ Congruent(U[i], Times(i, BYTE * (window_size - 1)))
<1> DEFINE Is(h) == h = [n \in 1..window_size |->
                           IF n = 1 THEN {0} ELSE append8(h[n - 1], {})]
           N == window_size - 1
           G == [n \in 0..(N - 1) |-> [p \in Residues |-> append8(p, {})]]
<1>1. /\ window_size \in Nat \ {0} /\ BYTE \in Nat \ {0} /\ xshift \in Nat \ {0} /\ N \in Nat
      /\ {} \in Bytes /\ {0} \in Residues
  <2>1. /\ window_size \in Nat \ {0} /\ BYTE \in Nat \ {0} /\ xshift \in Nat \ {0}
        /\ {} \in Bytes
    BY Width DEF Bytes
  <2>2. {0} \in Residues
    BY <2>1 DEF Residues
  <2> QED BY <2>1, <2>2
<1>2. U[i] = polymmult(i, (CHOOSE h : Is(h))[window_size], POLY)
  BY DEF U
<1>3. \E h : Is(h)
  <2>1. G \in [0..(N - 1) -> [Residues -> Residues]]
    BY <1>1, Append8
  <2> HIDE DEF G, N
  <2>2. PICK f : Follows(f, N, Residues, {0}, G)
    BY <1>1, <2>1, Recursion, Zenon
  <2> DEFINE h == [n \in 1..window_size |-> f[n - 1]]
  <2>3. ASSUME NEW n \in 1..window_size
        PROVE  h[n] = IF n = 1 THEN {0} ELSE append8(h[n - 1], {})
    <3>1. CASE n = 1
      BY <2>2, <3>1 DEF Follows
    <3>2. CASE n # 1
      <4>1. /\ n - 2 \in 0..(N - 1) /\ (n - 2) + 1 = n - 1 /\ (n - 1) - 1 = n - 2
            /\ n - 1 \in 1..window_size /\ n - 2 \in 0..N
        BY <1>1, <3>2 DEF N
      <4>2. f[n - 1] = G[n - 2][f[n - 2]] /\ f[n - 2] \in Residues
        <5>1. f[(n - 2) + 1] = G[n - 2][f[n - 2]]
          BY <2>2, <4>1, Zenon DEF Follows
        <5>2. f[n - 2] \in Residues
          BY <2>2, <4>1 DEF Follows
        <5> QED BY <4>1, <5>1, <5>2
      <4>3. G[n - 2][f[n - 2]] = append8(f[n - 2], {})
        BY <4>1, <4>2 DEF G
      <4>4. h[n] = f[n - 1] /\ h[n - 1] = f[n - 2]
        BY <4>1
      <4> HIDE DEF h
      <4> QED BY <3>2, <4>2, <4>3, <4>4
    <3> QED BY <3>1, <3>2
  <2>4. h = [n \in 1..window_size |-> h[n]]
    OBVIOUS
  <2> HIDE DEF h
  <2>5. Is(h)
    BY <2>3, <2>4, Zenon
  <2> QED BY <2>5
<1> DEFINE sizeshift == CHOOSE h : Is(h)
<1>4. Is(sizeshift)
  BY <1>3
<1> HIDE DEF sizeshift
<1> DEFINE Good(n) == sizeshift[n] \in Residues /\ Congruent(sizeshift[n], {BYTE * (n - 1)})
           S == {n \in 0..N : Good(n + 1)}
<1>5. 0 \in S
  <2>1. sizeshift[1] = {0}
    BY <1>1, <1>4
  <2>2. BYTE * (1 - 1) = 0 /\ 0 + 1 = 1 /\ 0 \in 0..N
    BY <1>1
  <2>3. Good(1)
    BY <1>1, <2>1, <2>2, CongruentRefl
  <2> QED BY <2>2, <2>3
<1>6. ASSUME NEW n \in 0..(N - 1), n \in S PROVE n + 1 \in S
  <2>1. sizeshift[n + 2] = append8(sizeshift[n + 1], {})
    <3>1. n + 2 \in 1..window_size /\ n + 2 # 1 /\ (n + 2) - 1 = n + 1
      BY <1>1
    <3> QED BY <1>4, <3>1
  <2>2. Good(n + 1)
    BY <1>6
  <2>3. n \in Nat /\ (n + 1) - 1 = n /\ BYTE * n \in Nat
    BY <1>1
  <2>4. /\ append8(sizeshift[n + 1], {}) \in Residues
        /\ Congruent(append8(sizeshift[n + 1], {}), Times(sizeshift[n + 1], BYTE) (+) {})
    BY <1>1, <2>2, Append8
  <2>5. Congruent(Times(sizeshift[n + 1], BYTE), Times({BYTE * n}, BYTE))
    <3>1. {BYTE * n} \in Polys /\ sizeshift[n + 1] \in Polys
      BY <2>2, <2>3, TermsArePolys, ResiduesArePolys
    <3>2. Congruent(sizeshift[n + 1], {BYTE * n})
      BY <2>2, <2>3
    <3> QED BY <1>1, <3>1, <3>2, CongruentTimes
  <2>6. Times({BYTE * n}, BYTE) = {BYTE * ((n + 2) - 1)}
    <3>1. BYTE * n + BYTE = BYTE * ((n + 2) - 1)
      BY <1>1, <2>3
    <3> QED BY <3>1 DEF Times
  <2>7. Times(sizeshift[n + 1], BYTE) (+) {} = Times(sizeshift[n + 1], BYTE)
    BY DEF (+)
  <2>8. Congruent(append8(sizeshift[n + 1], {}), {BYTE * ((n + 2) - 1)})
    BY <2>4, <2>5, <2>6, <2>7, CongruentTrans
  <2>9. Good(n + 2)
    BY <2>1, <2>4, <2>8
  <2>10. (n + 1) + 1 = n + 2 /\ n + 1 \in 0..N
    BY <1>1, <2>3
  <2> HIDE DEF Good
  <2> QED BY <2>9, <2>10
<1> HIDE DEF S
<1>7. N \in S
  <2>1. \A n \in 0..N : n \in S
    <3> HIDE DEF N
    <3> QED BY <1>1, <1>5, <1>6, InductionTo
  <2> QED BY <1>1, <2>1
<1>8. Good(window_size)
  <2>1. N + 1 = window_size
    BY <1>1
  <2> QED BY <1>7, <2>1 DEF S
<1> DEFINE r == sizeshift[window_size]
           far == BYTE * (window_size - 1)
<1>9. far \in Nat
  BY <1>1
<1>10. U[i] = polymmult(i, r, POLY)
  BY <1>2 DEF sizeshift
<1> HIDE DEF r, far
<1>11. r \in Residues /\ Congruent(r, {far})
  BY <1>8 DEF r, far
<1>12. U[i] \in Residues /\ Congruent(U[i], polymult(i, r))
  BY <1>10, <1>11, ByteTimesResidue
<1>13. Congruent(polymult(i, r), Times(i, far))
  <2>1. {far} \in Polys /\ i \in Polys /\ r \in Polys
    BY <1>9, <1>11, TermsArePolys, BytesArePolys, ResiduesArePolys
  <2>2. Congruent(polymult(i, r), polymult(i, {far}))
    BY <1>11, <2>1, CongruentProducts
  <2> QED BY <1>9, <2>1, <2>2, ProductByTerm
<1> QED BY <1>12, <1>13, CongruentTrans DEF far

(***************************************************************************)
(* The window.                                                              *)
(***************************************************************************)
\* The last w of the first n bytes of s.
Window(s, n, w) ==
  UNION {{BYTE * (n - i) + e : e \in s[i]} : i \in {j \in 1..n : j > n - w}}

LEMMA InWindow ==
  ASSUME NEW s, NEW n, NEW w, NEW x
  PROVE  x \in Window(s, n, w) <=>
           \E i \in 1..n : i > n - w /\ \E e \in s[i] : x = BYTE * (n - i) + e
BY DEF Window

\* Multiples of the width of a byte, and what is between two of them.
LEMMA ByteMultiples ==
  ASSUME NEW k \in Nat, NEW w \in Nat, k < w, NEW e \in 0..(BYTE - 1)
  PROVE  /\ BYTE * k + e \in 0..(BYTE * w - 1) /\ BYTE * k \in Nat /\ BYTE * w \in Nat
         /\ BYTE * (k + 1) = BYTE * k + BYTE
<1>1. BYTE \in Nat \ {0}
  BY Width
<1>2. PICK d \in Nat : w = (k + 1) + d
  <2>1. w - (k + 1) \in Nat /\ w = (k + 1) + (w - (k + 1))
    OBVIOUS
  <2> QED BY <2>1
<1>3. BYTE * w = BYTE * k + BYTE + BYTE * d
  BY <1>1, <1>2
<1>4. BYTE * k \in Nat /\ BYTE * d \in Nat /\ BYTE * (k + 1) = BYTE * k + BYTE
  BY <1>1
<1> QED BY <1>1, <1>3, <1>4

LEMMA WindowBound ==
  ASSUME NEW s \in Seq(Bytes), NEW n \in 0..Len(s), NEW w \in Nat
  PROVE  Window(s, n, w) \subseteq 0..(BYTE * w - 1)
<1> SUFFICES ASSUME NEW x \in Window(s, n, w) PROVE x \in 0..(BYTE * w - 1)
  OBVIOUS
<1>1. PICK i \in 1..n : i > n - w /\ \E e \in s[i] : x = BYTE * (n - i) + e
  BY InWindow
<1>2. PICK e \in s[i] : x = BYTE * (n - i) + e
  BY <1>1
<1>3. n - i \in Nat /\ n - i < w
  BY <1>1
<1>4. e \in 0..(BYTE - 1)
  <2>1. s[i] \in Bytes
    OBVIOUS
  <2> QED BY <1>2, <2>1, BytesArePolys
<1> QED BY <1>2, <1>3, <1>4, ByteMultiples

\* Sums of what has no exponent in common.
LEMMA SumOfDisjoint ==
  ASSUME NEW a, NEW b, a \cap b = {}
  PROVE  a \cup b = a (+) b /\ (a \cup b) (+) b = a
BY DEF (+)

\* The oldest byte of a window.
LEMMA WindowOldest ==
  ASSUME NEW s \in Seq(Bytes), NEW n \in 0..Len(s), NEW w \in Nat,
         NEW old \in Bytes, old = IF w < n THEN s[n - w] ELSE {}
  PROVE  Window(s, n, w + 1) (+) Times(old, BYTE * w) = Window(s, n, w)
<1>1. BYTE \in Nat \ {0} /\ BYTE * w \in Nat
  BY Width
<1>2. Window(s, n, w + 1) = Window(s, n, w) \cup Times(old, BYTE * w)
  <2>1. ASSUME NEW x \in Window(s, n, w + 1)
        PROVE  x \in Window(s, n, w) \/ x \in Times(old, BYTE * w)
    <3>1. PICK i \in 1..n : i > n - (w + 1) /\ \E e \in s[i] : x = BYTE * (n - i) + e
      BY DEF Window
    <3>2. CASE i > n - w
      BY <3>1, <3>2, InWindow, Zenon
    <3>3. CASE ~(i > n - w)
      <4>1. i = n - w /\ w < n /\ n - i = w
        BY <3>1, <3>3
      <4>2. PICK e \in old : x = BYTE * w + e
        BY <3>1, <4>1
      <4>3. e \in Nat
        BY <4>2, BytesArePolys, PolysFinite
      <4>4. x = e + BYTE * w
        BY <1>1, <4>2, <4>3
      <4> QED BY <4>2, <4>4 DEF Times
    <3> QED BY <3>2, <3>3
  <2>2. ASSUME NEW x \in Window(s, n, w) PROVE x \in Window(s, n, w + 1)
    <3>1. PICK i \in 1..n : i > n - w /\ \E e \in s[i] : x = BYTE * (n - i) + e
      BY InWindow
    <3>2. i > n - (w + 1)
      BY <3>1
    <3> QED BY <3>1, <3>2, InWindow, Zenon
  <2>3. ASSUME NEW x \in Times(old, BYTE * w) PROVE x \in Window(s, n, w + 1)
    <3>1. PICK e \in old : x = e + BYTE * w
      BY DEF Times
    <3>2. w < n /\ old = s[n - w]
      BY <3>1
    <3> DEFINE i == n - w
    <3>3. i \in 1..n /\ i > n - (w + 1) /\ n - i = w
      BY <3>2
    <3>4. e \in Nat
      BY <3>1, BytesArePolys, PolysFinite
    <3>5. e \in s[i] /\ x = BYTE * (n - i) + e
      BY <1>1, <3>1, <3>2, <3>3, <3>4
    <3> HIDE DEF i
    <3> QED BY <3>3, <3>5, InWindow, Zenon
  <2> QED BY <2>1, <2>2, <2>3
<1>3. Window(s, n, w) \cap Times(old, BYTE * w) = {}
  <2>1. ASSUME NEW x \in Window(s, n, w), x \in Times(old, BYTE * w) PROVE FALSE
    <3>1. x \in 0..(BYTE * w - 1)
      BY WindowBound
    <3>2. PICK e \in old : x = e + BYTE * w
      BY <2>1 DEF Times
    <3>3. e \in Nat
      BY <3>2, BytesArePolys, PolysFinite
    <3> QED BY <1>1, <3>1, <3>2, <3>3
  <2> QED BY <2>1
<1> QED BY <1>2, <1>3, SumOfDisjoint, Zenon

\* A byte more.
LEMMA WindowNext ==
  ASSUME NEW s \in Seq(Bytes), NEW m \in Bytes, NEW w \in Nat
  PROVE  Window(Append(s, m), Len(s) + 1, w + 1) = Times(Window(s, Len(s), w), BYTE) (+) m
<1> DEFINE n == Len(s)
           t == Append(s, m)
<1>1. BYTE \in Nat \ {0} /\ n \in Nat
  BY Width
<1>2. t[n + 1] = m /\ \A i \in 1..n : t[i] = s[i]
  OBVIOUS
<1> HIDE DEF n, t
<1>3. \A e \in m : e \in 0..(BYTE - 1)
  BY BytesArePolys
<1>4. Window(s, n, w) \subseteq Nat
  <2>1. n \in 0..Len(s) /\ BYTE * w \in Int
    BY <1>1 DEF n
  <2>2. 0..(BYTE * w - 1) \subseteq Nat
    BY <2>1
  <2> QED BY <2>1, <2>2, WindowBound
<1>5. ASSUME NEW i \in 1..n, NEW e \in s[i]
      PROVE  BYTE * ((n + 1) - i) + e = (BYTE * (n - i) + e) + BYTE
  <2>1. e \in Nat /\ n - i \in Nat /\ (n + 1) - i = (n - i) + 1
    <3>1. s[i] \in Bytes
      BY DEF n
    <3> QED BY <1>1, <1>5, <3>1, BytesArePolys, PolysFinite
  <2>2. BYTE * ((n - i) + 1) = BYTE * (n - i) + BYTE /\ BYTE * (n - i) \in Nat
    BY <1>1, <2>1
  <2> QED BY <1>1, <2>1, <2>2
<1>6. Window(t, n + 1, w + 1) = Times(Window(s, n, w), BYTE) \cup m
  <2>1. ASSUME NEW x \in Window(t, n + 1, w + 1)
        PROVE  x \in Times(Window(s, n, w), BYTE) \/ x \in m
    <3>1. PICK i \in 1..(n + 1) : /\ i > (n + 1) - (w + 1)
                                  /\ \E e \in t[i] : x = BYTE * ((n + 1) - i) + e
      BY InWindow
    <3>2. PICK e \in t[i] : x = BYTE * ((n + 1) - i) + e
      BY <3>1
    <3>3. CASE i = n + 1
      <4>1. e \in m /\ (n + 1) - i = 0
        BY <1>1, <1>2, <3>2, <3>3
      <4>2. x = e
        BY <1>1, <1>3, <3>2, <4>1
      <4> QED BY <4>1, <4>2
    <3>4. CASE i # n + 1
      <4>1. i \in 1..n /\ i > n - w
        BY <1>1, <3>1, <3>4
      <4>2. e \in s[i]
        BY <1>2, <3>2, <4>1
      <4>3. BYTE * (n - i) + e \in Window(s, n, w)
        BY <4>1, <4>2, InWindow, Zenon
      <4>4. x = (BYTE * (n - i) + e) + BYTE
        BY <1>5, <3>2, <4>1, <4>2, Zenon
      <4> QED BY <4>3, <4>4, Zenon DEF Times
    <3> QED BY <3>3, <3>4
  <2>2. ASSUME NEW x \in m PROVE x \in Window(t, n + 1, w + 1)
    <3> DEFINE i == n + 1
    <3>1. i \in 1..(n + 1) /\ i > (n + 1) - (w + 1) /\ x \in t[i] /\ (n + 1) - i = 0
      BY <1>1, <1>2
    <3>2. x = BYTE * ((n + 1) - i) + x
      BY <1>1, <1>3, <3>1
    <3> HIDE DEF i
    <3>3. \E e \in t[i] : x = BYTE * ((n + 1) - i) + e
      BY <3>1, <3>2
    <3> QED BY <3>1, <3>3, InWindow
  <2>3. ASSUME NEW x \in Times(Window(s, n, w), BYTE) PROVE x \in Window(t, n + 1, w + 1)
    <3>1. PICK y \in Window(s, n, w) : x = y + BYTE
      BY DEF Times
    <3>2. PICK i \in 1..n : i > n - w /\ \E e \in s[i] : y = BYTE * (n - i) + e
      BY InWindow
    <3>3. PICK e \in s[i] : y = BYTE * (n - i) + e
      BY <3>2
    <3>4. i \in 1..(n + 1) /\ i > (n + 1) - (w + 1) /\ e \in t[i]
      BY <1>1, <1>2, <3>2, <3>3
    <3>5. x = BYTE * ((n + 1) - i) + e
      BY <1>5, <3>1, <3>3, Zenon
    <3> QED BY <3>4, <3>5, InWindow, Zenon
  <2> QED BY <2>1, <2>2, <2>3
<1>7. Times(Window(s, n, w), BYTE) \cap m = {}
  <2>1. \A y \in Window(s, n, w) : y + BYTE \notin m
    BY <1>1, <1>3, <1>4
  <2> QED BY <2>1 DEF Times
<1>8. Window(t, n + 1, w + 1) = Times(Window(s, n, w), BYTE) (+) m
  BY <1>6, <1>7, SumOfDisjoint, Zenon
<1> QED BY <1>8 DEF n, t

(***************************************************************************)
(* The circular buffer.                                                     *)
(***************************************************************************)
\* The byte j before the last one read, and where the buffer has it.
Newest(j) == IF j < Len(stream) THEN stream[Len(stream) - j] ELSE {}
Slot(j) == IF j <= bufpos THEN bufpos - j ELSE bufpos - j + window_size

\* The buffer holds the last window_size bytes, and zeroes where there are fewer.
Ring ==
  /\ buf \in [0..(window_size - 1) -> Bytes]
  /\ IF Len(stream) = 0
     THEN bufpos = UINT_MAX /\ \A i \in 0..(window_size - 1) : buf[i] = {}
     ELSE /\ bufpos \in 0..(window_size - 1)
          /\ \A j \in 0..(window_size - 1) : buf[Slot(j)] = Newest(j)

\* The fingerprint stands for the window, modulo POLY.
Fingerprinted ==
  fingerprint \in Residues /\ Congruent(fingerprint, WindowAt(Len(stream)))

LEMMA Limits ==
  /\ window_size \in Nat \ {0} /\ UINT_MAX \in Nat /\ window_size <= UINT_MAX
  /\ {} \in Bytes
BY RabinAssumption DEF Bytes

\* The slot that a byte goes to is the one of the oldest byte.
LEMMA NextSlot ==
  ASSUME Ring, stream \in Seq(Bytes)
  PROVE  /\ NextPos \in 0..(window_size - 1)
         /\ NextPos = IF Len(stream) = 0 \/ bufpos = window_size - 1 THEN 0 ELSE bufpos + 1
         /\ buf[NextPos] = Newest(window_size - 1)
<1>1. Len(stream) \in Nat
  OBVIOUS
<1>2. CASE Len(stream) = 0
  <2>1. (UINT_MAX + 1) % (UINT_MAX + 1) = 0
    BY Limits
  <2>2. NextPos = 0
    BY <1>2, <2>1, Limits DEF Ring, NextPos
  <2> QED BY <1>2, <2>2, Limits DEF Ring, Newest
<1>3. CASE Len(stream) # 0
  <2>1. bufpos \in 0..(window_size - 1)
    BY <1>3 DEF Ring
  <2>2. (bufpos + 1) % (UINT_MAX + 1) = bufpos + 1
    BY <2>1, Limits
  <2>3. NextPos = IF bufpos = window_size - 1 THEN 0 ELSE bufpos + 1
    BY <2>1, <2>2, Limits DEF NextPos
  <2>4. Slot(window_size - 1) = NextPos
    BY <2>1, <2>3, Limits DEF Slot
  <2>5. window_size - 1 \in 0..(window_size - 1)
    BY Limits
  <2>6. buf[Slot(window_size - 1)] = Newest(window_size - 1)
    BY <1>3, <2>5 DEF Ring
  <2> QED BY <1>3, <2>1, <2>3, <2>4, <2>6, Limits
<1> QED BY <1>2, <1>3

\* slide8 keeps the buffer.
LEMMA RingKept ==
  ASSUME NEW m \in Bytes, slide8(m), Ring, stream \in Seq(Bytes)
  PROVE  Ring'
<1>1. Len(stream) \in Nat /\ Len(stream') = Len(stream) + 1
  BY Longer
<1>2. stream'[Len(stream) + 1] = m /\ \A i \in 1..Len(stream) : stream'[i] = stream[i]
  BY DEF slide8
<1>3. /\ NextPos \in 0..(window_size - 1)
      /\ NextPos = IF Len(stream) = 0 \/ bufpos = window_size - 1 THEN 0 ELSE bufpos + 1
  BY NextSlot
<1>4. bufpos' = NextPos /\ buf' = [buf EXCEPT ![NextPos] = m]
  BY DEF slide8
<1>5. buf \in [0..(window_size - 1) -> Bytes]
  BY DEF Ring
<1>6. buf' \in [0..(window_size - 1) -> Bytes]
  BY <1>4, <1>5
<1>7. /\ buf'[NextPos] = m
      /\ \A i \in 0..(window_size - 1) : i # NextPos => buf'[i] = buf[i]
  BY <1>3, <1>4, <1>5
<1>8. ASSUME NEW j \in 0..(window_size - 1)
      PROVE  buf'[Slot(j)'] = Newest(j)'
  <2> DEFINE pos == NextPos
             n == Len(stream)
  <2>1. /\ pos \in 0..(window_size - 1) /\ n \in Nat /\ bufpos' = pos
        /\ pos = IF n = 0 \/ bufpos = window_size - 1 THEN 0 ELSE bufpos + 1
        /\ buf'[pos] = m /\ \A i \in 0..(window_size - 1) : i # pos => buf'[i] = buf[i]
    BY <1>1, <1>3, <1>4, <1>7
  <2>2. Newest(j)' = IF j < n + 1 THEN stream'[(n + 1) - j] ELSE {}
    BY <1>1 DEF Newest
  <2>3. Slot(j)' = IF j <= pos THEN pos - j ELSE pos - j + window_size
    BY <2>1 DEF Slot
  <2>4. stream'[n + 1] = m /\ \A i \in 1..n : stream'[i] = stream[i]
    BY <1>2
  <2> HIDE DEF pos, n
  <2>5. CASE j = 0
    <3>1. Slot(j)' = pos /\ (n + 1) - j = n + 1 /\ j < n + 1
      BY <2>1, <2>3, <2>5
    <3> QED BY <2>1, <2>2, <2>4, <3>1
  <2>6. CASE j # 0
    <3>1. Slot(j)' \in 0..(window_size - 1) /\ Slot(j)' # pos
      <4>1. pos \in 0..(window_size - 1) /\ j \in 1..(window_size - 1)
        BY <2>1, <2>6
      <4> QED BY <2>3, <4>1, Limits
    <3>2. buf'[Slot(j)'] = buf[Slot(j)']
      BY <2>1, <3>1
    <3>3. j - 1 \in 0..(window_size - 1) /\ (n + 1) - j = n - (j - 1)
      BY <2>1, <2>6, Limits
    <3>4. Newest(j)' = Newest(j - 1)
      <4>1. j < n + 1 <=> j - 1 < n
        BY <2>1
      <4>2. j - 1 < n => n - (j - 1) \in 1..n
        BY <2>1, <2>6
      <4> QED BY <2>2, <2>4, <3>3, <4>1, <4>2 DEF Newest, n
    <3>5. CASE n = 0
      <4>1. buf[Slot(j)'] = {}
        BY <3>1, <3>5 DEF Ring, n
      <4>2. Newest(j - 1) = {}
        BY <2>6, <3>3, <3>5 DEF Newest, n
      <4> QED BY <3>2, <3>4, <4>1, <4>2
    <3>6. CASE n # 0
      <4>1. bufpos \in 0..(window_size - 1) /\ buf[Slot(j - 1)] = Newest(j - 1)
        BY <3>3, <3>6 DEF Ring, n
      <4>2. Slot(j)' = Slot(j - 1)
        BY <2>1, <2>3, <2>6, <3>6, <4>1, Limits DEF Slot
      <4> QED BY <3>2, <3>4, <4>1, <4>2
    <3> QED BY <3>5, <3>6
  <2> QED BY <2>5, <2>6
<1>9. Len(stream') # 0 /\ bufpos' \in 0..(window_size - 1)
  BY <1>1, <1>3, <1>4
<1>10. \A j \in 0..(window_size - 1) : buf'[Slot(j)'] = Newest(j)'
  BY <1>8
<1> QED BY <1>6, <1>9, <1>10 DEF Ring

\* slide8 takes the oldest byte out of the fingerprint and appends the new one.
LEMMA FingerprintKept ==
  ASSUME NEW m \in Bytes, slide8(m), Ring, Fingerprinted, stream \in Seq(Bytes)
  PROVE  Fingerprinted'
<1> DEFINE n    == Len(stream)
           w    == window_size - 1
           old  == buf[NextPos]
           sum  == fingerprint (+) U[old]
           rest == Window(stream, n, w)
           far  == BYTE * w
<1>1. n \in Nat /\ n \in 0..Len(stream) /\ w \in Nat /\ w + 1 = window_size /\ BYTE \in Nat
  BY Limits, Width
<1>2. stream' = Append(stream, m) /\ Len(stream') = n + 1
  BY Longer DEF slide8
<1>3. old \in Bytes /\ old = IF w < n THEN stream[n - w] ELSE {}
  <2>1. NextPos \in 0..(window_size - 1) /\ old = Newest(window_size - 1)
    BY NextSlot
  <2>2. buf \in [0..(window_size - 1) -> Bytes]
    BY DEF Ring
  <2> QED BY <2>1, <2>2 DEF Newest
<1>4. fingerprint' = append8(sum, m)
  BY DEF slide8
<1>5. WindowAt(n) = Window(stream, n, w + 1)
  BY <1>1, Zenon DEF WindowAt, Window
<1>6. WindowAt(Len(stream))' = Window(stream', Len(stream'), w + 1)
  BY <1>1, Zenon DEF WindowAt, Window
<1>7. WindowAt(Len(stream))' = Window(stream', n + 1, w + 1)
  BY <1>2, <1>6
<1>8. fingerprint \in Residues /\ Congruent(fingerprint, WindowAt(n))
  BY DEF Fingerprinted
<1> HIDE DEF n, w, old
<1>9. U[old] \in Residues /\ Congruent(U[old], Times(old, far))
  BY <1>3, TableU DEF w
<1>10. sum \in Residues
  BY <1>8, <1>9 DEF Residues, (+)
<1>11. Congruent(sum, rest)
  <2>1. WindowAt(n) (+) Times(old, far) = rest
    BY <1>1, <1>3, <1>5, WindowOldest DEF n
  <2>2. Congruent(sum, WindowAt(n) (+) Times(old, far))
    BY <1>8, <1>9, CongruentSums
  <2> QED BY <2>1, <2>2
<1>12. rest \in Polys
  <2>1. rest \subseteq 0..(BYTE * w - 1)
    BY <1>1, WindowBound DEF n
  <2>2. BYTE * w \in Nat
    BY <1>1
  <2>3. \A e \in rest : e \in Nat /\ e <= BYTE * w
    BY <2>1, <2>2
  <2> QED BY <2>2, <2>3 DEF Polys
<1> HIDE DEF sum, rest
<1>13. append8(sum, m) \in Residues /\ Congruent(append8(sum, m), Times(sum, BYTE) (+) m)
  BY <1>10, Append8
<1>14. Congruent(Times(sum, BYTE) (+) m, Times(rest, BYTE) (+) m)
  BY <1>1, <1>10, <1>11, <1>12, ResiduesArePolys, CongruentTimes, CongruentRefl, CongruentSums
<1>15. Window(stream', n + 1, w + 1) = Times(rest, BYTE) (+) m
  BY <1>1, <1>2, WindowNext DEF rest, n
<1>16. Congruent(append8(sum, m), Window(stream', n + 1, w + 1))
  BY <1>13, <1>14, <1>15, CongruentTrans
<1> QED BY <1>4, <1>7, <1>13, <1>16 DEF Fingerprinted

LEMMA FingerprintIs ==
  ASSUME NEW s \in Seq(Bytes), NEW f \in Residues, Congruent(f, Window(s, Len(s), window_size))
  PROVE  Remainder[Window(s, Len(s), window_size)] = f
<1> DEFINE p == Window(s, Len(s), window_size)
<1>1. Len(s) \in 0..Len(s) /\ window_size \in Nat
  BY Limits
<1>2. p \in SUBSET (0..(BYTE * window_size - 1))
  BY <1>1, WindowBound
<1>3. Congruent(p, f)
  BY CongruentSym
<1> HIDE DEF p
<1>4. Remainder[p] = f
  BY <1>2, <1>3, RemainderIs
<1> QED BY <1>4 DEF p

(***************************************************************************)
(* The cuts.                                                                *)
(***************************************************************************)
\* Does a segment of this size end where the window holds p?
Ends(p, size) ==
  /\ size >= min_segment_size
  /\ Remainder[p] \cap fingerprint_mask = {} \/ size = max_segment_size

\* The cuts before n, and which of them is the last.
Earlier(n) == cuts \cap (1..(n - 1))
LastOf(c, earlier) == c \in earlier \cup {0} /\ \A d \in earlier : d <= c

\* There is a cut exactly where the contents of the segment ask for it.
Marked ==
  \A n \in 1..Len(stream) : \A c \in Nat :
    LastOf(c, Earlier(n)) => (n \in cuts <=> Ends(WindowAt(n), n - c))

\* What is behind is not marked again, and the byte read is marked rightly.
LEMMA MarkedKept ==
  ASSUME NEW m \in Bytes, slide8(m), Counted, Counted', Fingerprinted', Marked,
         NEW n, n = Len(stream) + 1,
         cuts' = IF Boundary(cur_seg_size + 1) THEN cuts \cup {Len(stream')} ELSE cuts
  PROVE  Marked'
<1>1. /\ stream \in Seq(Bytes) /\ stream' \in Seq(Bytes) /\ stream' = Append(stream, m)
      /\ Len(stream') = n /\ Len(stream) \in Nat
  BY Longer DEF Counted, slide8
<1>2. \A i \in 1..Len(stream) : stream'[i] = stream[i]
  BY <1>1
<1>3. cuts \subseteq 1..Len(stream)
  BY DEF Counted
<1>4. ASSUME NEW k \in 1..Len(stream), NEW c \in Nat, LastOf(c, Earlier(k)')
      PROVE  k \in cuts' <=> Ends(WindowAt(k)', k - c)
  <2>1. k # n /\ n \notin 1..(k - 1)
    BY <1>1
  <2>2. Earlier(k)' = Earlier(k)
    BY <1>1, <2>1 DEF Earlier
  <2>3. WindowAt(k)' = WindowAt(k)
    <3>1. \A i \in 1..k : stream'[i] = stream[i]
      BY <1>1, <1>2
    <3> QED BY <3>1 DEF WindowAt
  <2>4. k \in cuts' <=> k \in cuts
    BY <1>1, <2>1
  <2>5. k \in cuts <=> Ends(WindowAt(k), k - c)
    BY <1>4, <2>2 DEF Marked
  <2> QED BY <2>3, <2>4, <2>5
<1>5. ASSUME NEW c \in Nat, LastOf(c, Earlier(n)')
      PROVE  n \in cuts' <=> Ends(WindowAt(n)', n - c)
  <2>1. Earlier(n)' = cuts
    <3>1. n - 1 = Len(stream) /\ n \notin 1..Len(stream)
      BY <1>1
    <3> QED BY <1>1, <1>3, <3>1 DEF Earlier
  <2>2. c = Start
    <3>1. c \in cuts \cup {0} /\ \A d \in cuts : d <= c
      BY <1>5, <2>1 DEF LastOf
    <3>2. Start \in cuts \cup {0} /\ \A d \in cuts : d <= Start
      BY DEF Counted
    <3>3. Start \in Nat /\ \A d \in cuts : d \in Nat /\ d > 0
      BY <1>1, <1>3, <3>2
    <3> QED BY <3>1, <3>2, <3>3
  <2>3. n - c = cur_seg_size + 1
    BY <1>1, <2>2 DEF Start, Counted
  <2>4. fingerprint' = Remainder[WindowAt(Len(stream))']
    <3>1. WindowAt(Len(stream))' = Window(stream', Len(stream'), window_size)
      BY Zenon DEF WindowAt, Window
    <3> QED BY <1>1, <3>1, FingerprintIs DEF Fingerprinted
  <2>5. WindowAt(Len(stream))' = WindowAt(n)'
    BY <1>1
  <2>6. Boundary(cur_seg_size + 1) <=> Ends(WindowAt(n)', cur_seg_size + 1)
    BY <2>4, <2>5 DEF Boundary, Ends
  <2>7. n \in cuts' <=> Boundary(cur_seg_size + 1)
    BY <1>1, <1>3
  <2> QED BY <2>3, <2>6, <2>7
<1>6. ASSUME NEW k \in 1..Len(stream'), NEW c \in Nat, LastOf(c, Earlier(k)')
      PROVE  k \in cuts' <=> Ends(WindowAt(k)', k - c)
  <2>1. k \in 1..Len(stream) \/ k = n
    BY <1>1
  <2> QED BY <1>4, <1>5, <1>6, <2>1
<1> QED BY <1>6 DEF Marked

LEMMA MarkedStays ==
  ASSUME Marked, UNCHANGED <<stream, cuts>>
  PROVE  Marked'
<1>1. \A n \in 1..Len(stream) : Earlier(n)' = Earlier(n) /\ WindowAt(n)' = WindowAt(n)
  BY DEF Earlier, WindowAt
<1> QED BY <1>1 DEF Marked

\* The cuts up to n, from those before it.
Following(n, earlier) ==
  IF Ends(WindowAt(n), n - CHOOSE c \in earlier \cup {0} : \A d \in earlier : d <= c)
  THEN earlier \cup {n}
  ELSE earlier

\* The function that CutsOfContents means.
LEMMA Before ==
  ASSUME stream \in Seq(Bytes)
  PROVE  \E before : /\ CutsOfContents = before[Len(stream)]
                     /\ before[0] = {}
                     /\ \A n \in 1..Len(stream) : before[n] = Following(n, before[n - 1])
<1> DEFINE N == Len(stream)
           Is(h) == h = [n \in 0..N |->
                      IF n = 0 THEN {}
                      ELSE LET earlier == h[n - 1]
                               start   == CHOOSE c \in earlier \cup {0} : \A d \in earlier : d <= c
                               size    == n - start
                           IN  IF /\ size >= min_segment_size
                                  /\ \/ Remainder[WindowAt(n)] \cap fingerprint_mask = {}
                                     \/ size = max_segment_size
                               THEN earlier \cup {n}
                               ELSE earlier]
           V == SUBSET Nat
           G == [i \in 0..(N - 1) |-> [earlier \in V |-> Following(i + 1, earlier)]]
<1>1. N \in Nat /\ {} \in V
  OBVIOUS
<1>2. CutsOfContents = (CHOOSE h : Is(h))[N]
  BY DEF CutsOfContents
<1>3. \A h : Is(h) <=> h = [n \in 0..N |-> IF n = 0 THEN {} ELSE Following(n, h[n - 1])]
  BY Zenon DEF Following, Ends
<1> HIDE DEF Is
<1>4. \E h : Is(h)
  <2>1. ASSUME NEW i \in 0..(N - 1), NEW earlier \in V PROVE Following(i + 1, earlier) \in V
    BY <1>1 DEF Following
  <2>2. G \in [0..(N - 1) -> [V -> V]]
    BY <2>1
  <2> HIDE DEF G, N, V
  <2>3. PICK f : Follows(f, N, V, {}, G)
    BY <1>1, <2>2, Recursion, Zenon
  <2>4. ASSUME NEW n \in 0..N
        PROVE  f[n] = IF n = 0 THEN {} ELSE Following(n, f[n - 1])
    <3>1. CASE n = 0
      BY <2>3, <3>1 DEF Follows
    <3>2. CASE n # 0
      <4>1. n - 1 \in 0..(N - 1) /\ n - 1 \in 0..N /\ (n - 1) + 1 = n
        BY <1>1, <3>2
      <4>2. f[(n - 1) + 1] = G[n - 1][f[n - 1]] /\ f[n - 1] \in V
        BY <2>3, <4>1 DEF Follows
      <4>3. G[n - 1][f[n - 1]] = Following((n - 1) + 1, f[n - 1])
        BY <4>1, <4>2 DEF G
      <4> QED BY <3>2, <4>1, <4>2, <4>3
    <3> QED BY <3>1, <3>2
  <2>5. f = [n \in 0..N |-> f[n]]
    BY <2>3 DEF Follows
  <2>6. f = [n \in 0..N |-> IF n = 0 THEN {} ELSE Following(n, f[n - 1])]
    BY <2>4, <2>5, Zenon
  <2> QED BY <1>3, <2>6
<1> DEFINE before == CHOOSE h : Is(h)
<1>5. Is(before)
  BY <1>4
<1>6. CutsOfContents = before[N]
  BY <1>2
<1> HIDE DEF before
<1>7. before = [n \in 0..N |-> IF n = 0 THEN {} ELSE Following(n, before[n - 1])]
  BY <1>3, <1>5
<1>8. before[0] = {} /\ \A n \in 1..N : before[n] = Following(n, before[n - 1])
  <2>1. 0 \in 0..N /\ \A n \in 1..N : n \in 0..N /\ n # 0
    BY <1>1
  <2> HIDE DEF N
  <2> QED BY <1>7, <2>1
<1> QED BY <1>6, <1>8

LEMMA MarksAreContents ==
  ASSUME Counted, Marked
  PROVE  cuts = CutsOfContents
<1> DEFINE N == Len(stream)
<1>1. N \in Nat /\ stream \in Seq(Bytes) /\ cuts \subseteq 1..N
  BY DEF Counted
<1>2. PICK before : /\ CutsOfContents = before[N]
                    /\ before[0] = {}
                    /\ \A n \in 1..N : before[n] = Following(n, before[n - 1])
  BY <1>1, Before
<1> DEFINE S == {n \in 0..N : before[n] = cuts \cap (1..n)}
<1>3. 0 \in S
  BY <1>1, <1>2
<1>4. ASSUME NEW k \in 0..(N - 1), k \in S PROVE k + 1 \in S
  <2> DEFINE n == k + 1
             earlier == before[k]
             start == CHOOSE c \in earlier \cup {0} : \A d \in earlier : d <= c
  <2>1. n \in 1..N /\ n - 1 = k /\ k \in Nat
    BY <1>1
  <2>2. earlier = cuts \cap (1..k)
    BY <1>4
  <2>3. before[n] = Following(n, earlier)
    BY <1>2, <2>1
  <2> HIDE DEF earlier, n
  <2>4. start \in earlier \cup {0} /\ \A d \in earlier : d <= start
    <3>1. earlier \cup {0} \in SUBSET (0..k) /\ earlier \cup {0} # {}
      BY <2>1, <2>2
    <3>2. \E c \in earlier \cup {0} : \A d \in earlier \cup {0} : d <= c
      BY <2>1, <3>1, Greatest
    <3>3. \E c \in earlier \cup {0} : \A d \in earlier : d <= c
      BY <3>2
    <3> QED BY <3>3
  <2>5. before[n] = IF Ends(WindowAt(n), n - start) THEN earlier \cup {n} ELSE earlier
    BY <2>3 DEF Following
  <2> HIDE DEF start
  <2>6. n \in cuts <=> Ends(WindowAt(n), n - start)
    <3>1. Earlier(n) = earlier
      BY <2>1, <2>2 DEF Earlier
    <3>2. start \in Nat
      BY <2>2, <2>4
    <3>3. LastOf(start, Earlier(n))
      BY <2>4, <3>1 DEF LastOf
    <3> QED BY <2>1, <3>2, <3>3 DEF Marked
  <2>7. before[n] = cuts \cap (1..n)
    <3>1. \A c \in cuts : c \in 1..n <=> c \in 1..k \/ c = n
      BY <1>1, <2>1
    <3> QED BY <2>2, <2>5, <2>6, <3>1
  <2>8. n \in 0..N
    BY <2>1
  <2> QED BY <2>7, <2>8 DEF n
<1> HIDE DEF S
<1>5. N \in S
  <2>1. \A n \in 0..N : n \in S
    <3> HIDE DEF N
    <3> QED BY <1>1, <1>3, <1>4, InductionTo
  <2> QED BY <1>1, <2>1
<1>6. before[N] = cuts \cap (1..N)
  BY <1>5 DEF S
<1> QED BY <1>1, <1>2, <1>6

(***************************************************************************)
(* The invariant.                                                           *)
(***************************************************************************)
IInv == Counted /\ Ended /\ Ring /\ Fingerprinted /\ Marked /\ left \in Nat

LEMMA Emptied ==
  ASSUME stream = <<>>, fingerprint = {}, bufpos = UINT_MAX,
         buf = [i \in 0..(window_size - 1) |-> {}]
  PROVE  Ring /\ Fingerprinted
<1>1. Len(stream) = 0 /\ {} \in Bytes
  BY Limits
<1>2. Ring
  BY <1>1 DEF Ring
<1>3. WindowAt(Len(stream)) = {}
  BY <1>1 DEF WindowAt
<1>4. {} \in Residues
  BY DEF Residues
<1> QED BY <1>2, <1>3, <1>4, CongruentRefl DEF Fingerprinted

LEMMA Invariantly == Spec => []IInv
<1>1. Init => IInv
  <2> SUFFICES ASSUME Init PROVE IInv
    OBVIOUS
  <2>1. Counted /\ Ended /\ Ring /\ Fingerprinted /\ left \in Nat
    BY Initially, Emptied DEF Init
  <2>2. Marked
    BY DEF Init, Marked
  <2> QED BY <2>1, <2>2 DEF IInv
<1>2. IInv /\ [Next]_vars => IInv'
  <2> SUFFICES ASSUME IInv, [Next]_vars PROVE IInv'
    OBVIOUS
  <2>1. Counted' /\ Ended'
    BY Step DEF IInv
  <2>2. stream \in Seq(Bytes) /\ left \in Nat /\ Ring /\ Fingerprinted /\ Marked /\ Counted
    BY DEF IInv, Counted
  <2>3. CASE Reset
    <3>1. Ring' /\ Fingerprinted'
      <4>1. /\ stream' = <<>> /\ fingerprint' = {} /\ bufpos' = UINT_MAX
            /\ buf' = [i \in 0..(window_size - 1) |-> {}]
        BY <2>3 DEF Reset
      <4>2. Len(stream') = 0 /\ {} \in Bytes
        BY <4>1, Limits
      <4>3. Ring'
        BY <4>1, <4>2 DEF Ring
      <4>4. WindowAt(Len(stream))' = {}
        BY <4>2 DEF WindowAt
      <4>5. {} \in Residues
        BY DEF Residues
      <4> QED BY <4>1, <4>3, <4>4, <4>5, CongruentRefl DEF Fingerprinted
    <3>2. Marked' /\ left' \in Nat
      BY <2>2, <2>3 DEF Reset, Marked
    <3> QED BY <2>1, <3>1, <3>2 DEF IInv
  <2>4. ASSUME NEW bytes \in 1..MaxCall, Call(bytes) PROVE IInv'
    <3>1. Ring' /\ Fingerprinted'
      BY <2>2, <2>4 DEF Call, Ring, Fingerprinted, Newest, Slot, WindowAt
    <3>2. left' \in Nat
      BY <2>4, RabinAssumption DEF Call
    <3>3. Marked'
      BY <2>2, <2>4, MarkedStays DEF Call
    <3> QED BY <2>1, <3>1, <3>2, <3>3 DEF IInv
  <2>5. ASSUME NEW m \in Bytes, ReadCutting(m) \/ Read(m) PROVE IInv'
    <3>1. slide8(m)
      BY <2>5 DEF ReadCutting, Read
    <3>2. left' \in Nat
      BY <2>2, <2>5 DEF ReadCutting, Read
    <3>3. Ring' /\ Fingerprinted'
      BY <2>2, <3>1, RingKept, FingerprintKept
    <3>4. cuts' = IF Boundary(cur_seg_size + 1) THEN cuts \cup {Len(stream')} ELSE cuts
      BY <2>5 DEF ReadCutting, Read
    <3>5. PICK n : n = Len(stream) + 1
      OBVIOUS
    <3>6. Marked'
      BY <2>1, <2>2, <3>1, <3>3, <3>4, <3>5, MarkedKept
    <3> QED BY <2>1, <3>2, <3>3, <3>6 DEF IInv
  <2>6. CASE UNCHANGED vars
    <3>1. Ring' /\ Fingerprinted'
      BY <2>2, <2>6 DEF vars, Ring, Fingerprinted, Newest, Slot, WindowAt
    <3>2. left' \in Nat
      BY <2>2, <2>6 DEF vars
    <3>3. Marked'
      BY <2>2, <2>6, MarkedStays DEF vars
    <3> QED BY <2>1, <3>1, <3>2, <3>3 DEF IInv
  <2> QED BY <2>3, <2>4, <2>5, <2>6 DEF Next
<1> QED BY <1>1, <1>2, PTL DEF Spec

\* The variables keep their types; the fingerprint fits the word, and the
\* position in the buffer the buffer (slide8).
THEOREM TypeCorrect == Spec => []TypeOK
<1>1. IInv => TypeOK
  <2> SUFFICES ASSUME IInv PROVE TypeOK
    OBVIOUS
  <2>1. Residues \subseteq Words
    <3>1. xshift = WIDTH - 1 /\ WIDTH \in Nat
      BY Width
    <3>2. \A e \in 0..(xshift - 1) : e \in 0..(WIDTH - 1)
      BY <3>1
    <3> QED BY <3>2 DEF Residues, Words
  <2>2. fingerprint \in Words
    BY <2>1 DEF IInv, Fingerprinted
  <2>3. buf \in [0..(window_size - 1) -> Bytes] /\ bufpos \in 0..(window_size - 1) \cup {UINT_MAX}
    BY DEF IInv, Ring
  <2> QED BY <2>2, <2>3 DEF IInv, Counted, TypeOK
<1> QED BY <1>1, Invariantly, PTL

\* The tables and the circular buffer compute what they are for, for every
\* polynomial of the highest degree a word holds, every window and every
\* stream: the fingerprint is the remainder of the bytes in the window
\* (slide8, append8, calcT).
THEOREM FingerprintsAreRemainders == Spec => []FingerprintOfWindow
<1>1. IInv => FingerprintOfWindow
  <2>1. WindowAt(Len(stream)) = Window(stream, Len(stream), window_size)
    BY Zenon DEF WindowAt, Window
  <2> QED BY <2>1, FingerprintIs DEF IInv, Counted, Fingerprinted, FingerprintOfWindow
<1> QED BY <1>1, Invariantly, PTL

\* Where a stream is cut depends on its bytes only, for every stream and all
\* the size bounds: not on the calls it arrives in, nor on the streams before
\* a reset (rabin_segment_next, rabin_reset).
THEOREM CutsAreOfTheContents == Spec => []CutsDependOnContents
<1>1. IInv => CutsDependOnContents
  BY MarksAreContents DEF IInv, CutsDependOnContents
<1> QED BY <1>1, Invariantly, PTL
=============================================================================
