-------------------------- MODULE S3ProgramProofs ---------------------------
(***************************************************************************)
(* The s3 tool over its command line, for any inputs, lists and bounds.    *)
(* The bytes of an input that a put has not handed to libs3 are what the   *)
(* growbuffer holds. What S3Client promises of objects, files and listings *)
(* also holds where its commands and those about lists follow each other,  *)
(* in any order and as often as they like. Reading a list back             *)
(* (convert_simple_acl) is followed line by line: after the line of a      *)
(* grant the parser has this grant, and is at the start of the next line   *)
(* or has given up; so a set sends what a get has printed. Growbuffer and  *)
(* parser are folds over sequences; what these compute is shown first.     *)
(***************************************************************************)
EXTENDS S3Program, S3ClientProofs, WellFoundedInduction

(***************************************************************************)
(* Natural numbers: induction, stated about a set instead of a predicate.   *)
(***************************************************************************)
\* Of some numbers one is the least.
LEMMA Least ==
  ASSUME NEW S \in SUBSET Nat, S # {}
  PROVE  \E n \in S : \A m \in S : n <= m
<1> DEFINE Below == {0..n : n \in S}
<1>1. IsWellFoundedOn(StrictSubsetOrdering(Nat), FiniteSubsetsOf(Nat))
  BY FS_StrictSubsetOrderingWellFounded
<1>2. Below \subseteq FiniteSubsetsOf(Nat) /\ Below # {}
  <2>1. ASSUME NEW n \in S PROVE 0..n \subseteq Nat /\ IsFiniteSet(0..n)
    BY FS_Interval
  <2> QED BY <2>1 DEF FiniteSubsetsOf
<1>3. PICK t \in Below : \A u \in Below : ~(<<u, t>> \in StrictSubsetOrdering(Nat))
  BY <1>1, <1>2, WFMin
<1>4. PICK n \in S : t = 0..n
  BY <1>3
<1>5. ASSUME NEW m \in S, m < n PROVE FALSE
  <2>1. 0..m \in Below /\ 0..m \subseteq 0..n /\ 0..m # 0..n
    <3>1. n \in 0..n /\ ~(n \in 0..m)
      BY <1>5
    <3> QED BY <1>5, <3>1
  <2>2. 0..m \subseteq Nat /\ 0..n \subseteq Nat
    OBVIOUS
  <2>3. <<0..m, t>> \in StrictSubsetOrdering(Nat)
    BY <1>4, <2>1, <2>2 DEF StrictSubsetOrdering
  <2> QED BY <1>3, <2>1, <2>3
<1> QED BY <1>5

\* Of some numbers up to a bound one is the greatest.
LEMMA Greatest ==
  ASSUME NEW n \in Nat, NEW S \in SUBSET (0..n), S # {}
  PROVE  \E m \in S : \A k \in S : k <= m
<1> DEFINE R == {n - k : k \in S}
<1>1. R \in SUBSET Nat /\ R # {}
  <2>1. \A k \in S : n - k \in Nat
    OBVIOUS
  <2>2. PICK k \in S : TRUE
    OBVIOUS
  <2>3. n - k \in R
    OBVIOUS
  <2> QED BY <2>1, <2>3
<1>2. PICK r \in R : \A k \in R : r <= k
  BY <1>1, Least
<1>3. PICK m \in S : r = n - m
  OBVIOUS
<1>4. ASSUME NEW k \in S PROVE k <= m
  <2>1. n - k \in R
    OBVIOUS
  <2>2. r <= n - k
    BY <1>2, <2>1
  <2> QED BY <1>3, <2>2
<1> QED BY <1>4

\* Up to n.
LEMMA InductionTo ==
  ASSUME NEW n \in Nat, NEW S, 0 \in S, \A i \in 0..(n - 1) : i \in S => i + 1 \in S
  PROVE  \A i \in 0..n : i \in S
<1> SUFFICES ASSUME (0..n) \ S # {} PROVE FALSE
  OBVIOUS
<1> DEFINE R == (0..n) \ S
<1>1. R \in SUBSET Nat /\ R # {}
  OBVIOUS
<1> HIDE DEF R
<1>2. PICK k \in R : \A m \in R : k <= m
  BY <1>1, Least
<1>3. k # 0 /\ k \in 0..n
  BY DEF R
<1>4. k - 1 \notin R /\ k - 1 \in 0..(n - 1)
  BY <1>2, <1>3
<1>5. k - 1 \in S
  BY <1>4 DEF R
<1>6. (k - 1) + 1 \in S /\ (k - 1) + 1 = k
  BY <1>3, <1>4, <1>5
<1>7. k \in S
  BY <1>6
<1> QED BY <1>7 DEF R

(***************************************************************************)
(* Folds over sequences: FoldLeft is defined on every set of positions, and *)
(* goes through the sets 1..k.                                              *)
(***************************************************************************)
LEMMA MaxOfInterval ==
  ASSUME NEW n \in Nat
  PROVE  Max(1..(n + 1)) = n + 1 /\ (1..(n + 1)) \ {n + 1} = 1..n /\ 1..(n + 1) # {}
<1>1. n + 1 \in 1..(n + 1) /\ \A y \in 1..(n + 1) : n + 1 >= y
  OBVIOUS
<1>2. \A x \in 1..(n + 1) : (\A y \in 1..(n + 1) : x >= y) => x = n + 1
  BY <1>1
<1>3. Max(1..(n + 1)) = n + 1
  BY <1>1, <1>2 DEF Max
<1> QED BY <1>1, <1>3

LEMMA MaxOfSet ==
  ASSUME NEW n \in Nat, NEW s \in SUBSET (1..n), s # {}
  PROVE  Max(s) \in s /\ \A y \in s : Max(s) >= y
<1>1. s \in SUBSET (0..n)
  BY SMT
<1>2. \E x \in s : \A y \in s : y <= x
  BY <1>1, Greatest
<1>3. \A x \in s, y \in s : y <= x <=> x >= y
  BY <1>1
<1>4. \E x \in s : \A y \in s : x >= y
  BY <1>2, <1>3
<1> QED BY <1>4 DEF Max

\* One step of a fold, and the values of all of them.
FoldStep(h, s, base, G) == IF s = {} THEN base ELSE G[Max(s)][h[s \ {Max(s)}]]
IsFold(h, n, base, G) == \A s \in SUBSET (1..n) : h[s] = FoldStep(h, s, base, G)

LEMMA FoldsExist ==
  ASSUME NEW V, NEW base \in V, NEW n \in Nat, NEW G \in [1..n -> [V -> V]]
  PROVE  \E h \in [SUBSET (1..n) -> V] : IsFold(h, n, base, G)
<1> DEFINE Ks == {k \in 0..n : \E h \in [SUBSET (1..k) -> V] : IsFold(h, k, base, G)}
<1>1. 0 \in Ks
  <2> DEFINE h == [s \in SUBSET (1..0) |-> base]
  <2>1. h \in [SUBSET (1..0) -> V] /\ 0 \in 0..n
    OBVIOUS
  <2>2. \A s \in SUBSET (1..0) : s = {}
    OBVIOUS
  <2>3. IsFold(h, 0, base, G)
    BY <2>2 DEF IsFold, FoldStep
  <2> QED BY <2>1, <2>3
<1>2. ASSUME NEW k \in 0..(n - 1), k \in Ks PROVE k + 1 \in Ks
  <2>1. PICK h \in [SUBSET (1..k) -> V] : IsFold(h, k, base, G)
    BY <1>2
  <2> DEFINE g == [s \in SUBSET (1..(k + 1)) |->
                     IF k + 1 \in s THEN G[k + 1][h[s \ {k + 1}]] ELSE h[s]]
  <2>2. \A s \in SUBSET (1..(k + 1)) : s \ {k + 1} \in SUBSET (1..k)
    OBVIOUS
  <2>3. \A s \in SUBSET (1..(k + 1)) : k + 1 \notin s => s \in SUBSET (1..k) /\ s \ {k + 1} = s
    BY <2>2
  <2>4. k + 1 \in 1..n /\ k + 1 \in 0..n /\ k \in Nat
    OBVIOUS
  <2>5. g \in [SUBSET (1..(k + 1)) -> V]
    <3>1. ASSUME NEW s \in SUBSET (1..(k + 1)) PROVE g[s] \in V
      <4>1. h[s \ {k + 1}] \in V
        BY <2>2
      <4>2. G[k + 1][h[s \ {k + 1}]] \in V
        BY <2>4, <4>1
      <4> QED BY <2>3, <4>1, <4>2
    <3> HIDE DEF g
    <3>2. g = [s \in SUBSET (1..(k + 1)) |-> g[s]]
      BY DEF g
    <3> QED BY <3>1, <3>2, Zenon
  <2>6. ASSUME NEW s \in SUBSET (1..(k + 1)) PROVE g[s] = FoldStep(g, s, base, G)
    <3>1. CASE k + 1 \in s
      <4>1. Max(s) = k + 1
        <5>1. k + 1 \in Nat /\ s # {}
          BY <2>4, <3>1
        <5>2. Max(s) \in s /\ \A y \in s : Max(s) >= y
          BY <5>1, MaxOfSet
        <5>3. Max(s) \in 1..(k + 1) /\ Max(s) >= k + 1
          BY <3>1, <5>2
        <5> QED BY <2>4, <5>3
      <4>2. s \ {k + 1} \in SUBSET (1..k) /\ k + 1 \notin s \ {k + 1} /\ s \ {k + 1} \in SUBSET (1..(k + 1))
        BY <2>2
      <4>3. g[s \ {k + 1}] = h[s \ {k + 1}]
        BY <4>2
      <4>4. g[s] = G[k + 1][h[s \ {k + 1}]]
        BY <3>1
      <4> HIDE DEF g
      <4> QED BY <3>1, <4>1, <4>3, <4>4 DEF FoldStep
    <3>2. CASE k + 1 \notin s
      <4>1. s \in SUBSET (1..k) /\ g[s] = h[s]
        BY <2>3, <3>2
      <4>2. CASE s = {}
        BY <2>1, <4>1, <4>2 DEF IsFold, FoldStep
      <4>3. CASE s # {}
        <5>1. k + 1 \notin s \ {Max(s)} /\ s \ {Max(s)} \in SUBSET (1..(k + 1))
          BY <3>2
        <5>2. g[s \ {Max(s)}] = h[s \ {Max(s)}]
          BY <5>1
        <5>3. h[s] = FoldStep(h, s, base, G)
          BY <2>1, <4>1 DEF IsFold
        <5> HIDE DEF g
        <5> QED BY <4>1, <4>3, <5>2, <5>3 DEF FoldStep
      <4> QED BY <4>2, <4>3
    <3> QED BY <3>1, <3>2
  <2> HIDE DEF g
  <2>7. IsFold(g, k + 1, base, G)
    BY <2>6 DEF IsFold
  <2> QED BY <2>4, <2>5, <2>7
<1> HIDE DEF Ks
<1>3. n \in Ks
  <2>1. \A i \in 0..(n - 1) : i \in Ks => i + 1 \in Ks
    BY <1>2
  <2>2. \A i \in 0..n : i \in Ks
    BY <1>1, <2>1, InductionTo
  <2> QED BY <2>2
<1> QED BY <1>3 DEF Ks

(***************************************************************************)
(* The growbuffer.                                                          *)
(***************************************************************************)
Data == Bytes \cup {Zero}
Blocks == {b \in [size : 1..BlockSize, start : 0..(BlockSize - 1), data : Seq(Data)] :
             b.start + b.size <= BlockSize /\ Len(b.data) = BlockSize}

\* What a block still has.
Piece(b) == SubSeq(b.data, b.start + 1, b.start + b.size)

LEMMA Size == BlockSize \in Nat \ {0}
BY GrowBufferAssumption

LEMMA PieceType ==
  ASSUME NEW b \in Blocks
  PROVE  Piece(b) \in Seq(Data) /\ Len(Piece(b)) = b.size
<1>1. /\ b.size \in 1..BlockSize /\ b.start \in 0..(BlockSize - 1) /\ b.data \in Seq(Data)
      /\ b.start + b.size <= BlockSize /\ Len(b.data) = BlockSize
  BY DEF Blocks
<1>2. \A i \in (b.start + 1)..(b.start + b.size) : b.data[i] \in Data
  <2>1. \A i \in 1..BlockSize : b.data[i] \in Data
    BY <1>1
  <2>2. \A i \in (b.start + 1)..(b.start + b.size) : i \in 1..BlockSize
    BY <1>1, Size
  <2> QED BY <2>1, <2>2
<1>3. /\ Piece(b) \in Seq(Data)
      /\ Len(Piece(b)) = IF b.start + 1 <= b.start + b.size THEN b.start + b.size - (b.start + 1) + 1 ELSE 0
  BY <1>1, <1>2, SubSeqProperties DEF Piece
<1> QED BY <1>1, <1>3, Size

\* Unread concatenates the pieces from the first block on.
Gathers(f, ring) == f[0] = <<>> /\ \A i \in 1..Len(ring) : f[i] = f[i - 1] \o Piece(ring[i])

LEMMA UnreadSteps ==
  ASSUME NEW ring \in Seq(Blocks)
  PROVE  \E f \in [0..Len(ring) -> Seq(Data)] : Gathers(f, ring) /\ Unread(ring) = f[Len(ring)]
<1> DEFINE n == Len(ring)
           V == Seq(Data)
           G == [i \in 1..n |-> [v \in V |-> v \o Piece(ring[i])]]
           Is(h) == h = [s \in SUBSET DOMAIN ring |->
                      IF s = {} THEN <<>>
                      ELSE h[s \ {Max(s)}] \o SubSeq(ring[Max(s)].data, ring[Max(s)].start + 1,
                                                     ring[Max(s)].start + ring[Max(s)].size)]
<1>1. Unread(ring) = (CHOOSE h : Is(h))[DOMAIN ring]
  BY DEF Unread, FoldLeft, MapThenFoldSet
<1>2. n \in Nat /\ DOMAIN ring = 1..n /\ <<>> \in V
  OBVIOUS
<1>3. \A h : Is(h) <=> h = [s \in SUBSET (1..n) |->
                              IF s = {} THEN <<>> ELSE h[s \ {Max(s)}] \o Piece(ring[Max(s)])]
  BY <1>2, Zenon DEF Piece
<1> HIDE DEF Is
<1>4. \E h : Is(h)
  <2>1. \A i \in 1..n, v \in V : v \o Piece(ring[i]) \in V
    <3>1. \A i \in 1..n : ring[i] \in Blocks
      BY <1>2
    <3> QED BY <3>1, PieceType, ConcatProperties
  <2>2. G \in [1..n -> [V -> V]]
    BY <2>1
  <2> DEFINE base == <<>>
  <2>3. PICK h \in [SUBSET (1..n) -> V] : IsFold(h, n, base, G)
    <3> HIDE DEF V, G, n, base
    <3>1. base \in V
      BY <1>2 DEF base
    <3> QED BY <1>2, <2>2, <3>1, FoldsExist, Zenon
  <2>4. ASSUME NEW s \in SUBSET (1..n)
        PROVE  h[s] = IF s = {} THEN <<>> ELSE h[s \ {Max(s)}] \o Piece(ring[Max(s)])
    <3>1. h[s] = FoldStep(h, s, <<>>, G)
      BY <2>3 DEF IsFold
    <3>2. CASE s = {}
      BY <3>1, <3>2 DEF FoldStep
    <3>3. CASE s # {}
      <4>1. Max(s) \in 1..n
        BY <1>2, <3>3, MaxOfSet
      <4>2. h[s \ {Max(s)}] \in V
        BY <2>3
      <4> QED BY <3>1, <3>3, <4>1, <4>2 DEF FoldStep
    <3> QED BY <3>2, <3>3
  <2>5. h = [s \in SUBSET (1..n) |-> h[s]]
    BY <2>3
  <2>6. h = [s \in SUBSET (1..n) |->
               IF s = {} THEN <<>> ELSE h[s \ {Max(s)}] \o Piece(ring[Max(s)])]
    BY <2>4, <2>5, Zenon
  <2> QED BY <1>3, <2>6
<1> DEFINE h == CHOOSE h : Is(h)
           f == [i \in 0..n |-> h[1..i]]
<1>5. Is(h)
  BY <1>4
<1> HIDE DEF h
<1>6. h = [s \in SUBSET (1..n) |-> IF s = {} THEN <<>> ELSE h[s \ {Max(s)}] \o Piece(ring[Max(s)])]
  BY <1>3, <1>5
<1>7. f[0] = <<>>
  <2>1. 1..0 = {} /\ 0 \in 0..n /\ {} \in SUBSET (1..n)
    BY <1>2
  <2>2. h[{}] = <<>>
    BY <1>6, <2>1
  <2> QED BY <2>1, <2>2
<1>8. ASSUME NEW i \in 1..n PROVE f[i] = f[i - 1] \o Piece(ring[i])
  <2>1. i - 1 \in Nat /\ (i - 1) + 1 = i /\ i \in 0..n /\ i - 1 \in 0..n
    BY <1>2
  <2>2. Max(1..i) = i /\ (1..i) \ {i} = 1..(i - 1) /\ 1..i # {}
    BY <2>1, MaxOfInterval
  <2>3. 1..i \in SUBSET (1..n)
    BY <1>2
  <2>4. h[1..i] = h[(1..i) \ {Max(1..i)}] \o Piece(ring[Max(1..i)])
    BY <1>6, <2>2, <2>3
  <2> QED BY <2>1, <2>2, <2>4
<1>9. f \in [0..n -> V]
  <2> DEFINE S == {i \in 0..n : f[i] \in V}
  <2>1. 0 \in S
    <3>1. 0 \in 0..n
      BY <1>2
    <3>2. f[0] \in V
      <4> HIDE DEF f, V, n
      <4> QED BY <1>2, <1>7
    <3> QED BY <3>1, <3>2
  <2>2. ASSUME NEW i \in 0..(n - 1), i \in S PROVE i + 1 \in S
    <3>1. i + 1 \in 1..n /\ (i + 1) - 1 = i /\ i + 1 \in 0..n
      BY <1>2
    <3>2. f[i] \in Seq(Data) /\ Piece(ring[i + 1]) \in Seq(Data)
      BY <2>2, <3>1, PieceType
    <3>3. f[i + 1] = f[i] \o Piece(ring[i + 1])
      BY <1>8, <3>1
    <3> HIDE DEF f
    <3>4. f[i + 1] \in Seq(Data)
      BY <3>2, <3>3, ConcatProperties
    <3> QED BY <3>1, <3>4
  <2> HIDE DEF S
  <2>3. \A i \in 0..n : i \in S
    BY <1>2, <2>1, <2>2, InductionTo
  <2>4. f = [i \in 0..n |-> f[i]]
    OBVIOUS
  <2> HIDE DEF f, n, V
  <2>5. \A i \in 0..n : f[i] \in V
    BY <2>3 DEF S
  <2> QED BY <2>4, <2>5, Zenon
<1>10. Unread(ring) = f[n]
  <2>1. Unread(ring) = h[1..n] /\ n \in 0..n
    BY <1>1, <1>2 DEF h
  <2> QED BY <2>1
<1> HIDE DEF f
<1>11. Gathers(f, ring)
  BY <1>7, <1>8 DEF Gathers
<1> QED BY <1>9, <1>10, <1>11

LEMMA UnreadIs ==
  ASSUME NEW ring \in Seq(Blocks), NEW g, Gathers(g, ring)
  PROVE  Unread(ring) = g[Len(ring)]
<1>1. PICK f \in [0..Len(ring) -> Seq(Data)] : Gathers(f, ring) /\ Unread(ring) = f[Len(ring)]
  BY UnreadSteps
<1>2. Len(ring) \in Nat
  OBVIOUS
<1> DEFINE S == {i \in 0..Len(ring) : f[i] = g[i]}
<1>3. 0 \in S
  BY <1>1, <1>2 DEF Gathers
<1>4. ASSUME NEW i \in 0..(Len(ring) - 1), i \in S PROVE i + 1 \in S
  <2>1. i + 1 \in 1..Len(ring) /\ (i + 1) - 1 = i /\ i + 1 \in 0..Len(ring)
    BY <1>2
  <2>2. f[i + 1] = f[i] \o Piece(ring[i + 1]) /\ g[i + 1] = g[i] \o Piece(ring[i + 1])
    BY <1>1, <2>1 DEF Gathers
  <2> QED BY <1>4, <2>1, <2>2
<1> HIDE DEF S
<1>5. \A i \in 0..Len(ring) : i \in S
  BY <1>2, <1>3, <1>4, InductionTo
<1>6. Len(ring) \in S
  BY <1>2, <1>5
<1> QED BY <1>1, <1>6 DEF S

LEMMA UnreadNothing == Unread(<<>>) = <<>>
<1>1. <<>> \in Seq(Blocks) /\ Len(<<>>) = 0
  OBVIOUS
<1>2. Gathers([i \in 0..0 |-> <<>>], <<>>)
  BY DEF Gathers
<1> QED BY <1>1, <1>2, UnreadIs

LEMMA UnreadType ==
  ASSUME NEW ring \in Seq(Blocks)
  PROVE  Unread(ring) \in Seq(Data)
<1>1. PICK f \in [0..Len(ring) -> Seq(Data)] : Unread(ring) = f[Len(ring)]
  BY UnreadSteps
<1> QED BY <1>1

\* A block at the end.
LEMMA UnreadAppended ==
  ASSUME NEW ring \in Seq(Blocks), NEW b \in Blocks
  PROVE  Unread(Append(ring, b)) = Unread(ring) \o Piece(b)
<1>1. PICK f \in [0..Len(ring) -> Seq(Data)] : Gathers(f, ring) /\ Unread(ring) = f[Len(ring)]
  BY UnreadSteps
<1> DEFINE n == Len(ring)
           longer == Append(ring, b)
           g == [i \in 0..(n + 1) |-> IF i = n + 1 THEN f[n] \o Piece(b) ELSE f[i]]
<1>2. /\ n \in Nat /\ longer \in Seq(Blocks) /\ Len(longer) = n + 1
      /\ longer[n + 1] = b /\ \A i \in 1..n : longer[i] = ring[i]
  OBVIOUS
<1> HIDE DEF n, longer
<1>3. g[0] = <<>>
  BY <1>1, <1>2 DEF Gathers
<1>4. ASSUME NEW i \in 1..(n + 1) PROVE g[i] = g[i - 1] \o Piece(longer[i])
  <2>1. i \in 0..(n + 1) /\ i - 1 \in 0..(n + 1) /\ i - 1 # n + 1
    BY <1>2
  <2>2. g[i - 1] = f[i - 1]
    BY <2>1
  <2>3. CASE i = n + 1
    <3>1. g[i] = f[n] \o Piece(b) /\ i - 1 = n
      BY <1>2, <2>1, <2>3
    <3> HIDE DEF g
    <3> QED BY <1>2, <2>2, <2>3, <3>1
  <2>4. CASE i # n + 1
    <3>1. i \in 1..n /\ g[i] = f[i]
      BY <1>2, <2>1, <2>4
    <3>2. f[i] = f[i - 1] \o Piece(ring[i])
      BY <1>1, <3>1 DEF Gathers, n
    <3> HIDE DEF g
    <3> QED BY <1>2, <2>2, <3>1, <3>2
  <2> QED BY <2>3, <2>4
<1>5. g[n + 1] = f[n] \o Piece(b)
  BY <1>2
<1> HIDE DEF g
<1>6. Gathers(g, longer)
  BY <1>2, <1>3, <1>4 DEF Gathers
<1>7. Unread(longer) = g[n + 1]
  BY <1>2, <1>6, UnreadIs
<1> QED BY <1>1, <1>5, <1>7 DEF n, longer

LEMMA Associative ==
  ASSUME NEW r \in Seq(Data), NEW s \in Seq(Data), NEW t \in Seq(Data)
  PROVE  r \o (s \o t) = (r \o s) \o t
<1>1. (r \o s) \o t = r \o (s \o t)
  BY ConcatAssociative
<1> QED BY <1>1

\* The block at the front.
LEMMA UnreadFront ==
  ASSUME NEW ring \in Seq(Blocks), ring # <<>>
  PROVE  Unread(ring) = Piece(Head(ring)) \o Unread(Tail(ring))
<1> DEFINE rest == Tail(ring)
           first == Piece(Head(ring))
<1>1. /\ Len(ring) \in Nat \ {0} /\ rest \in Seq(Blocks) /\ Len(rest) = Len(ring) - 1
      /\ Head(ring) = ring[1] /\ Head(ring) \in Blocks
      /\ \A i \in 1..(Len(ring) - 1) : rest[i] = ring[i + 1]
  OBVIOUS
<1>2. first \in Seq(Data)
  BY <1>1, PieceType
<1> HIDE DEF rest, first
<1>3. PICK f \in [0..Len(rest) -> Seq(Data)] : Gathers(f, rest) /\ Unread(rest) = f[Len(rest)]
  BY <1>1, UnreadSteps
<1> DEFINE g == [i \in 0..Len(ring) |-> IF i = 0 THEN <<>> ELSE first \o f[i - 1]]
<1>4. g[0] = <<>>
  BY <1>1
<1>5. ASSUME NEW i \in 1..Len(ring) PROVE g[i] = g[i - 1] \o Piece(ring[i])
  <2>1. i \in 0..Len(ring) /\ i - 1 \in 0..Len(ring) /\ g[i] = first \o f[i - 1]
    BY <1>1
  <2>2. CASE i = 1
    <3>1. g[i - 1] = <<>> /\ f[i - 1] = <<>>
      BY <1>1, <1>3, <2>1, <2>2 DEF Gathers
    <3>2. Piece(ring[i]) = first
      BY <1>1, <2>2 DEF first
    <3> HIDE DEF g
    <3>3. first \o <<>> = first /\ <<>> \o first = first
      BY <1>2
    <3> QED BY <2>1, <3>1, <3>2, <3>3
  <2>3. CASE i # 1
    <3>1. i - 1 \in 1..Len(rest) /\ (i - 1) - 1 \in 0..Len(rest) /\ i - 1 # 0
      BY <1>1, <2>3
    <3>2. g[i - 1] = first \o f[(i - 1) - 1]
      BY <2>1, <3>1
    <3>3. f[i - 1] = f[(i - 1) - 1] \o Piece(rest[i - 1])
      BY <1>3, <3>1 DEF Gathers
    <3>4. rest[i - 1] = ring[i] /\ ring[i] \in Blocks
      <4>1. i - 1 \in 1..(Len(ring) - 1) /\ (i - 1) + 1 = i
        BY <1>1, <2>3
      <4> QED BY <1>1, <4>1
    <3>5. f[(i - 1) - 1] \in Seq(Data) /\ Piece(ring[i]) \in Seq(Data)
      BY <1>3, <3>1, <3>4, PieceType
    <3> HIDE DEF g
    <3>6. first \o (f[(i - 1) - 1] \o Piece(ring[i])) = (first \o f[(i - 1) - 1]) \o Piece(ring[i])
      <4> DEFINE x == f[(i - 1) - 1]
                 y == Piece(ring[i])
      <4>1. first \in Seq(Data) /\ x \in Seq(Data) /\ y \in Seq(Data)
        BY <1>2, <3>5
      <4> HIDE DEF x, y
      <4>2. first \o (x \o y) = (first \o x) \o y
        BY <4>1, Associative
      <4> QED BY <4>2 DEF x, y
    <3> QED BY <2>1, <3>2, <3>3, <3>4, <3>6
  <2> QED BY <2>2, <2>3
<1>6. g[Len(ring)] = first \o f[Len(rest)]
  BY <1>1
<1> HIDE DEF g
<1>7. Gathers(g, ring)
  BY <1>4, <1>5 DEF Gathers
<1>8. Unread(ring) = g[Len(ring)]
  BY <1>7, UnreadIs
<1> QED BY <1>3, <1>6, <1>8 DEF first, rest

\* There is nothing to read in no ring but the empty one.
LEMMA UnreadSomething ==
  ASSUME NEW ring \in Seq(Blocks)
  PROVE  Unread(ring) = <<>> <=> ring = <<>>
<1>1. ASSUME ring # <<>> PROVE Len(Unread(ring)) # 0
  <2>1. Head(ring) \in Blocks /\ Tail(ring) \in Seq(Blocks)
    BY <1>1
  <2>2. /\ Unread(Tail(ring)) \in Seq(Data) /\ Piece(Head(ring)) \in Seq(Data)
        /\ Len(Piece(Head(ring))) = Head(ring).size /\ Head(ring).size >= 1
    <3>1. Head(ring).size \in 1..BlockSize
      BY <2>1 DEF Blocks
    <3>2. Head(ring).size >= 1
      BY <3>1, Size
    <3> QED BY <2>1, <3>2, UnreadType, PieceType
  <2>3. Len(Piece(Head(ring)) \o Unread(Tail(ring))) = Len(Piece(Head(ring))) + Len(Unread(Tail(ring)))
    BY <2>2, ConcatProperties
  <2>4. Len(Unread(Tail(ring))) \in Nat /\ Head(ring).size \in Nat
    BY <2>1, <2>2, Size DEF Blocks
  <2> QED BY <1>1, <2>2, <2>3, <2>4, UnreadFront
<1> QED BY <1>1, UnreadNothing

\* A ring that nothing was read of: full blocks but for the last.
Fresh(ring) ==
  /\ ring \in Seq(Blocks)
  /\ \A i \in 1..Len(ring) :
       ring[i].start = 0 /\ (i < Len(ring) => ring[i].size = BlockSize)

\* Any ring: the first block may have been read in part, the last is filled in part.
WellFormed(ring) ==
  /\ ring \in Seq(Blocks)
  /\ \A i \in 1..Len(ring) :
       /\ ring[i].start > 0 => i = 1
       /\ ring[i].start + ring[i].size < BlockSize => i = Len(ring)

LEMMA FreshIsWellFormed ==
  ASSUME NEW ring, Fresh(ring)
  PROVE  WellFormed(ring)
<1>1. Len(ring) \in Nat /\ \A i \in 1..Len(ring) : i < Len(ring) \/ i = Len(ring)
  BY DEF Fresh
<1> QED BY <1>1, Size DEF Fresh, WellFormed

\* A block with the byte behind what is in use of it.
WithByte(b, byte) ==
  [size |-> b.size + 1, start |-> 0,
   data |-> [i \in 1..BlockSize |-> IF i = b.size + 1 THEN byte ELSE b.data[i]]]

LEMMA BlockWithByte ==
  ASSUME NEW b, b \in [size : 0..(BlockSize - 1), start : {0}, data : Seq(Data)],
         Len(b.data) = BlockSize, NEW byte \in Data
  PROVE  /\ WithByte(b, byte) \in Blocks
         /\ WithByte(b, byte).start = 0
         /\ Piece(WithByte(b, byte)) = Append(Piece(b), byte)
         /\ Piece(b) \in Seq(Data)
<1> DEFINE n == b.size
           c == WithByte(b, byte)
<1>1. /\ n \in 0..(BlockSize - 1) /\ n \in Nat /\ b.start = 0 /\ b.data \in Seq(Data)
      /\ \A i \in 1..BlockSize : b.data[i] \in Data
  BY Size
<1>2. c.size = n + 1 /\ c.start = 0
      /\ c.data = [i \in 1..BlockSize |-> IF i = n + 1 THEN byte ELSE b.data[i]]
  BY DEF WithByte
<1>3. c.data \in Seq(Data) /\ Len(c.data) = BlockSize
  <2>1. c.data \in [1..BlockSize -> Data]
    BY <1>1, <1>2
  <2> QED BY <2>1, Size
<1>4. c \in Blocks
  <2>1. c.size \in 1..BlockSize /\ c.start \in 0..(BlockSize - 1) /\ c.start + c.size <= BlockSize
    BY <1>1, <1>2, Size
  <2> QED BY <1>3, <2>1 DEF Blocks, WithByte
<1>5. Piece(b) = SubSeq(b.data, 1, n) /\ Piece(c) = SubSeq(c.data, 1, n + 1)
  <2>1. b.start + 1 = 1 /\ b.start + b.size = n
    BY <1>1
  <2>2. c.start + 1 = 1 /\ c.start + c.size = n + 1
    BY <1>1, <1>2
  <2> HIDE DEF c
  <2> QED BY <2>1, <2>2, Zenon DEF Piece
<1> HIDE DEF n, c
<1>6. /\ SubSeq(b.data, 1, n) \in Seq(Data) /\ Len(SubSeq(b.data, 1, n)) = n
      /\ \A i \in 1..n : SubSeq(b.data, 1, n)[i] = b.data[i]
  <2>1. \A i \in 1..n : b.data[i] \in Data
    BY <1>1
  <2> QED BY <1>1, <2>1, SubSeqProperties
<1>7. /\ SubSeq(c.data, 1, n + 1) \in Seq(Data) /\ Len(SubSeq(c.data, 1, n + 1)) = n + 1
      /\ \A i \in 1..(n + 1) : SubSeq(c.data, 1, n + 1)[i] = c.data[i]
  <2>1. \A i \in 1..(n + 1) : i \in 1..BlockSize
    BY <1>1, Size
  <2>2. \A i \in 1..(n + 1) : c.data[i] \in Data
    BY <1>3, <2>1
  <2> QED BY <1>1, <2>2, SubSeqProperties
<1>8. SubSeq(c.data, 1, n + 1) = Append(SubSeq(b.data, 1, n), byte)
  <2> DEFINE s == SubSeq(b.data, 1, n)
             t == SubSeq(c.data, 1, n + 1)
  <2>1. c.data[n + 1] = byte /\ \A i \in 1..n : c.data[i] = b.data[i]
    BY <1>1, <1>2, Size
  <2>2. s \in Seq(Data) /\ Len(s) = n /\ t \in Seq(Data) /\ Len(t) = n + 1
    BY <1>6, <1>7
  <2>3. /\ Append(s, byte) \in Seq(Data) /\ Len(Append(s, byte)) = n + 1
        /\ Append(s, byte)[n + 1] = byte /\ \A i \in 1..n : Append(s, byte)[i] = s[i]
    BY <2>2
  <2>4. \A i \in 1..n : t[i] = s[i]
    BY <1>1, <1>6, <1>7, <2>1
  <2>5. t[n + 1] = byte
    BY <1>1, <1>7, <2>1
  <2> HIDE DEF s, t
  <2>6. \A i \in 1..(n + 1) : t[i] = Append(s, byte)[i]
    <3>1. \A i \in 1..(n + 1) : i \in 1..n \/ i = n + 1
      BY <1>1
    <3> QED BY <2>3, <2>4, <2>5, <3>1
  <2>7. t = Append(s, byte)
    BY <2>2, <2>3, <2>6
  <2> QED BY <2>7 DEF s, t
<1> QED BY <1>2, <1>4, <1>5, <1>6, <1>8 DEF c

LEMMA LastReplaced ==
  ASSUME NEW S, NEW s \in Seq(S), NEW x, NEW y
  PROVE  [Append(s, x) EXCEPT ![Len(s) + 1] = y] = Append(s, y)
<1> DEFINE V == S \cup {x, y}
<1>1. s \in Seq(V) /\ x \in V /\ y \in V
  OBVIOUS
<1> HIDE DEF V
<1>2. Append(s, x) \in Seq(V) /\ Append(s, y) \in Seq(V) /\ Len(s) \in Nat
  BY <1>1
<1>3. /\ DOMAIN Append(s, x) = 1..(Len(s) + 1) /\ DOMAIN Append(s, y) = 1..(Len(s) + 1)
      /\ \A i \in 1..Len(s) : Append(s, x)[i] = s[i] /\ Append(s, y)[i] = s[i]
      /\ Append(s, y)[Len(s) + 1] = y
  BY <1>1
<1>4. \A i \in 1..(Len(s) + 1) : i # Len(s) + 1 => i \in 1..Len(s)
  BY <1>2
<1> DEFINE z == [Append(s, x) EXCEPT ![Len(s) + 1] = y]
<1>5. z \in Seq(V) /\ Len(z) = Len(s) + 1
  BY <1>1, <1>2, <1>3
<1>6. \A i \in 1..(Len(s) + 1) : z[i] = Append(s, y)[i]
  BY <1>2, <1>3, <1>4
<1> HIDE DEF z
<1>7. z = Append(s, y)
  BY <1>2, <1>3, <1>5, <1>6
<1> QED BY <1>7 DEF z

LEMMA ByteAppended ==
  ASSUME NEW ring, Fresh(ring), NEW byte \in Data
  PROVE  /\ Fresh(AppendByte(ring, byte))
         /\ Unread(AppendByte(ring, byte)) = Append(Unread(ring), byte)
<1>1. ring \in Seq(Blocks) /\ Len(ring) \in Nat
  BY DEF Fresh
<1>2. CASE LastWithRoom(ring)
  <2> DEFINE n     == Len(ring)
             b     == ring[n]
             front == SubSeq(ring, 1, n - 1)
             after == AppendByte(ring, byte)
  <2>1. n \in Nat \ {0} /\ b \in Blocks /\ b.start = 0 /\ b.size # BlockSize
    BY <1>1, <1>2 DEF LastWithRoom, Last, Fresh
  <2>2. b \in [size : 0..(BlockSize - 1), start : {0}, data : Seq(Data)] /\ Len(b.data) = BlockSize
    BY <2>1, Size DEF Blocks
  <2>3. /\ front \in Seq(Blocks) /\ Len(front) = n - 1 /\ Append(front, b) = ring
        /\ \A i \in 1..(n - 1) : front[i] = ring[i]
    <3>1. \A i \in 1..(n - 1) : ring[i] \in Blocks
      BY <1>1
    <3>2. /\ front \in Seq(Blocks) /\ Len(front) = n - 1
          /\ \A i \in 1..(n - 1) : front[i] = ring[i]
      <4>1. /\ front \in Seq(Blocks) /\ Len(front) = IF 1 <= n - 1 THEN (n - 1) - 1 + 1 ELSE 0
            /\ \A i \in 1..((n - 1) - 1 + 1) : front[i] = ring[1 + i - 1]
        BY <2>1, <3>1, SubSeqProperties
      <4>2. (n - 1) - 1 + 1 = n - 1 /\ \A i \in 1..(n - 1) : 1 + i - 1 = i
        BY <2>1
      <4> HIDE DEF front, n
      <4> QED BY <2>1, <4>1, <4>2
    <3> HIDE DEF front
    <3>3. /\ Append(front, b) \in Seq(Blocks) /\ Len(Append(front, b)) = n
          /\ \A i \in 1..n : Append(front, b)[i] = ring[i]
      BY <2>1, <3>2
    <3> QED BY <1>1, <3>2, <3>3
  <2>4. after = [ring EXCEPT ![n] = WithByte(b, byte)]
    <3>1. after = [ring EXCEPT ![n].data = [i \in 1..BlockSize |-> IF i = b.size + 1 THEN byte ELSE @[i]],
                               ![n].size = b.size + 1]
      BY <1>2 DEF AppendByte, Last
    <3>2. b = [size |-> b.size, start |-> 0, data |-> b.data]
      BY <2>1 DEF Blocks
    <3> QED BY <1>1, <2>1, <3>1, <3>2 DEF WithByte
  <2>5. /\ WithByte(b, byte) \in Blocks /\ WithByte(b, byte).start = 0
        /\ Piece(WithByte(b, byte)) = Append(Piece(b), byte) /\ Piece(b) \in Seq(Data)
    BY <2>2, BlockWithByte
  <2> HIDE DEF b, after
  <2>6. after = Append(front, WithByte(b, byte))
    BY <1>1, <2>1, <2>3, <2>4, <2>5
  <2>7. Fresh(after)
    <3>1. /\ after \in Seq(Blocks) /\ Len(after) = n /\ after[n] = WithByte(b, byte)
          /\ \A i \in 1..(n - 1) : after[i] = ring[i]
      BY <1>1, <2>1, <2>4, <2>5
    <3>2. \A i \in 1..n : i \in 1..(n - 1) \/ i = n
      BY <2>1
    <3> QED BY <2>1, <2>5, <3>1, <3>2 DEF Fresh
  <2> HIDE DEF n, front
  <2>8. Unread(after) = Unread(front) \o Append(Piece(b), byte) /\ Unread(ring) = Unread(front) \o Piece(b)
    BY <2>1, <2>3, <2>5, <2>6, UnreadAppended
  <2>9. Unread(front) \in Seq(Data)
    BY <2>3, UnreadType
  <2>10. Unread(front) \o Append(Piece(b), byte) = Append(Unread(front) \o Piece(b), byte)
    BY <2>5, <2>9
  <2> QED BY <2>7, <2>8, <2>10 DEF after
<1>3. CASE ~LastWithRoom(ring)
  <2> DEFINE n     == Len(ring)
             after == AppendByte(ring, byte)
  <2>1. /\ EmptyBlock \in [size : 0..(BlockSize - 1), start : {0}, data : Seq(Data)]
        /\ Len(EmptyBlock.data) = BlockSize /\ EmptyBlock.size = 0 /\ EmptyBlock.start = 0
    <3>1. [i \in 1..BlockSize |-> Zero] \in [1..BlockSize -> Data]
      BY DEF Data
    <3>2. [i \in 1..BlockSize |-> Zero] \in Seq(Data) /\ Len([i \in 1..BlockSize |-> Zero]) = BlockSize
      BY <3>1, Size
    <3> QED BY <3>2, Size DEF EmptyBlock
  <2>2. after = Append(ring, WithByte(EmptyBlock, byte))
    <3> DEFINE longer == Append(ring, EmptyBlock)
    <3>1. Len(longer) = n + 1 /\ longer[n + 1] = EmptyBlock /\ DOMAIN longer = 1..(n + 1)
      BY <1>1
    <3>2. after = [longer EXCEPT ![n + 1].data = [i \in 1..BlockSize |-> IF i = 0 + 1 THEN byte ELSE @[i]],
                                 ![n + 1].size = 0 + 1]
      BY <1>3, <2>1, <3>1 DEF AppendByte, Last
    <3>3. EmptyBlock = [size |-> 0, start |-> 0, data |-> EmptyBlock.data]
      BY DEF EmptyBlock
    <3> HIDE DEF longer, after
    <3>4. after = [longer EXCEPT ![n + 1] = WithByte(EmptyBlock, byte)]
      BY <1>1, <2>1, <3>1, <3>2, <3>3 DEF WithByte
    <3> QED BY <1>1, <3>4, LastReplaced DEF longer
  <2>3. /\ WithByte(EmptyBlock, byte) \in Blocks /\ WithByte(EmptyBlock, byte).start = 0
        /\ Piece(WithByte(EmptyBlock, byte)) = Append(Piece(EmptyBlock), byte)
    BY <2>1, BlockWithByte
  <2>4. Piece(EmptyBlock) = <<>>
    BY <2>1 DEF Piece
  <2> HIDE DEF after
  <2>5. Unread(after) = Unread(ring) \o <<byte>>
    <3>1. Append(<<>>, byte) = <<byte>>
      OBVIOUS
    <3> QED BY <1>1, <2>2, <2>3, <2>4, <3>1, UnreadAppended
  <2>6. Fresh(after)
    <3>1. /\ after \in Seq(Blocks) /\ Len(after) = n + 1 /\ after[n + 1].start = 0
          /\ \A i \in 1..n : after[i] = ring[i]
      BY <1>1, <2>2, <2>3
    <3>2. \A i \in 1..n : ring[i].start = 0 /\ ring[i].size = BlockSize
      <4>1. n # 0 => ring[n].size = BlockSize
        BY <1>1, <1>3 DEF LastWithRoom, Last
      <4>2. \A i \in 1..n : i < n \/ i = n
        BY <1>1
      <4> QED BY <1>1, <4>1, <4>2 DEF Fresh
    <3>3. \A i \in 1..(n + 1) : i \in 1..n \/ i = n + 1
      BY <1>1
    <3> QED BY <1>1, <3>1, <3>2, <3>3 DEF Fresh
  <2>7. Unread(ring) \o <<byte>> = Append(Unread(ring), byte)
    BY <1>1, UnreadType
  <2> QED BY <2>5, <2>6, <2>7 DEF after
<1> QED BY <1>2, <1>3

\* What is appended to an empty ring is what there is to read.
LEMMA Appended ==
  ASSUME NEW data \in Seq(Data)
  PROVE  /\ Fresh(growbuffer_append(<<>>, data))
         /\ Unread(growbuffer_append(<<>>, data)) = data
<1> DEFINE n == Len(data)
           V == {r \in Seq(Blocks) : Fresh(r)}
           G == [i \in 1..n |-> [r \in V |-> AppendByte(r, data[i])]]
           Is(h) == h = [s \in SUBSET DOMAIN data |->
                      IF s = {} THEN <<>> ELSE AppendByte(h[s \ {Max(s)}], data[Max(s)])]
<1>1. growbuffer_append(<<>>, data) = (CHOOSE h : Is(h))[DOMAIN data]
  BY DEF growbuffer_append, FoldLeft, MapThenFoldSet
<1>2. n \in Nat /\ DOMAIN data = 1..n /\ \A i \in 1..n : data[i] \in Data
  OBVIOUS
<1>3. <<>> \in V
  BY DEF Fresh
<1>4. \A h : Is(h) <=> h = [s \in SUBSET (1..n) |->
                              IF s = {} THEN <<>> ELSE AppendByte(h[s \ {Max(s)}], data[Max(s)])]
  BY <1>2, Zenon
<1> HIDE DEF Is
<1>5. \E h : Is(h)
  <2>1. \A i \in 1..n, r \in V : AppendByte(r, data[i]) \in V
    <3>1. \A r : Fresh(r) => r \in V
      BY DEF Fresh
    <3>2. \A i \in 1..n, r \in V : Fresh(AppendByte(r, data[i]))
      BY <1>2, ByteAppended
    <3> QED BY <3>1, <3>2
  <2>2. G \in [1..n -> [V -> V]]
    BY <2>1
  <2> DEFINE base == <<>>
  <2>3. PICK h \in [SUBSET (1..n) -> V] : IsFold(h, n, base, G)
    <3> HIDE DEF V, G, n, base
    <3>1. base \in V
      BY <1>3 DEF base
    <3> QED BY <1>2, <2>2, <3>1, FoldsExist, Zenon
  <2> HIDE DEF V
  <2>4. ASSUME NEW s \in SUBSET (1..n)
        PROVE  h[s] = IF s = {} THEN <<>> ELSE AppendByte(h[s \ {Max(s)}], data[Max(s)])
    <3>1. h[s] = FoldStep(h, s, <<>>, G)
      BY <2>3 DEF IsFold
    <3>2. CASE s = {}
      BY <3>1, <3>2 DEF FoldStep
    <3>3. CASE s # {}
      <4>1. Max(s) \in 1..n
        BY <1>2, <3>3, MaxOfSet
      <4>2. h[s \ {Max(s)}] \in V
        BY <2>3
      <4> QED BY <3>1, <3>3, <4>1, <4>2 DEF FoldStep
    <3> QED BY <3>2, <3>3
  <2>5. h = [s \in SUBSET (1..n) |-> h[s]]
    BY <2>3
  <2>6. h = [s \in SUBSET (1..n) |->
               IF s = {} THEN <<>> ELSE AppendByte(h[s \ {Max(s)}], data[Max(s)])]
    BY <2>4, <2>5, Zenon
  <2> QED BY <1>4, <2>6
<1> DEFINE h == CHOOSE h : Is(h)
<1>6. Is(h)
  BY <1>5
<1>7. growbuffer_append(<<>>, data) = h[1..n]
  BY <1>1, <1>2
<1> HIDE DEF h
<1>8. h = [s \in SUBSET (1..n) |-> IF s = {} THEN <<>> ELSE AppendByte(h[s \ {Max(s)}], data[Max(s)])]
  BY <1>4, <1>6
<1> DEFINE S == {i \in 0..n : Fresh(h[1..i]) /\ Unread(h[1..i]) = SubSeq(data, 1, i)}
<1>9. 0 \in S
  <2>1. 1..0 = {} /\ 0 \in 0..n /\ {} \in SUBSET (1..n)
    BY <1>2
  <2>2. h[{}] = <<>>
    BY <1>8, <2>1
  <2>3. SubSeq(data, 1, 0) = <<>>
    BY <1>2
  <2>4. Fresh(<<>>)
    BY DEF Fresh
  <2> QED BY <2>1, <2>2, <2>3, <2>4, UnreadNothing
<1>10. ASSUME NEW i \in 0..(n - 1), i \in S PROVE i + 1 \in S
  <2>1. Max(1..(i + 1)) = i + 1 /\ (1..(i + 1)) \ {i + 1} = 1..i /\ 1..(i + 1) # {}
    <3>1. i \in Nat
      BY <1>2
    <3> QED BY <3>1, MaxOfInterval
  <2>2. 1..(i + 1) \in SUBSET (1..n) /\ i + 1 \in 0..n /\ i + 1 \in 1..n
    BY <1>2
  <2>3. h[1..(i + 1)] = AppendByte(h[(1..(i + 1)) \ {Max(1..(i + 1))}], data[Max(1..(i + 1))])
    BY <1>8, <2>1, <2>2
  <2>4. h[1..(i + 1)] = AppendByte(h[1..i], data[i + 1])
    BY <2>1, <2>3
  <2>5. Fresh(h[1..i]) /\ Unread(h[1..i]) = SubSeq(data, 1, i)
    BY <1>10
  <2>6. /\ Fresh(h[1..(i + 1)])
        /\ Unread(h[1..(i + 1)]) = Append(SubSeq(data, 1, i), data[i + 1])
    BY <1>2, <2>2, <2>4, <2>5, ByteAppended
  <2>7. Append(SubSeq(data, 1, i), data[i + 1]) = SubSeq(data, 1, i + 1)
    <3>1. i \in Nat /\ i + 1 <= Len(data)
      BY <1>2
    <3> QED BY <3>1
  <2> QED BY <2>2, <2>6, <2>7
<1> HIDE DEF S
<1>11. n \in S
  <2>1. \A i \in 0..n : i \in S
    <3> HIDE DEF n
    <3> QED BY <1>2, <1>9, <1>10, InductionTo
  <2> QED BY <1>2, <2>1
<1>12. SubSeq(data, 1, n) = data
  BY <1>2
<1> QED BY <1>7, <1>11, <1>12 DEF S

LEMMA MinOfTwo ==
  ASSUME NEW a \in Nat, NEW b \in Nat
  PROVE  Min({a, b}) = IF a <= b THEN a ELSE b
<1>1. \A x \in {a, b} : (\A y \in {a, b} : x <= y) => x = IF a <= b THEN a ELSE b
  OBVIOUS
<1>2. \E x \in {a, b} : \A y \in {a, b} : x <= y
  BY SMT
<1> QED BY <1>1, <1>2 DEF Min

\* growbuffer_read takes bytes from the front and leaves the rest.
LEMMA ReadLeaves ==
  ASSUME NEW ring, WellFormed(ring), ring # <<>>, NEW amt \in Nat \ {0}
  PROVE  /\ WellFormed(growbuffer_read(ring, amt))
         /\ Unread(ring) = Taken(ring, amt) \o Unread(growbuffer_read(ring, amt))
         /\ Taken(ring, amt) \in Seq(Data)
<1> DEFINE first == Head(ring)
           n     == Min({first.size, amt})
           after == growbuffer_read(ring, amt)
           taken == Taken(ring, amt)
<1>1. /\ ring \in Seq(Blocks) /\ Len(ring) \in Nat \ {0} /\ first = ring[1] /\ first \in Blocks
      /\ Tail(ring) \in Seq(Blocks) /\ Len(Tail(ring)) = Len(ring) - 1
      /\ \A i \in 1..(Len(ring) - 1) : Tail(ring)[i] = ring[i + 1]
  BY DEF WellFormed
<1>2. /\ first.size \in 1..BlockSize /\ first.start \in 0..(BlockSize - 1) /\ first.data \in Seq(Data)
      /\ first.start + first.size <= BlockSize /\ Len(first.data) = BlockSize
      /\ first.size \in Nat /\ first.size >= 1
  BY <1>1, Size DEF Blocks
<1>3. n = IF first.size <= amt THEN first.size ELSE amt
  BY <1>2, MinOfTwo
<1>4. n \in 1..BlockSize /\ n <= first.size
  BY <1>2, <1>3, Size
<1>5. taken = SubSeq(first.data, first.start + 1, first.start + n)
  BY DEF Taken
<1> HIDE DEF n, first, taken
<1>6. taken \in Seq(Data) /\ Len(taken) = n
  <2>1. \A i \in (first.start + 1)..(first.start + n) : i \in 1..Len(first.data)
    BY <1>2, <1>4, Size
  <2>2. \A i \in (first.start + 1)..(first.start + n) : first.data[i] \in Data
    BY <1>2, <2>1
  <2>3. taken \in Seq(Data) /\ Len(taken) = n
    <3>1. first.start + 1 \in Int /\ first.start + n \in Int
      BY <1>2, <1>4, Size
    <3> DEFINE d == first.data
               m == first.start + 1
               k == first.start + n
    <3>2. taken = SubSeq(d, m, k) /\ m \in Int /\ k \in Int /\ \A i \in m..k : d[i] \in Data
      BY <1>5, <2>2, <3>1
    <3> HIDE DEF d, m, k
    <3>3. taken \in Seq(Data) /\ Len(taken) = IF m <= k THEN k - m + 1 ELSE 0
      BY <3>2, SubSeqProperties
    <3>4. m <= k /\ k - m + 1 = n
      BY <1>2, <1>4, Size DEF m, k
    <3> QED BY <3>3, <3>4
  <2> QED BY <2>3
<1>7. CASE n = first.size
  <2>1. after = Tail(ring)
    BY <1>6, <1>7 DEF growbuffer_read, taken, first
  <2>2. WellFormed(after)
    <3>1. ASSUME NEW i \in 1..(Len(ring) - 1)
          PROVE  i + 1 \in 1..Len(ring) /\ i + 1 # 1 /\ (i + 1 = Len(ring) => i = Len(ring) - 1)
      <4>1. Len(ring) \in Nat
        BY <1>1
      <4> QED BY <4>1
    <3>2. \A i \in 1..Len(ring) : /\ ring[i].start > 0 => i = 1
                                  /\ ring[i].start + ring[i].size < BlockSize => i = Len(ring)
      BY DEF WellFormed
    <3> HIDE DEF after
    <3> QED BY <1>1, <2>1, <3>1, <3>2 DEF WellFormed
  <2>3. taken = Piece(ring[1])
    BY <1>1, <1>5, <1>7 DEF Piece
  <2>4. Unread(ring) = Piece(Head(ring)) \o Unread(Tail(ring))
    BY <1>1, UnreadFront
  <2> QED BY <1>1, <1>6, <2>1, <2>2, <2>3, <2>4 DEF taken, first
<1>8. CASE n # first.size
  <2> DEFINE b == [size |-> first.size - n, start |-> first.start + n, data |-> first.data]
  <2>1. after = [ring EXCEPT ![1].size = @ - n, ![1].start = @ + n]
    BY <1>6, <1>8 DEF growbuffer_read, taken, first
  <2>2. first = [size |-> first.size, start |-> first.start, data |-> first.data]
    BY <1>1 DEF Blocks
  <2>3. after = [ring EXCEPT ![1] = b]
    BY <1>1, <2>1, <2>2
  <2>4. b \in Blocks
    <3>1. b.size \in 1..BlockSize /\ b.start \in 0..(BlockSize - 1) /\ b.start + b.size <= BlockSize
      BY <1>2, <1>4, <1>8, Size
    <3> QED BY <1>2, <3>1 DEF Blocks
  <2> HIDE DEF b, after
  <2>5. /\ after \in Seq(Blocks) /\ Len(after) = Len(ring) /\ after[1] = b
        /\ \A i \in 1..Len(ring) : i # 1 => after[i] = ring[i]
    BY <1>1, <2>3, <2>4
  <2>6. after # <<>> /\ Head(after) = b /\ Tail(after) = Tail(ring)
    BY <1>1, <2>5
  <2>7. b.start + b.size = first.start + first.size
    BY <1>2, <1>4 DEF b
  <2>8. WellFormed(after)
    <3>1. \A i \in 1..Len(ring) : /\ ring[i].start > 0 => i = 1
                                  /\ ring[i].start + ring[i].size < BlockSize => i = Len(ring)
      BY DEF WellFormed
    <3>2. 1 \in 1..Len(ring)
      BY <1>1
    <3> QED BY <1>1, <2>5, <2>7, <3>1, <3>2 DEF WellFormed
  <2>9. Piece(first) = taken \o Piece(b)
    <3> DEFINE d == first.data
               m == first.start + 1
               k == first.start + n
               e == first.start + first.size
    <3>1. d \in Seq(Data) /\ m \in 1..(Len(d) + 1) /\ k \in (m - 1)..Len(d) /\ e \in k..Len(d)
      BY <1>2, <1>4, Size
    <3>2. Piece(b) = SubSeq(d, k + 1, e)
      BY <2>7 DEF Piece, b
    <3>3. Piece(first) = SubSeq(d, m, e) /\ taken = SubSeq(d, m, k)
      BY <1>5 DEF Piece
    <3> HIDE DEF d, m, k, e
    <3>4. SubSeq(d, m, k) \o SubSeq(d, k + 1, e) = SubSeq(d, m, e)
      BY <3>1, ConcatAdjacentSubSeq
    <3> QED BY <3>2, <3>3, <3>4
  <2>10. /\ Unread(ring) = Piece(first) \o Unread(Tail(ring))
         /\ Unread(after) = Piece(b) \o Unread(Tail(ring))
    BY <1>1, <2>5, <2>6, UnreadFront DEF first
  <2>11. taken \o (Piece(b) \o Unread(Tail(ring))) = (taken \o Piece(b)) \o Unread(Tail(ring))
    BY <1>1, <1>6, <2>4, PieceType, UnreadType, Associative
  <2> QED BY <1>6, <2>8, <2>9, <2>10, <2>11 DEF after, taken
<1> QED BY <1>7, <1>8

(***************************************************************************)
(* The growbuffer of a put.                                                 *)
(***************************************************************************)
\* While there is a growbuffer a put runs, and the growbuffer has the part of
\* its input that was not handed over.
HoldsRest(ring, c) ==
  /\ c \in PutCommands
  /\ c.at <= Len(c.input) /\ c.contentLength = Len(c.input) - c.at
  /\ WellFormed(ring)
  /\ Unread(ring) = SubSeq(c.input, c.at + 1, Len(c.input))

BufferInv == gb # None => running /\ HoldsRest(gb, cmd)

LEMMA Inputs ==
  ASSUME NEW c \in PutCommands
  PROVE  /\ c.input \in Seq(Bytes) /\ c.input \in Seq(Data) /\ Len(c.input) \in Nat
         /\ c.at \in Nat /\ c.contentLength \in Nat /\ c.proc = "put"
<1>1. c.input \in Files /\ c.at \in Nat /\ c.contentLength \in Nat /\ c.proc = "put"
  BY DEF PutCommands
<1>2. c.input \in Seq(Bytes)
  BY <1>1, S3ClientAssumption
<1>3. c.input \in Seq(Data)
  BY <1>2 DEF Data
<1> QED BY <1>1, <1>2, <1>3

\* A command that begins is a put of all its input only if it says so.
LEMMA PutStarts ==
  ASSUME Begins
  PROVE  /\ running'
         /\ cmd'.proc = "put" =>
              cmd' \in PutCommands /\ cmd'.at = 0 /\ cmd'.contentLength = cmd'.originalContentLength
<1>1. ASSUME NEW key \in Keys, NEW properties \in Properties, NEW input \in Files,
             NEW given \in 0..(Len(input) + 1), PutBegins(key, properties, input, given)
      PROVE  /\ running' /\ cmd' \in PutCommands /\ cmd'.at = 0
             /\ cmd'.contentLength = cmd'.originalContentLength
  <2>1. input \in Seq(Bytes) /\ Len(input) \in Nat
    BY S3ClientAssumption
  <2>2. PutLength(input, given) \in Nat
    BY <2>1 DEF PutLength
  <2>3. <<>> \in Seq(Bytes)
    OBVIOUS
  <2> QED BY <1>1, <2>2, <2>3 DEF PutBegins, Starts, PutCommands
<1>2. ASSUME NEW c, Starts(c), c.proc # "put"
      PROVE  running' /\ cmd'.proc # "put"
  BY <1>2 DEF Starts
<1>3. ASSUME NEW key \in Keys, NEW startByte \in 0..1, NEW byteCount \in 0..1,
             GetBegins(key, startByte, byteCount)
      PROVE  running' /\ cmd'.proc # "put"
  BY <1>3 DEF GetBegins, Starts
<1>4. ASSUME NEW key \in Keys, DeleteBegins(key) \/ HeadBegins(key)
      PROVE  running' /\ cmd'.proc # "put"
  BY <1>4 DEF DeleteBegins, HeadBegins, Starts
<1>5. ASSUME NEW key \in Keys, NEW from \in Keys, NEW properties \in Properties \cup {None},
             CopyBegins(from, key, properties)
      PROVE  running' /\ cmd'.proc # "put"
  BY <1>5 DEF CopyBegins, Starts
<1>6. CASE TestBegins \/ CreateBegins \/ RemoveBegins \/ ServiceBegins
  BY <1>6 DEF TestBegins, CreateBegins, RemoveBegins, ServiceBegins, Starts
<1>7. ASSUME NEW maxkeys \in 0..MaxKeys, NEW marker \in Keys \cup {NullMarker},
             ListBegins(maxkeys, marker)
      PROVE  running' /\ cmd'.proc # "put"
  BY <1>7 DEF ListBegins, Starts
<1> QED BY <1>1, <1>3, <1>4, <1>5, <1>6, <1>7 DEF Begins

\* A growbuffer is filled with all of the input.
LEMMA BufferFilled ==
  ASSUME Begins, gb' \in Buffered(cmd')
  PROVE  BufferInv'
<1> SUFFICES ASSUME gb' # None PROVE running' /\ HoldsRest(gb', cmd')
  BY DEF BufferInv
<1>1. /\ cmd'.proc = "put" /\ cmd'.originalContentLength = Len(cmd'.input)
      /\ gb' = growbuffer_append(<<>>, cmd'.input)
  BY DEF Buffered
<1>2. running' /\ cmd' \in PutCommands /\ cmd'.at = 0 /\ cmd'.contentLength = Len(cmd'.input)
  BY <1>1, PutStarts
<1>3. cmd'.input \in Seq(Data) /\ Len(cmd'.input) \in Nat
  BY <1>2, Inputs
<1>4. WellFormed(gb') /\ Unread(gb') = cmd'.input
  BY <1>1, <1>3, Appended, FreshIsWellFormed
<1>5. SubSeq(cmd'.input, cmd'.at + 1, Len(cmd'.input)) = cmd'.input
  <2>1. cmd'.at + 1 = 1
    BY <1>2
  <2> QED BY <1>3, <2>1
<1> QED BY <1>2, <1>3, <1>4, <1>5 DEF HoldsRest

\* What the callback hands over comes from the front of the growbuffer.
LEMMA BufferRead ==
  ASSUME NEW ring, NEW c, HoldsRest(ring, c), NEW n \in Nat \ {0}, n <= c.contentLength,
         n = Len(Taken(ring, n)),
         NEW d \in PutCommands, d.input = c.input, d.at = c.at + n,
         d.contentLength = c.contentLength - n
  PROVE  HoldsRest(growbuffer_read(ring, n), d)
<1> DEFINE input == c.input
           at    == c.at
           rest  == SubSeq(input, at + 1, Len(input))
           after == growbuffer_read(ring, n)
<1>1. /\ input \in Seq(Data) /\ Len(input) \in Nat /\ at \in Nat /\ c.contentLength = Len(input) - at
      /\ WellFormed(ring) /\ ring \in Seq(Blocks) /\ Unread(ring) = rest
  BY Inputs DEF HoldsRest, WellFormed
<1>2. at + n <= Len(input)
  BY <1>1
<1> HIDE DEF input, at
<1>3. rest \in Seq(Data) /\ Len(rest) = Len(input) - at
      /\ SubSeq(rest, n + 1, Len(rest)) = SubSeq(input, at + n + 1, Len(input))
  BY <1>1, <1>2
<1>4. ring # <<>>
  BY <1>1, <1>2, <1>3, UnreadNothing
<1>5. /\ WellFormed(after) /\ rest = Taken(ring, n) \o Unread(after)
      /\ Taken(ring, n) \in Seq(Data)
  BY <1>1, <1>4, ReadLeaves
<1>6. Unread(after) \in Seq(Data)
  BY <1>5, UnreadType DEF WellFormed
<1> HIDE DEF rest, after
<1>7. Unread(after) = SubSeq(rest, n + 1, Len(rest))
  <2> DEFINE t == Taken(ring, n)
             u == Unread(after)
  <2>1. t \in Seq(Data) /\ u \in Seq(Data) /\ Len(t) = n /\ rest = t \o u
    BY <1>5, <1>6
  <2> HIDE DEF t, u
  <2>2. u = SubSeq(t \o u, n + 1, Len(t \o u))
    BY <2>1
  <2> QED BY <2>1, <2>2 DEF t, u
<1>8. Unread(after) = SubSeq(d.input, d.at + 1, Len(d.input))
  BY <1>3, <1>7 DEF input, at
<1>9. d.at <= Len(d.input) /\ d.contentLength = Len(d.input) - d.at
  BY <1>1, <1>2 DEF input, at
<1> QED BY <1>5, <1>8, <1>9 DEF HoldsRest, after

\* What a put can do while it runs.
LEMMA PutGoesOn ==
  ASSUME running, NEW c, cmd = c, c \in PutCommands, GoesOn
  PROVE  \/ \E n \in Nat \ {0} :
              /\ n <= c.contentLength /\ running'
              /\ cmd' \in PutCommands /\ cmd'.input = c.input /\ cmd'.at = c.at + n
              /\ cmd'.contentLength = c.contentLength - n
         \/ running' /\ cmd' \in PutCommands /\ cmd'.input = c.input /\ cmd'.at = c.at
                     /\ cmd'.contentLength = c.contentLength
         \/ ~running' /\ cmd' = c
<1>1. c.proc = "put" /\ Runs("put")
  BY Inputs DEF Runs
<1>2. \A proc : proc # "put" => ~Runs(proc)
  BY <1>1 DEF Runs
<1>3. ASSUME NEW n \in 1..BufferSize, PutSends(n)
      PROVE  /\ n \in Nat \ {0} /\ n <= c.contentLength /\ running'
             /\ cmd' \in PutCommands /\ cmd'.input = c.input /\ cmd'.at = c.at + n
             /\ cmd'.contentLength = c.contentLength - n
  <2>1. n \in Nat \ {0} /\ n <= c.contentLength /\ n <= Len(c.input) - c.at
    BY <1>3, S3ClientAssumption DEF PutSends
  <2>2. /\ c.input \in Seq(Bytes) /\ Len(c.input) \in Nat /\ c.at \in Nat /\ c.contentLength \in Nat
        /\ c.sent \in Seq(Bytes)
    BY Inputs DEF PutCommands
  <2>3. Read(n) \in Seq(Bytes)
    <3>1. Read(n) = SubSeq(c.input, c.at + 1, c.at + n)
      BY DEF Read
    <3>2. \A i \in (c.at + 1)..(c.at + n) : i \in 1..Len(c.input)
      BY <2>1, <2>2
    <3>3. \A i \in (c.at + 1)..(c.at + n) : c.input[i] \in Bytes
      BY <2>2, <3>2
    <3> QED BY <2>1, <2>2, <3>1, <3>3, SubSeqProperties
  <2>4. /\ cmd' = [c EXCEPT !.contentLength = @ - n, !.at = @ + n, !.sent = @ \o Read(n)]
        /\ running'
    BY <1>3 DEF PutSends, Continues
  <2>5. c.contentLength - n \in Nat /\ c.at + n \in Nat /\ c.sent \o Read(n) \in Seq(Bytes)
    BY <2>1, <2>2, <2>3
  <2> QED BY <2>1, <2>4, <2>5 DEF PutCommands
<1>4. CASE PutServes
  BY <1>4 DEF PutServes, Continues, Answered, PutCommands
<1>5. CASE Succeeds
  BY <1>5 DEF Succeeds, Ends
<1>6. CASE Fails
  <2>1. PICK status \in {"ConnectionFailed", "Error"} : Retries(status, Again(c)) \/ Ends(status, c)
    BY <1>6 DEF Fails
  <2>2. CASE Ends(status, c)
    BY <2>2 DEF Ends
  <2>3. CASE Retries(status, Again(c))
    <3>1. Again(c) = [c EXCEPT !.sent = <<>>, !.served = FALSE]
      BY <1>1 DEF Again
    <3>2. <<>> \in Seq(Bytes)
      OBVIOUS
    <3>3. cmd' = [c EXCEPT !.sent = <<>>, !.served = FALSE] /\ running'
      BY <2>3, <3>1 DEF Retries
    <3> QED BY <3>2, <3>3 DEF PutCommands
  <2> QED BY <2>1, <2>2, <2>3
<1>7. ~(\E n \in 1..BufferSize : \E wrote \in 0..BufferSize : GetReceives(n, wrote))
  BY <1>2 DEF GetReceives
<1>8. ~(GetServes \/ DeleteServes \/ CopyServes \/ HeadServes \/ TestServes)
  BY <1>2 DEF GetServes, DeleteServes, CopyServes, HeadServes, TestServes, Serving
<1>9. ~(CreateServes \/ RemoveServes \/ ListServes \/ ListNextPage \/ ListEnds)
  BY <1>2 DEF CreateServes, RemoveServes, ListServes, ListNextPage, ListEnds, Serving
<1>10. ~(ServiceServes \/ ServiceEnds \/ (\E n \in 1..PageSize : ListCallback(n)))
  BY <1>2 DEF ServiceServes, ServiceEnds, ListCallback
<1> QED BY <1>3, <1>4, <1>5, <1>6, <1>7, <1>8, <1>9, <1>10 DEF GoesOn

LEMMA BufferInit == ProgramInit => BufferInv
BY DEF ProgramInit, BufferInv

LEMMA BufferStep ==
  ASSUME BufferInv, [ProgramNext]_programVars
  PROVE  BufferInv'
<1>1. CASE ObjectsBegin
  BY <1>1, BufferFilled DEF ObjectsBegin
<1>2. CASE ObjectsGoOn
  <2>1. CASE gb = None
    BY <1>2, <2>1 DEF ObjectsGoOn, BufferInv
  <2>2. CASE gb # None
    <3> SUFFICES ASSUME gb' # None PROVE running' /\ HoldsRest(gb', cmd')
      BY DEF BufferInv
    <3>1. running /\ HoldsRest(gb, cmd) /\ cmd \in PutCommands
      BY <2>2 DEF BufferInv, HoldsRest
    <3>2. Runs("put") /\ cmd.at \in Nat
      BY <3>1, Inputs DEF Runs
    <3>3. Handed = cmd'.at - cmd.at
      BY <3>2 DEF Handed
    <3>4. GoesOn
      BY <1>2 DEF ObjectsGoOn
    <3>5. CASE ~running'
      <4>1. Handed # 0 /\ Handed = Len(Taken(gb, Handed)) /\ gb' = growbuffer_read(gb, Handed)
        BY <1>2, <2>2, <3>5 DEF ObjectsGoOn
      <4>2. cmd' = cmd
        BY <3>1, <3>4, <3>5, PutGoesOn
      <4> QED BY <3>2, <3>3, <4>1, <4>2
    <3>6. ASSUME NEW n \in Nat \ {0}, n <= cmd.contentLength, running',
                 cmd' \in PutCommands, cmd'.input = cmd.input, cmd'.at = cmd.at + n,
                 cmd'.contentLength = cmd.contentLength - n
          PROVE  HoldsRest(gb', cmd')
      <4>1. Handed = n
        BY <3>2, <3>3, <3>6
      <4>2. n = Len(Taken(gb, n)) /\ gb' = growbuffer_read(gb, n)
        BY <1>2, <2>2, <4>1 DEF ObjectsGoOn
      <4> QED BY <3>1, <3>6, <4>2, BufferRead
    <3>7. ASSUME running', cmd' \in PutCommands, cmd'.input = cmd.input, cmd'.at = cmd.at,
                 cmd'.contentLength = cmd.contentLength
          PROVE  HoldsRest(gb', cmd')
      <4>1. Handed = 0
        BY <3>2, <3>3, <3>7
      <4>2. gb' = gb
        BY <1>2, <3>7, <4>1 DEF ObjectsGoOn
      <4> QED BY <3>1, <3>7, <4>2 DEF HoldsRest
    <3> QED BY <3>1, <3>4, <3>5, <3>6, <3>7, PutGoesOn
  <2> QED BY <2>1, <2>2
<1>3. CASE ListsBegin
  <2>1. ~running /\ gb' = gb
    BY <1>3 DEF ListsBegin, AclBegins, get_acl, get_logging, set_acl, set_logging, Gets, Sets, Starts
  <2> QED BY <2>1 DEF BufferInv
<1>4. CASE ListsGoOn
  <2>1. gb' = gb /\ (Runs("getacl") \/ Runs("setacl"))
    BY <1>4 DEF ListsGoOn, AclGoesOn, GetAclServes, GetAclEnds, SetAclRefused, SetAclServes,
                SetAclEnds, AclFails
  <2>2. gb = None
    <3> SUFFICES ASSUME gb # None PROVE FALSE
      OBVIOUS
    <3>1. cmd.proc = "put"
      BY Inputs DEF BufferInv, HoldsRest
    <3> QED BY <2>1, <3>1 DEF Runs
  <2> QED BY <2>1, <2>2 DEF BufferInv
<1>5. CASE Environment
  <2>1. gb' = gb /\ running' = running
    BY <1>5 DEF Environment, Others, OthersChange, AclOthers, OthersGrant, UserRemoves, requestVars
  <2>2. gb # None => cmd' = cmd
    <3> SUFFICES ASSUME gb # None PROVE cmd' = cmd
      OBVIOUS
    <3>1. cmd.proc = "put"
      BY Inputs DEF BufferInv, HoldsRest
    <3> QED BY <1>5, <3>1 DEF Environment, Others, OthersChange, Runs, AclOthers, OthersGrant,
                              UserRemoves, requestVars
  <2> QED BY <2>1, <2>2 DEF BufferInv
<1>6. CASE UNCHANGED programVars
  BY <1>6 DEF programVars, vars, requestVars, BufferInv
<1> QED BY <1>1, <1>2, <1>3, <1>4, <1>5, <1>6 DEF ProgramNext

\* However input, blocks and the buffers of libs3 fall on each other, and
\* however often the request is made again, the growbuffer of a put has what
\* was not handed over yet, and is empty when nothing is left to send
\* (growbuffer_append, growbuffer_read, putObjectDataCallback): for blocks of
\* any size, any input and any pieces.
THEOREM GrowbuffersHoldRest == ProgramSpec => []GrowbufferHoldsRest
<1>1. BufferInv => GrowbufferHoldsRest
  <2> SUFFICES ASSUME BufferInv, gb # None
               PROVE  /\ Unread(gb) = SubSeq(cmd.input, cmd.at + 1, Len(cmd.input))
                      /\ gb = <<>> <=> cmd.contentLength = 0
    BY DEF GrowbufferHoldsRest
  <2>1. HoldsRest(gb, cmd) /\ cmd \in PutCommands /\ gb \in Seq(Blocks)
    BY DEF BufferInv, HoldsRest, WellFormed
  <2>2. /\ cmd.input \in Seq(Data) /\ Len(cmd.input) \in Nat /\ cmd.at \in Nat
        /\ cmd.at <= Len(cmd.input) /\ cmd.contentLength = Len(cmd.input) - cmd.at
        /\ Unread(gb) = SubSeq(cmd.input, cmd.at + 1, Len(cmd.input))
    BY <2>1, Inputs DEF HoldsRest
  <2>3. Len(Unread(gb)) = Len(cmd.input) - cmd.at /\ Unread(gb) \in Seq(Data)
    BY <2>2
  <2>4. Unread(gb) = <<>> <=> Len(cmd.input) - cmd.at = 0
    BY <2>3
  <2> QED BY <2>1, <2>2, <2>4, UnreadSomething
<1>2. ProgramSpec => []BufferInv
  BY BufferInit, BufferStep, PTL DEF ProgramSpec
<1> QED BY <1>1, <1>2, PTL

(***************************************************************************)
(* What the commands about objects promise, in the whole program.           *)
(***************************************************************************)
\* A command about lists that begins or goes on, as far as the bucket sees it.
LEMMA ListCommandsLook ==
  ASSUME StoreInv, AclBegins \/ AclGoesOn, UNCHANGED clientVars
  PROVE  StoreStep
<1> USE DEF StoreStep, Store!StoreNext, Fields, CommandOK
<1>1. UNCHANGED <<bucket, changes>>
  BY DEF clientVars
<1>2. ASSUME NEW l, Gets(l) PROVE StoreStep
  BY <1>1, <1>2, StartStep DEF Gets
<1>3. ASSUME NEW l, Sets(l) PROVE StoreStep
  BY <1>1, <1>3, StartStep DEF Sets
<1>4. CASE set_logging
  <2>1. ASSUME Starts([proc |-> "setacl", list |-> "logging", sent |-> None, shown |-> None,
                       refused |-> FALSE, served |-> FALSE, done |-> FALSE])
        PROVE  StoreStep
    BY <1>1, <2>1, StartStep
  <2> QED BY <1>3, <1>4, <2>1 DEF set_logging
<1>5. ASSUME running PROVE CommandOK(cmd)
  BY <1>5 DEF StoreInv
<1>6. CASE GetAclServes
  <2>1. running /\ cmd.proc = "getacl" /\ CommandOK(cmd)
    BY <1>5, <1>6 DEF GetAclServes, Runs
  <2> DEFINE c == [Answered(cmd) EXCEPT !.got = granted[cmd.list]]
  <2>2. Stays(c)
    BY <1>6, <2>1 DEF GetAclServes, Continues, Stays
  <2>3. CommandOK(c) /\ c.done /\ c.proc = "getacl"
    BY <2>1 DEF Answered
  <2> HIDE DEF c
  <2> QED BY <1>1, <2>1, <2>2, <2>3, LookStep
<1>7. CASE SetAclServes
  <2>1. running /\ cmd.proc = "setacl" /\ CommandOK(cmd)
    BY <1>5, <1>7 DEF SetAclServes, Runs
  <2> DEFINE c == Answered(cmd)
  <2>2. Stays(c)
    BY <1>7, <2>1 DEF SetAclServes, Continues, Stays
  <2>3. CommandOK(c) /\ c.done /\ c.proc = "setacl"
    BY <2>1 DEF Answered
  <2> HIDE DEF c
  <2> QED BY <1>1, <2>1, <2>2, <2>3, LookStep
<1>8. CASE GetAclEnds \/ SetAclEnds \/ SetAclRefused
  <2>1. running /\ CommandOK(cmd)
    BY <1>5, <1>8 DEF GetAclEnds, SetAclEnds, SetAclRefused, Runs
  <2>2. \E status : Ends(status, cmd) /\ (status = "OK" => cmd.done)
    <3>1. (Ends("OK", cmd) /\ cmd.served) \/ Ends("Error", cmd)
      BY <1>8 DEF GetAclEnds, SetAclEnds, SetAclRefused
    <3> QED BY <2>1, <3>1
  <2> QED BY <1>1, <2>1, <2>2, EndStep
<1>9. CASE AclFails
  <2>1. running /\ cmd.proc \in {"getacl", "setacl"} /\ CommandOK(cmd)
    BY <1>5, <1>9 DEF AclFails, Runs
  <2> DEFINE c == [cmd EXCEPT !.served = FALSE]
  <2>2. PICK status \in {"ConnectionFailed", "Error"} : Retries(status, c) \/ Ends(status, cmd)
    BY <1>9 DEF AclFails
  <2>3. CommandOK(c) /\ c.done = cmd.done /\ c.proc = cmd.proc
    BY <2>1
  <2>4. CASE Retries(status, c)
    <3>1. Stays(c)
      BY <2>1, <2>4 DEF Retries, Stays
    <3> HIDE DEF c
    <3> QED BY <1>1, <2>1, <2>3, <3>1, LookStep
  <2>5. CASE Ends(status, cmd)
    BY <1>1, <2>1, <2>2, <2>5, EndStep
  <2> QED BY <2>2, <2>4, <2>5
<1> QED BY <1>2, <1>3, <1>4, <1>6, <1>7, <1>8, <1>9 DEF AclBegins, AclGoesOn, get_acl, get_logging, set_acl

\* It stays a command about lists.
LEMMA ListCommandsKept ==
  ASSUME StoreInv, AclBegins \/ AclGoesOn
  PROVE  /\ commands' > 0 /\ cmd'.proc \in {"getacl", "setacl"}
         /\ \/ retriesG' \in 0..MaxRetries
            \/ retriesG' \in {retriesG, retriesG - 1}
<1>1. CASE AclBegins
  <2>1. /\ commands' = commands + 1 /\ cmd'.proc \in {"getacl", "setacl"} /\ retriesG' \in 0..MaxRetries
    BY <1>1 DEF AclBegins, get_acl, get_logging, set_acl, set_logging, Gets, Sets, Starts
  <2> QED BY <2>1 DEF StoreInv
<1>2. CASE AclGoesOn
  <2>1. running /\ cmd.proc \in {"getacl", "setacl"}
    BY <1>2 DEF AclGoesOn, GetAclServes, GetAclEnds, SetAclRefused, SetAclServes, SetAclEnds, AclFails, Runs
  <2>2. commands > 0 /\ "proc" \in DOMAIN cmd
    BY <2>1 DEF StoreInv, CommandOK, Fields
  <2> USE DEF Continues, Ends, Retries, Answered
  <2>3. CASE GetAclServes \/ SetAclServes
    BY <2>1, <2>2, <2>3 DEF GetAclServes, SetAclServes
  <2>4. CASE GetAclEnds \/ SetAclEnds \/ SetAclRefused
    BY <2>1, <2>2, <2>4 DEF GetAclEnds, SetAclEnds, SetAclRefused
  <2>5. CASE AclFails
    BY <2>1, <2>2, <2>5 DEF AclFails
  <2> HIDE DEF Continues, Ends, Retries, Answered
  <2> QED BY <1>2, <2>3, <2>4, <2>5 DEF AclGoesOn
<1> QED BY <1>1, <1>2

\* A step of the program is one of S3Client, or one of a command about lists.
LEMMA ProgramSteps ==
  ASSUME [ProgramNext]_programVars
  PROVE  [Next]_vars \/ ((AclBegins \/ AclGoesOn) /\ UNCHANGED clientVars)
BY DEF ProgramNext, programVars, ObjectsBegin, ObjectsGoOn, ListsBegin, ListsGoOn, Environment,
       Next, vars, AclOthers, OthersGrant, UserRemoves

ObjectsInv == StoreInv /\ GetInv /\ ListInv

\* What S3ClientProofs needs to know holds at first,
LEMMA ObjectsInit == ProgramInit => ObjectsInv /\ Store!StoreInit
BY InitHolds, GetInit, ListInit DEF ProgramInit, ObjectsInv

\* and every step of the program keeps it.
LEMMA ObjectsStep ==
  ASSUME ObjectsInv, [ProgramNext]_programVars
  PROVE  ObjectsInv' /\ [Store!StoreNext]_(Store!storeVars)
<1> USE DEF ObjectsInv
<1>1. CASE [Next]_vars
  BY <1>1, NextStep, GetNext, ListNext DEF StoreStep
<1>2. CASE (AclBegins \/ AclGoesOn) /\ UNCHANGED clientVars
  <2>1. StoreInv' /\ [Store!StoreNext]_(Store!storeVars)
    BY <1>2, ListCommandsLook DEF StoreStep
  <2>2. /\ commands' > 0 /\ cmd'.proc \notin {"get", "list"} /\ out' = out
        /\ \/ retriesG' \in 0..MaxRetries
            \/ retriesG' \in {retriesG, retriesG - 1}
    BY <1>2, ListCommandsKept DEF clientVars
  <2>3. GetInv'
    BY <2>2 DEF GetInv
  <2>4. retriesG' \in Int /\ Used' \in Nat
    <3>1. retriesG \in Int /\ MaxRetries - retriesG \in Nat
      BY DEF ListInv, Used
    <3>2. ASSUME NEW r, r \in 0..MaxRetries \/ r \in {retriesG, retriesG - 1}
          PROVE  r \in Int /\ MaxRetries - r \in Nat
      BY <3>1, <3>2, S3RequestsAssumption
    <3>3. retriesG' \in Int /\ MaxRetries - retriesG' \in Nat
      BY <2>2, <3>2
    <3> QED BY <3>3 DEF Used
  <2>5. ListInv'
    BY <2>2, <2>4 DEF ListInv
  <2> QED BY <2>1, <2>3, <2>5
<1> QED BY <1>1, <1>2, ProgramSteps

LEMMA ObjectsHold == ProgramSpec => []ObjectsInv
<1>1. ProgramInit => ObjectsInv
  BY ObjectsInit
<1>2. ObjectsInv /\ [ProgramNext]_programVars => ObjectsInv'
  BY ObjectsStep
<1> QED BY <1>1, <1>2, PTL DEF ProgramSpec

\* In the whole tool, whose commands about objects and about lists follow each other
\* in any order (no bound but MixedEdits keeps them apart, and it may be MaxEdits), an
\* object only becomes what a command announced or what others make of it, and a
\* command that ends with OK was carried out by the server. Commands about lists
\* share statusG and the retries with the others (should_retry); one that begins behind
\* a put whose answer was lost, or makes its request again, changes no object.
THEOREM ProgramImplementsStore == ProgramSpec => ImplementsObjectStore
<1>1. ProgramInit => ObjectsInv /\ Store!StoreInit
  BY ObjectsInit
<1>2. ObjectsInv /\ [ProgramNext]_programVars => ObjectsInv' /\ [Store!StoreNext]_(Store!storeVars)
  BY ObjectsStep
<1> QED BY <1>1, <1>2, PTL DEF ProgramSpec, ImplementsObjectStore, Store!StoreSpec

\* In the whole tool, with commands of both kinds in any order, a get that ends well
\* has the object in its file, behind what failed requests had left there, and a
\* listing prints every key that stayed, in order and once, and not many more than it
\* was asked for: for any keys, files, pages and pieces (getObjectDataCallback,
\* listBucketCallback, list_bucket).
THEOREM ProgramDelivers == ProgramSpec => [](GetDelivers /\ ListsOnce /\ ListNearLimit)
<1>1. ObjectsInv => GetDelivers /\ ListsOnce /\ ListNearLimit
  BY GetTold, ListTold DEF ObjectsInv
<1> QED BY <1>1, ObjectsHold, PTL

(***************************************************************************)
(* convert_simple_acl: what it has read is well-formed after every word.    *)
(***************************************************************************)
PartGrants ==
  [granteeType : GranteeTypes, id : MaybeWords, displayName : Seq(Words),
   permission : Permissions \cup {Unset}]

Places ==
  {"line", "skip", "failed", "ownerId", "ownerName", "email", "userId", "userName", "group", "permission"}

InGrant == {"email", "userId", "userName", "group", "permission"}

Whole(grant) == grant.id = <<>> <=> grant.granteeType \in Groups

\* Only the last grant may lack its id, and while it does it is not a group.
ReadStates ==
  {st \in [at : Places, ownerId : MaybeWords, ownerDisplayName : Seq(Words), grants : Seq(PartGrants)] :
     /\ st.ownerId = <<>> => st.ownerDisplayName = <<>> /\ st.at # "ownerName"
     /\ Len(st.grants) <= MaxGrants
     /\ st.at \in InGrant => Len(st.grants) > 0
     /\ \A i \in 1..Len(st.grants) :
          i < Len(st.grants) \/ st.at \notin {"email", "userId"} => Whole(st.grants[i])
     /\ st.at = "group" => st.grants[Len(st.grants)].granteeType \in Groups
     /\ st.at \in {"email", "userId"} => st.grants[Len(st.grants)].granteeType \notin Groups}

\* A word is no line ending, and what is left behind its first piece is a word.
LEMMA WordsAre ==
  ASSUME NEW word \in Words
  PROVE  /\ word # <<>> /\ Len(word) \in Nat \ {0} /\ Head(word) = word[1] /\ Head(word) \in Pieces
         /\ Len(word) # 1 => Tail(word) \in Words
         /\ word # Newline /\ word \in MaybeWords /\ word \in Seq(Pieces)
         /\ <<word>> \in Seq(Words)
<1>1. word \in Seq(Pieces) /\ word # <<>> /\ word \in MaybeWords
  BY DEF Words, MaybeWords
<1> DEFINE P == Pieces
<1>2. "\n" \notin P
  BY S3AclAssumption DEF Pieces, Permissions
<1> HIDE DEF P
<1>3. word \in Seq(P)
  BY <1>1 DEF P
<1>4. Len(word) \in Nat \ {0} /\ Head(word) = word[1] /\ Head(word) \in P /\ Tail(word) \in Seq(P)
  BY <1>1, <1>3
<1>5. Len(word) # 1 => Tail(word) # <<>>
  <2>1. Len(Tail(word)) = Len(word) - 1 /\ Len(<<>>) = 0
    BY <1>1, <1>3, HeadTailProperties
  <2>2. ASSUME Len(word) # 1, Tail(word) = <<>> PROVE FALSE
    <3> DEFINE m == Len(word)
               k == Len(Tail(word))
    <3>1. k = 0 /\ k = m - 1 /\ m \in Nat /\ m # 1
      BY <1>4, <2>1, <2>2, Zenon
    <3> HIDE DEF m, k
    <3> QED BY <3>1
  <2> QED BY <2>2
<1>6. word # Newline
  <2>1. Newline[1] = "\n"
    BY DEF Newline
  <2> QED BY <1>2, <1>4, <2>1
<1>7. Len(word) # 1 => Tail(word) \in Words
  BY <1>4, <1>5 DEF Words, P
<1> DEFINE Ws == Words
<1>8. <<word>> \in Seq(Ws)
  <2>1. word \in Ws
    OBVIOUS
  <2> HIDE DEF Ws
  <2> QED BY <2>1
<1> QED BY <1>1, <1>4, <1>6, <1>7, <1>8 DEF P

\* A field that is filled with what belongs there.
LEMMA FilledKeeps ==
  ASSUME NEW st \in ReadStates, st.at \in InGrant, NEW at \in Places \ {"email", "userId", "group", "ownerName"},
         NEW field \in {"granteeType", "id", "displayName", "permission"}, NEW value,
         \/ field = "granteeType" /\ st.at = "group" /\ value \in Groups
         \/ field = "id" /\ st.at \in {"email", "userId"} /\ value \in Words
         \/ field = "displayName" /\ st.at = "userName" /\ value \in Seq(Words)
         \/ field = "permission" /\ st.at = "permission" /\ value \in Permissions
  PROVE  /\ Filled(st, field, value, at) \in ReadStates
         /\ Filled(st, field, value, at).at = at
<1> DEFINE n == Len(st.grants)
           old == st.grants[n]
           grant == [old EXCEPT ![field] = value]
           grants == [st.grants EXCEPT ![n] = grant]
           new == [st EXCEPT !.at = at, !.grants = grants]
<1>1. /\ n \in Nat \ {0} /\ Filled(st, field, value, at) = new
  <2>1. n \in Nat \ {0}
    BY DEF ReadStates
  <2>2. Filled(st, field, value, at) = new
    BY DEF Filled, ReadStates
  <2> QED BY <2>1, <2>2
<1>2. /\ st.grants \in Seq(PartGrants) /\ n <= MaxGrants
      /\ st \in [at : Places, ownerId : MaybeWords, ownerDisplayName : Seq(Words), grants : Seq(PartGrants)]
      /\ st.ownerId = <<>> => st.ownerDisplayName = <<>>
  BY DEF ReadStates
<1>3. /\ \A i \in 1..n : i < n => Whole(st.grants[i])
      /\ st.at \notin {"email", "userId"} => Whole(old)
      /\ st.at = "group" => old.granteeType \in Groups
      /\ st.at \in {"email", "userId"} => old.granteeType \notin Groups
  BY <1>1 DEF ReadStates
<1>4. old \in PartGrants
  BY <1>1, <1>2
<1> HIDE DEF n, old
<1>5. grant \in PartGrants /\ Whole(grant)
  <2>1. /\ old.granteeType \in GranteeTypes /\ old.id \in MaybeWords /\ old.displayName \in Seq(Words)
        /\ old.permission \in Permissions \cup {Unset}
    BY <1>4 DEF PartGrants
  <2>2. CASE field = "granteeType"
    BY <1>3, <1>4, <2>1, <2>2 DEF PartGrants, Whole, GranteeTypes
  <2>3. CASE field = "id"
    <3>1. value # <<>> /\ value \in MaybeWords
      BY <2>3, WordsAre
    <3> QED BY <1>3, <1>4, <2>1, <2>3, <3>1 DEF PartGrants, Whole
  <2>4. CASE field = "displayName"
    BY <1>3, <1>4, <2>1, <2>4 DEF PartGrants, Whole
  <2>5. CASE field = "permission"
    BY <1>3, <1>4, <2>1, <2>5 DEF PartGrants, Whole
  <2> QED BY <2>2, <2>3, <2>4, <2>5
<1> HIDE DEF grant
<1>6. /\ grants \in Seq(PartGrants) /\ Len(grants) = n /\ grants[n] = grant
      /\ \A i \in 1..n : i < n => grants[i] = st.grants[i]
  <2>1. n = Len(st.grants)
    BY DEF n
  <2> QED BY <1>1, <1>2, <1>5, <2>1, ExceptSeq
<1> HIDE DEF grants
<1>7. /\ new \in [at : Places, ownerId : MaybeWords, ownerDisplayName : Seq(Words), grants : Seq(PartGrants)]
      /\ new.at = at /\ new.ownerId = st.ownerId /\ new.ownerDisplayName = st.ownerDisplayName /\ new.grants = grants
  BY <1>2, <1>6
<1> HIDE DEF new
<1>8. \A i \in 1..n : Whole(grants[i])
  BY <1>1, <1>3, <1>5, <1>6
<1>9. new \in ReadStates
  BY <1>1, <1>2, <1>6, <1>7, <1>8 DEF ReadStates
<1> QED BY <1>1, <1>7, <1>9

\* A grant that is found.
LEMMA FoundKeeps ==
  ASSUME NEW st \in ReadStates, st.at = "line", Len(st.grants) # MaxGrants,
         NEW granteeType, NEW at,
         \/ granteeType = "AmazonCustomerByEmail" /\ at = "email"
         \/ granteeType = "CanonicalUser" /\ at = "userId"
         \/ granteeType = "AllUsers" /\ at = "group"
  PROVE  /\ Found(st, granteeType, at) \in ReadStates
         /\ Found(st, granteeType, at).at = at
         /\ Found(st, granteeType, at).grants =
              Append(st.grants, [granteeType |-> granteeType, id |-> <<>>, displayName |-> <<>>,
                                 permission |-> Unset])
<1> DEFINE grant == [granteeType |-> granteeType, id |-> <<>>, displayName |-> <<>>, permission |-> Unset]
           n == Len(st.grants)
           grants == Append(st.grants, grant)
           found == [st EXCEPT !.at = at, !.grants = grants]
<1>1. grant \in PartGrants /\ (at = "group" => Whole(grant) /\ grant.granteeType \in Groups)
      /\ (at \in {"email", "userId"} => grant.granteeType \notin Groups)
  <2>1. <<>> \in MaybeWords /\ <<>> \in Seq(Words)
    BY DEF MaybeWords
  <2>2. granteeType \in GranteeTypes /\ Unset \in Permissions \cup {Unset}
    BY DEF GranteeTypes, Groups
  <2> QED BY <2>1, <2>2 DEF PartGrants, Whole, Groups
<1>2. /\ st.grants \in Seq(PartGrants) /\ n \in Nat /\ n < MaxGrants
      /\ st \in [at : Places, ownerId : MaybeWords, ownerDisplayName : Seq(Words), grants : Seq(PartGrants)]
      /\ st.ownerId = <<>> => st.ownerDisplayName = <<>>
      /\ \A i \in 1..n : Whole(st.grants[i])
  BY S3AclAssumption DEF ReadStates
<1> HIDE DEF grant
<1>3. /\ grants \in Seq(PartGrants) /\ Len(grants) = n + 1 /\ grants[n + 1] = grant
      /\ \A i \in 1..n : grants[i] = st.grants[i]
  BY <1>1, <1>2
<1>4. Found(st, granteeType, at) = found
  BY <1>2 DEF Found, grant
<1> HIDE DEF grants, n
<1>5. /\ found \in [at : Places, ownerId : MaybeWords, ownerDisplayName : Seq(Words), grants : Seq(PartGrants)]
      /\ found.at = at /\ found.ownerId = st.ownerId /\ found.ownerDisplayName = st.ownerDisplayName
      /\ found.grants = grants
  BY <1>2, <1>3 DEF Places
<1> HIDE DEF found
<1>6. \A i \in 1..(n + 1) : i < n + 1 => Whole(grants[i])
  BY <1>2, <1>3
<1>7. at = "group" => \A i \in 1..(n + 1) : Whole(grants[i])
  BY <1>1, <1>2, <1>3, <1>6
<1>8. n + 1 <= MaxGrants /\ n + 1 > 0
  BY <1>2, S3AclAssumption
<1>9. found \in ReadStates
  BY <1>1, <1>2, <1>3, <1>5, <1>6, <1>7, <1>8 DEF ReadStates
<1> QED BY <1>4, <1>5, <1>9 DEF grants, grant
\* The place in a line changes, for one at which nothing is known of the last grant.
LEMMA PlaceKeeps ==
  ASSUME NEW st \in ReadStates, st.at \notin {"email", "userId"},
         NEW at \in {"line", "skip", "failed", "ownerId"}
  PROVE  [st EXCEPT !.at = at] \in ReadStates /\ [st EXCEPT !.at = at].at = at
         /\ [st EXCEPT !.at = at].grants = st.grants
BY DEF ReadStates, Places, InGrant

LEMMA FailedKeeps ==
  ASSUME NEW st \in ReadStates
  PROVE  [st EXCEPT !.at = "failed"].at = "failed"
BY DEF ReadStates

\* A word in a line that was begun.
LEMMA FieldKeeps ==
  ASSUME NEW st \in ReadStates, NEW word \in Words,
         st.at \in {"ownerId", "ownerName", "email", "userId", "userName", "group"}
  PROVE  Field(st, word) \in ReadStates
<1>1. word \in MaybeWords /\ word # <<>> /\ <<word>> \in Seq(Words)
  BY WordsAre
<1>2. CASE st.at = "ownerId"
  BY <1>1, <1>2 DEF Field, ReadStates, Places, InGrant
<1>3. CASE st.at = "ownerName"
  BY <1>1, <1>3 DEF Field, ReadStates, Places, InGrant
<1>4. CASE st.at = "email"
  BY <1>4, FilledKeeps DEF Field, Places, InGrant
<1>5. CASE st.at = "userId"
  BY <1>5, FilledKeeps DEF Field, Places, InGrant
<1>6. CASE st.at = "userName"
  BY <1>1, <1>6, FilledKeeps DEF Field, Places, InGrant
<1>7. CASE st.at = "group"
  <2>1. ASSUME NEW granteeType \in Groups
        PROVE  Filled(st, "granteeType", granteeType, "permission") \in ReadStates
    BY <1>7, FilledKeeps DEF Places, InGrant
  <2>2. [st EXCEPT !.at = "failed"] \in ReadStates
    BY <1>7, PlaceKeeps
  <2>3. {"AllAwsUsers", "AllUsers", "LogDelivery"} \subseteq Groups
    BY DEF Groups
  <2> QED BY <1>7, <2>1, <2>2, <2>3 DEF Field
<1> QED BY <1>2, <1>3, <1>4, <1>5, <1>6, <1>7

\* A word that begins a line.
LEMMA LineStartKeeps ==
  ASSUME NEW st \in ReadStates, st.at = "line", NEW word \in Words
  PROVE  LineStart(st, word) \in ReadStates
<1>1. Len(word) # 1 => Tail(word) \in Words
  BY WordsAre
<1>2. ASSUME NEW s \in ReadStates, s.at \in {"ownerId", "email", "userId", "group"}
      PROVE  AfterKeyword(s, word) \in ReadStates
  BY <1>1, <1>2, FieldKeeps DEF AfterKeyword
<1>3. /\ [st EXCEPT !.at = "skip"] \in ReadStates /\ [st EXCEPT !.at = "failed"] \in ReadStates
      /\ [st EXCEPT !.at = "ownerId"] \in ReadStates /\ [st EXCEPT !.at = "ownerId"].at = "ownerId"
  BY PlaceKeeps
<1>4. Grant(st, word) \in ReadStates
  <2>1. CASE Len(st.grants) = MaxGrants
    BY <1>3, <2>1 DEF Grant
  <2>2. CASE Len(st.grants) # MaxGrants
    <3>1. AfterKeyword(Found(st, "AmazonCustomerByEmail", "email"), word) \in ReadStates
      <4>1. Found(st, "AmazonCustomerByEmail", "email") \in ReadStates /\ Found(st, "AmazonCustomerByEmail", "email").at = "email"
        BY <2>2, FoundKeeps
      <4> QED BY <1>2, <4>1
    <3>2. AfterKeyword(Found(st, "CanonicalUser", "userId"), word) \in ReadStates
      <4>1. Found(st, "CanonicalUser", "userId") \in ReadStates /\ Found(st, "CanonicalUser", "userId").at = "userId"
        BY <2>2, FoundKeeps
      <4> QED BY <1>2, <4>1
    <3>3. AfterKeyword(Found(st, "AllUsers", "group"), word) \in ReadStates
      <4>1. Found(st, "AllUsers", "group") \in ReadStates /\ Found(st, "AllUsers", "group").at = "group"
        BY <2>2, FoundKeeps
      <4> QED BY <1>2, <4>1
    <3> QED BY <1>3, <2>2, <3>1, <3>2, <3>3 DEF Grant
  <2> QED BY <2>1, <2>2
<1> QED BY <1>2, <1>3, <1>4 DEF LineStart

\* Any word.
LEMMA ConsumeKeeps ==
  ASSUME NEW st \in ReadStates, NEW word \in Words \cup {Newline}
  PROVE  Consume(st, word) \in ReadStates
<1>1. st.at \in Places
  BY DEF ReadStates
<1>2. CASE st.at = "failed"
  BY <1>2 DEF Consume
<1>3. CASE st.at = "skip"
  BY <1>3, PlaceKeeps DEF Consume
<1>4. CASE st.at \notin {"failed", "skip"} /\ word = Newline
  BY <1>4 DEF Consume
<1>5. CASE st.at = "line" /\ word # Newline
  BY <1>5, LineStartKeeps DEF Consume
<1>6. CASE st.at = "permission" /\ word # Newline
  <2>1. word \in Words /\ (Len(word) # 1 => Tail(word) \in Words)
    BY <1>6, WordsAre
  <2>2. [st EXCEPT !.at = "line"] \in ReadStates /\ [st EXCEPT !.at = "line"].at = "line"
    BY <1>6, PlaceKeeps
  <2> DEFINE line == Filled(st, "permission", Head(word), "line")
  <2>3. ASSUME Head(word) \notin Permissions PROVE Permission(st, word) \in ReadStates
    BY <2>1, <2>2, <2>3, LineStartKeeps DEF Permission
  <2>4. ASSUME Head(word) \in Permissions PROVE Permission(st, word) \in ReadStates
    <3>1. line \in ReadStates /\ line.at = "line"
      BY <1>6, <2>4, FilledKeeps DEF Places, InGrant
    <3> HIDE DEF line
    <3>2. Permission(st, word) = IF Len(word) = 1 THEN line ELSE LineStart(line, Tail(word))
      BY <2>4 DEF Permission, line
    <3> QED BY <2>1, <3>1, <3>2, LineStartKeeps
  <2>5. Permission(st, word) \in ReadStates
    BY <2>3, <2>4
  <2> QED BY <1>6, <2>5 DEF Consume
<1>7. CASE st.at \in {"ownerId", "ownerName", "email", "userId", "userName", "group"} /\ word # Newline
  BY <1>7, FieldKeeps DEF Consume
<1> QED BY <1>1, <1>2, <1>3, <1>4, <1>5, <1>6, <1>7 DEF Places

(***************************************************************************)
(* Lines word by word, and texts line by line: the folds go through states. *)
(***************************************************************************)
LEMMA NothingReadState == NothingRead \in ReadStates
<1>1. <<>> \in MaybeWords /\ <<>> \in Seq(Words) /\ <<>> \in Seq(PartGrants) /\ Len(<<>>) = 0
  BY DEF MaybeWords
<1> QED BY <1>1, S3AclAssumption DEF NothingRead, ReadStates, Places, InGrant

\* f goes through the states of a line.
Through(f, st, line) ==
  /\ f \in [0..Len(line) -> ReadStates] /\ f[0] = st
  /\ \A i \in 1..Len(line) : f[i] = Consume(f[i - 1], line[i])

\* The words of a line, one state after each.
LEMMA ConsumesAll ==
  ASSUME NEW st \in ReadStates, NEW words \in Seq(Words \cup {Newline})
  PROVE  \E f : Through(f, st, words) /\ FoldLeft(Consume, st, words) = f[Len(words)]
<1> DEFINE n == Len(words)
           V == ReadStates
           G == [i \in 1..n |-> [v \in V |-> Consume(v, words[i])]]
           Is(h) == h = [s \in SUBSET DOMAIN words |->
                           IF s = {} THEN st ELSE Consume(h[s \ {Max(s)}], words[Max(s)])]
<1>1. FoldLeft(Consume, st, words) = (CHOOSE h : Is(h))[DOMAIN words]
  BY DEF FoldLeft, MapThenFoldSet
<1>2. n \in Nat /\ DOMAIN words = 1..n
  BY LenProperties
<1>3. \A h : Is(h) <=> h = [s \in SUBSET (1..n) |->
                              IF s = {} THEN st ELSE Consume(h[s \ {Max(s)}], words[Max(s)])]
  BY <1>2, Zenon
<1> HIDE DEF Is
<1>4. \E h \in [SUBSET (1..n) -> V] : Is(h)
  <2>1. \A i \in 1..n, v \in V : Consume(v, words[i]) \in V
    <3>1. \A i \in 1..n : words[i] \in Words \cup {Newline}
      BY <1>2
    <3> QED BY <3>1, ConsumeKeeps
  <2>2. G \in [1..n -> [V -> V]]
    BY <2>1
  <2>3. PICK h \in [SUBSET (1..n) -> V] : IsFold(h, n, st, G)
    <3> HIDE DEF G, n
    <3> QED BY <1>2, <2>2, FoldsExist, Zenon
  <2>4. ASSUME NEW s \in SUBSET (1..n)
        PROVE  h[s] = IF s = {} THEN st ELSE Consume(h[s \ {Max(s)}], words[Max(s)])
    <3>1. h[s] = FoldStep(h, s, st, G)
      BY <2>3 DEF IsFold
    <3>2. CASE s = {}
      BY <3>1, <3>2 DEF FoldStep
    <3>3. CASE s # {}
      <4>1. Max(s) \in 1..n
        BY <1>2, <3>3, MaxOfSet
      <4>2. h[s \ {Max(s)}] \in V
        BY <2>3
      <4> QED BY <3>1, <3>3, <4>1, <4>2 DEF FoldStep
    <3> QED BY <3>2, <3>3
  <2>5. h = [s \in SUBSET (1..n) |-> h[s]]
    BY <2>3
  <2>6. h = [s \in SUBSET (1..n) |->
               IF s = {} THEN st ELSE Consume(h[s \ {Max(s)}], words[Max(s)])]
    BY <2>4, <2>5, Zenon
  <2> QED BY <1>3, <2>3, <2>6
<1> DEFINE h == CHOOSE h : Is(h)
           f == [i \in 0..n |-> h[1..i]]
<1>5. Is(h)
  BY <1>4
<1> HIDE DEF h
<1>6. h = [s \in SUBSET (1..n) |-> IF s = {} THEN st ELSE Consume(h[s \ {Max(s)}], words[Max(s)])]
  BY <1>3, <1>5
<1>7. f[0] = st
  <2>1. 1..0 = {} /\ 0 \in 0..n /\ {} \in SUBSET (1..n)
    BY <1>2
  <2>2. h[{}] = st
    BY <1>6, <2>1
  <2> QED BY <2>1, <2>2
<1>8. ASSUME NEW i \in 1..n PROVE f[i] = Consume(f[i - 1], words[i])
  <2>1. i - 1 \in Nat /\ (i - 1) + 1 = i /\ i \in 0..n /\ i - 1 \in 0..n
    BY <1>2
  <2>2. Max(1..i) = i /\ (1..i) \ {i} = 1..(i - 1) /\ 1..i # {}
    BY <2>1, MaxOfInterval
  <2>3. 1..i \in SUBSET (1..n)
    BY <1>2
  <2>4. h[1..i] = Consume(h[(1..i) \ {Max(1..i)}], words[Max(1..i)])
    BY <1>6, <2>2, <2>3
  <2> QED BY <2>1, <2>2, <2>4
<1>9. f \in [0..n -> V]
  <2> DEFINE S == {i \in 0..n : f[i] \in V}
  <2>1. 0 \in S
    <3>1. 0 \in 0..n
      BY <1>2
    <3>2. f[0] \in V
      <4> HIDE DEF f, V, n
      <4> QED BY <1>2, <1>7 DEF V
    <3> QED BY <3>1, <3>2
  <2>2. ASSUME NEW i \in 0..(n - 1), i \in S PROVE i + 1 \in S
    <3>1. i + 1 \in 1..n /\ (i + 1) - 1 = i /\ i + 1 \in 0..n
      BY <1>2
    <3>2. f[i] \in V /\ words[i + 1] \in Words \cup {Newline}
      BY <1>2, <2>2, <3>1
    <3>3. f[i + 1] = Consume(f[i], words[i + 1])
      BY <1>8, <3>1
    <3> HIDE DEF f
    <3>4. f[i + 1] \in V
      BY <3>2, <3>3, ConsumeKeeps
    <3> QED BY <3>1, <3>4
  <2> HIDE DEF S
  <2>3. \A i \in 0..n : i \in S
    BY <1>2, <2>1, <2>2, InductionTo
  <2>4. f = [i \in 0..n |-> f[i]]
    OBVIOUS
  <2> HIDE DEF f, n, V
  <2>5. \A i \in 0..n : f[i] \in V
    BY <2>3 DEF S
  <2> QED BY <2>4, <2>5, Zenon
<1>10. FoldLeft(Consume, st, words) = f[n]
  <2>1. FoldLeft(Consume, st, words) = h[1..n] /\ n \in 0..n
    BY <1>1, <1>2 DEF h
  <2> QED BY <2>1
<1> HIDE DEF f
<1>11. Through(f, st, words)
  BY <1>7, <1>8, <1>9 DEF Through
<1> QED BY <1>10, <1>11

\* A line and its end.
LEMMA ReadsLine ==
  ASSUME NEW st \in ReadStates, NEW line \in Seq(Words)
  PROVE  /\ ReadLine(st, line) \in ReadStates
         /\ \E f : Through(f, st, line) /\ ReadLine(st, line) = Consume(f[Len(line)], Newline)
<1> DEFINE words == Append(line, Newline)
           n == Len(line)
           W == Words \cup {Newline}
<1>1. line \in Seq(W) /\ Newline \in W
  OBVIOUS
<1>2. /\ words \in Seq(W) /\ Len(words) = n + 1 /\ n \in Nat /\ words[n + 1] = Newline
      /\ \A i \in 1..n : words[i] = line[i]
  <2> HIDE DEF W
  <2> QED BY <1>1, AppendProperties
<1> HIDE DEF words, W, n
<1>3. PICK g : Through(g, st, words) /\ FoldLeft(Consume, st, words) = g[n + 1]
  BY <1>2, ConsumesAll DEF W
<1>4. /\ g \in [0..(n + 1) -> ReadStates] /\ g[0] = st
      /\ \A i \in 1..(n + 1) : g[i] = Consume(g[i - 1], words[i])
  BY <1>2, <1>3 DEF Through
<1> DEFINE f == [i \in 0..n |-> g[i]]
<1>5. Through(f, st, line)
  <2>1. f \in [0..n -> ReadStates]
    BY <1>2, <1>4
  <2>2. f[0] = st
    BY <1>2, <1>4
  <2>3. \A i \in 1..n : f[i] = Consume(f[i - 1], line[i])
    BY <1>2, <1>4
  <2> HIDE DEF f
  <2> QED BY <2>1, <2>2, <2>3 DEF Through, n
<1>6. ReadLine(st, line) = g[n + 1]
  BY <1>3 DEF ReadLine, words
<1>7. g[n + 1] = Consume(f[n], Newline)
  <2>1. n + 1 \in 1..(n + 1) /\ (n + 1) - 1 = n /\ f[n] = g[n]
    BY <1>2
  <2> QED BY <1>2, <1>4, <2>1
<1>8. g[n + 1] \in ReadStates
  BY <1>2, <1>4
<1> HIDE DEF f
<1> QED BY <1>5, <1>6, <1>7, <1>8 DEF n

\* f goes through the states at the ends of lines.
Reading(f, st, lines) ==
  /\ f \in [0..Len(lines) -> ReadStates] /\ f[0] = st
  /\ \A i \in 1..Len(lines) : f[i] = ReadLine(f[i - 1], lines[i])

\* The lines of a text, one state after each.
LEMMA ReadsText ==
  ASSUME NEW st \in ReadStates, NEW lines \in Seq(Seq(Words))
  PROVE  \E f : Reading(f, st, lines) /\ FoldLeft(ReadLine, st, lines) = f[Len(lines)]
<1> DEFINE n == Len(lines)
           V == ReadStates
           G == [i \in 1..n |-> [v \in V |-> ReadLine(v, lines[i])]]
           Is(h) == h = [s \in SUBSET DOMAIN lines |->
                           IF s = {} THEN st ELSE ReadLine(h[s \ {Max(s)}], lines[Max(s)])]
<1>1. FoldLeft(ReadLine, st, lines) = (CHOOSE h : Is(h))[DOMAIN lines]
  BY DEF FoldLeft, MapThenFoldSet
<1>2. n \in Nat /\ DOMAIN lines = 1..n
  BY LenProperties
<1>3. \A h : Is(h) <=> h = [s \in SUBSET (1..n) |->
                              IF s = {} THEN st ELSE ReadLine(h[s \ {Max(s)}], lines[Max(s)])]
  BY <1>2, Zenon
<1> HIDE DEF Is
<1>4. \E h \in [SUBSET (1..n) -> V] : Is(h)
  <2>1. \A i \in 1..n, v \in V : ReadLine(v, lines[i]) \in V
    <3>1. \A i \in 1..n : lines[i] \in Seq(Words)
      BY <1>2
    <3> QED BY <3>1, ReadsLine
  <2>2. G \in [1..n -> [V -> V]]
    BY <2>1
  <2>3. PICK h \in [SUBSET (1..n) -> V] : IsFold(h, n, st, G)
    <3> HIDE DEF G, n
    <3> QED BY <1>2, <2>2, FoldsExist, Zenon
  <2>4. ASSUME NEW s \in SUBSET (1..n)
        PROVE  h[s] = IF s = {} THEN st ELSE ReadLine(h[s \ {Max(s)}], lines[Max(s)])
    <3>1. h[s] = FoldStep(h, s, st, G)
      BY <2>3 DEF IsFold
    <3>2. CASE s = {}
      BY <3>1, <3>2 DEF FoldStep
    <3>3. CASE s # {}
      <4>1. Max(s) \in 1..n
        BY <1>2, <3>3, MaxOfSet
      <4>2. h[s \ {Max(s)}] \in V
        BY <2>3
      <4> QED BY <3>1, <3>3, <4>1, <4>2 DEF FoldStep
    <3> QED BY <3>2, <3>3
  <2>5. h = [s \in SUBSET (1..n) |-> h[s]]
    BY <2>3
  <2>6. h = [s \in SUBSET (1..n) |->
               IF s = {} THEN st ELSE ReadLine(h[s \ {Max(s)}], lines[Max(s)])]
    BY <2>4, <2>5, Zenon
  <2> QED BY <1>3, <2>3, <2>6
<1> DEFINE h == CHOOSE h : Is(h)
           f == [i \in 0..n |-> h[1..i]]
<1>5. Is(h)
  BY <1>4
<1> HIDE DEF h
<1>6. h = [s \in SUBSET (1..n) |-> IF s = {} THEN st ELSE ReadLine(h[s \ {Max(s)}], lines[Max(s)])]
  BY <1>3, <1>5
<1>7. f[0] = st
  <2>1. 1..0 = {} /\ 0 \in 0..n /\ {} \in SUBSET (1..n)
    BY <1>2
  <2>2. h[{}] = st
    BY <1>6, <2>1
  <2> QED BY <2>1, <2>2
<1>8. ASSUME NEW i \in 1..n PROVE f[i] = ReadLine(f[i - 1], lines[i])
  <2>1. i - 1 \in Nat /\ (i - 1) + 1 = i /\ i \in 0..n /\ i - 1 \in 0..n
    BY <1>2
  <2>2. Max(1..i) = i /\ (1..i) \ {i} = 1..(i - 1) /\ 1..i # {}
    BY <2>1, MaxOfInterval
  <2>3. 1..i \in SUBSET (1..n)
    BY <1>2
  <2>4. h[1..i] = ReadLine(h[(1..i) \ {Max(1..i)}], lines[Max(1..i)])
    BY <1>6, <2>2, <2>3
  <2> QED BY <2>1, <2>2, <2>4
<1>9. f \in [0..n -> V]
  <2> DEFINE S == {i \in 0..n : f[i] \in V}
  <2>1. 0 \in S
    <3>1. 0 \in 0..n
      BY <1>2
    <3>2. f[0] \in V
      <4> HIDE DEF f, V, n
      <4> QED BY <1>2, <1>7 DEF V
    <3> QED BY <3>1, <3>2
  <2>2. ASSUME NEW i \in 0..(n - 1), i \in S PROVE i + 1 \in S
    <3>1. i + 1 \in 1..n /\ (i + 1) - 1 = i /\ i + 1 \in 0..n
      BY <1>2
    <3>2. f[i] \in V /\ lines[i + 1] \in Seq(Words)
      BY <1>2, <2>2, <3>1
    <3>3. f[i + 1] = ReadLine(f[i], lines[i + 1])
      BY <1>8, <3>1
    <3> HIDE DEF f
    <3>4. f[i + 1] \in V
      BY <3>2, <3>3, ReadsLine
    <3> QED BY <3>1, <3>4
  <2> HIDE DEF S
  <2>3. \A i \in 0..n : i \in S
    BY <1>2, <2>1, <2>2, InductionTo
  <2>4. f = [i \in 0..n |-> f[i]]
    OBVIOUS
  <2> HIDE DEF f, n, V
  <2>5. \A i \in 0..n : f[i] \in V
    BY <2>3 DEF S
  <2> QED BY <2>4, <2>5, Zenon
<1>10. FoldLeft(ReadLine, st, lines) = f[n]
  <2>1. FoldLeft(ReadLine, st, lines) = h[1..n] /\ n \in 0..n
    BY <1>1, <1>2 DEF h
  <2> QED BY <2>1
<1> HIDE DEF f
<1>11. Reading(f, st, lines)
  BY <1>7, <1>8, <1>9 DEF Reading
<1> QED BY <1>10, <1>11

\* What a state becomes at the end of a text.
Outcome(end) ==
  IF end.at \in {"line", "skip"}
  THEN [ownerId |-> end.ownerId, ownerDisplayName |-> end.ownerDisplayName, grants |-> end.grants]
  ELSE None

\* The parser ends in the state after the last line,
LEMMA ParsedIs ==
  ASSUME NEW lines \in Seq(Seq(Words))
  PROVE  \E f : Reading(f, NothingRead, lines) /\ Parsed(lines) = Outcome(f[Len(lines)])
BY NothingReadState, ReadsText DEF Parsed, Outcome

\* Lists with grants whose permission was never assigned.
Unsettled ==
  {a \in [ownerId : MaybeWords, ownerDisplayName : Seq(Words), grants : Seq(PartGrants)] :
     /\ a.ownerId = <<>> => a.ownerDisplayName = <<>>
     /\ Len(a.grants) <= MaxGrants
     /\ \A i \in 1..Len(a.grants) : Whole(a.grants[i])}

\* and has read a list, in which permissions may be unassigned.
LEMMA ParsedType ==
  ASSUME NEW lines \in Seq(Seq(Words))
  PROVE  Parsed(lines) = None \/ Parsed(lines) \in Unsettled
<1>1. PICK f : Reading(f, NothingRead, lines) /\ Parsed(lines) = Outcome(f[Len(lines)])
  BY ParsedIs
<1>2. PICK end \in ReadStates : Parsed(lines) = Outcome(end)
  <2>1. Len(lines) \in 0..Len(lines)
    OBVIOUS
  <2> QED BY <1>1, <2>1 DEF Reading
<1>3. ASSUME end.at \in {"line", "skip"} PROVE Outcome(end) \in Unsettled
  BY <1>3 DEF Outcome, Unsettled, ReadStates
<1> QED BY <1>2, <1>3 DEF Outcome

\* What is sent for it.
LEMMA SettledType ==
  ASSUME NEW list \in Unsettled, NEW permission \in Permissions
  PROVE  /\ Settled(list, permission) \in AclsTyped
         /\ Len(Settled(list, permission).grants) = Len(list.grants)
         /\ \A i \in 1..Len(list.grants) :
              /\ Settled(list, permission).grants[i].granteeType = list.grants[i].granteeType
              /\ Settled(list, permission).grants[i].id = list.grants[i].id
              /\ list.grants[i].permission \in Permissions =>
                   Settled(list, permission).grants[i].permission = list.grants[i].permission
<1> DEFINE old == list.grants
           n == Len(old)
           Now(g) == IF g.permission = Unset THEN [g EXCEPT !.permission = permission] ELSE g
           grants == [i \in 1..n |-> Now(old[i])]
<1>1. /\ old \in Seq(PartGrants) /\ n \in Nat /\ DOMAIN old = 1..n /\ n <= MaxGrants
      /\ \A i \in 1..n : Whole(old[i]) /\ old[i] \in PartGrants
      /\ list \in [ownerId : MaybeWords, ownerDisplayName : Seq(Words), grants : Seq(PartGrants)]
      /\ list.ownerId = <<>> => list.ownerDisplayName = <<>>
  BY DEF Unsettled
<1>2. Settled(list, permission) = [list EXCEPT !.grants = grants]
  BY <1>1 DEF Settled
<1>3. ASSUME NEW g \in PartGrants, Whole(g)
      PROVE  /\ Now(g) \in AclGrants /\ Now(g).granteeType = g.granteeType /\ Now(g).id = g.id
             /\ g.permission \in Permissions => Now(g).permission = g.permission
  BY <1>3 DEF PartGrants, AclGrants, Whole, Permissions, Unset
<1>4. grants \in Seq(AclGrants) /\ Len(grants) = n /\ \A i \in 1..n : grants[i] = Now(old[i])
  BY <1>1, <1>3
<1> HIDE DEF grants, Now, n, old
<1>5. [list EXCEPT !.grants = grants] \in AclsTyped /\ [list EXCEPT !.grants = grants].grants = grants
  BY <1>1, <1>4 DEF AclsTyped
<1>6. \A i \in 1..n : /\ grants[i].granteeType = old[i].granteeType /\ grants[i].id = old[i].id
                      /\ old[i].permission \in Permissions => grants[i].permission = old[i].permission
  BY <1>1, <1>3, <1>4
<1> QED BY <1>2, <1>4, <1>5, <1>6 DEF old, n

(***************************************************************************)
(* What is printed.                                                         *)
(***************************************************************************)
LEMMA OneWord ==
  ASSUME NEW piece \in Pieces
  PROVE  <<piece>> \in Words
<1> DEFINE P == Pieces
<1>1. <<piece>> \in Seq(P) /\ <<piece>> # <<>>
  <2>1. piece \in P
    OBVIOUS
  <2> HIDE DEF P
  <2> QED BY <2>1
<1> QED BY <1>1 DEF Words

\* What the code prints by itself.
LEMMA PrintedPieces ==
  /\ {"(", ")", "Email", "UserID", "Group", "OwnerID", "Type", "User", "Identifier", "Permission", "-",
      "Authenticated AWS Users", "Log Delivery", "All Users"} \subseteq Pieces
  /\ Permissions \subseteq Pieces
BY DEF Pieces, Permissions

\* Words put together.
LEMMA LongerWord ==
  ASSUME NEW word \in Words, NEW piece \in Pieces
  PROVE  word \o <<piece>> \in Words /\ <<piece>> \o word \in Words /\ Head(word \o <<piece>>) = Head(word)
<1> DEFINE P == Pieces
<1>1. word \in Seq(P) /\ Len(word) > 0 /\ <<piece>> \in Seq(P)
  <2>1. word \in Seq(P) /\ Len(word) \in Nat \ {0} /\ piece \in P
    BY WordsAre
  <2> HIDE DEF P
  <2> QED BY <2>1
<1> HIDE DEF P
<1>2. /\ word \o <<piece>> \in Seq(P) /\ Len(word \o <<piece>>) = Len(word) + 1
      /\ <<piece>> \o word \in Seq(P) /\ Len(<<piece>> \o word) = 1 + Len(word)
      /\ (word \o <<piece>>)[1] = word[1]
  BY <1>1
<1>3. Head(word \o <<piece>>) = Head(word)
  BY <1>1, <1>2, HeadTailProperties
<1>4. \A w : w = <<>> => Len(w) = 0
  OBVIOUS
<1>5. word \o <<piece>> # <<>> /\ <<piece>> \o word # <<>>
  BY <1>1, <1>2, <1>4
<1> QED BY <1>2, <1>3, <1>5 DEF Words, P

\* Only the first word of "(display name)" gets something in front.
LEMMA ComposedIs ==
  ASSUME NEW name \in Seq(Words)
  PROVE  /\ Composed(name) \in Seq(Words)
         /\ Len(Composed(name)) = IF name = <<>> THEN 1 ELSE Len(name)
         /\ \A i \in 2..Len(name) : Composed(name)[i] \in {name[i], name[i] \o <<")">>}
<1>0. "(" \in Pieces /\ ")" \in Pieces
  BY PrintedPieces
<1>1. CASE name = <<>>
  <2>1. Composed(name) = << <<"(">> \o <<>> \o <<")">> >>
    BY <1>1 DEF Composed
  <2>2. << "(" >> \o <<>> \o <<")">> = <<"(">> \o <<")">>
    OBVIOUS
  <2>3. <<"(">> \o <<")">> \in Words
    BY <1>0, OneWord, LongerWord
  <2>4. <<"(">> \o <<>> \o <<")">> \in Words
    BY <2>2, <2>3
  <2> DEFINE w == <<"(">> \o <<>> \o <<")">>
  <2>5. << w >> \in Seq(Words) /\ Len(<<w>>) = 1 /\ Composed(name) = <<w>>
    BY <2>1, <2>4, WordsAre
  <2>6. \A i \in 2..Len(name) : FALSE
    <3>1. Len(name) = 0
      BY <1>1
    <3> QED BY <3>1
  <2> HIDE DEF w
  <2> QED BY <1>1, <2>5, <2>6
<1>2. CASE name # <<>>
  <2> DEFINE n == Len(name)
             open == [name EXCEPT ![1] = <<"(">> \o @]
             all == [open EXCEPT ![n] = @ \o <<")">>]
  <2>1. n \in Nat \ {0} /\ Composed(name) = all
    BY <1>2 DEF Composed
  <2>2. <<"(">> \o name[1] \in Words
    <3>1. name[1] \in Words
      BY <2>1
    <3> QED BY <1>0, <3>1, LongerWord
  <2>3. open \in Seq(Words) /\ Len(open) = n /\ \A i \in 2..n : open[i] = name[i]
    BY <2>1, <2>2, ExceptSeq
  <2> HIDE DEF n, open
  <2>4. open[n] \o <<")">> \in Words
    <3>1. open[n] \in Words
      BY <2>1, <2>3
    <3> QED BY <1>0, <3>1, LongerWord
  <2>5. all \in Seq(Words) /\ Len(all) = n /\ \A i \in 1..n : all[i] = IF i = n THEN open[n] \o <<")">> ELSE open[i]
    BY <2>1, <2>3, <2>4, ExceptSeq
  <2>6. ASSUME NEW i \in 2..n PROVE all[i] \in {name[i], name[i] \o <<")">>}
    <3>1. i \in 1..n /\ open[i] = name[i]
      BY <2>1, <2>3
    <3> HIDE DEF all
    <3> QED BY <2>5, <3>1
  <2> HIDE DEF all
  <2> QED BY <1>2, <2>1, <2>5, <2>6 DEF n
<1> QED BY <1>1, <1>2

LEMMA GroupType ==
  ASSUME NEW l, NEW granteeType
  PROVE  Group(l, granteeType) \in Words
<1>1. Group(l, granteeType) \in {<<"Authenticated AWS Users">>, <<"Log Delivery">>, <<"All Users">>}
  BY DEF Group
<1> QED BY <1>1, PrintedPieces, OneWord

LEMMA GrantLineType ==
  ASSUME NEW l, NEW grant \in AclGrants
  PROVE  GrantLine(l, grant) \in Seq(Words)
<1> DEFINE W == Words
<1>1. /\ <<"Email">> \in W /\ <<"UserID">> \in W /\ <<"Group">> \in W /\ Group(l, grant.granteeType) \in W
      /\ <<grant.permission>> \in W /\ Composed(grant.displayName) \in Seq(W)
  <2>1. /\ {"Email", "UserID", "Group"} \subseteq Pieces /\ grant.permission \in Pieces
        /\ grant.displayName \in Seq(Words)
    BY PrintedPieces DEF AclGrants
  <2> QED BY <2>1, OneWord, GroupType, ComposedIs
<1>2. grant.granteeType \notin Groups => grant.id \in W
  BY DEF AclGrants, MaybeWords
<1>3. grant.granteeType \in {"AmazonCustomerByEmail", "CanonicalUser"} => grant.granteeType \notin Groups
  BY DEF Groups
<1> HIDE DEF W
<1>4. GrantLine(l, grant) \in Seq(W)
  <2>1. CASE grant.granteeType = "AmazonCustomerByEmail"
    BY <1>1, <1>2, <1>3, <2>1 DEF GrantLine
  <2>2. CASE grant.granteeType = "CanonicalUser"
    BY <1>1, <1>2, <1>3, <2>2 DEF GrantLine
  <2>3. CASE grant.granteeType \notin {"AmazonCustomerByEmail", "CanonicalUser"}
    BY <1>1, <2>3 DEF GrantLine
  <2> QED BY <2>1, <2>2, <2>3
<1> QED BY <1>4 DEF W

LEMMA ColumnsType == Columns \in Seq(Seq(Words)) /\ Len(Columns) = 2
<1> DEFINE W == Words
<1>1. /\ <<"Type">> \in W /\ <<"User">> \in W /\ <<"Identifier">> \in W /\ <<"Permission">> \in W
      /\ <<"-">> \in W
  BY PrintedPieces, OneWord
<1> HIDE DEF W
<1>2. << <<"Type">>, <<"User">>, <<"Identifier">>, <<"Permission">> >> \in Seq(W)
  BY <1>1
<1>3. << <<"-">>, <<"-">>, <<"-">> >> \in Seq(W)
  BY <1>1
<1> QED BY <1>2, <1>3 DEF Columns, W

\* Lists, as what is printed depends on them.
LEMMA ListsAre ==
  ASSUME NEW list \in AclsTyped
  PROVE  /\ list.grants \in Seq(AclGrants) /\ Len(list.grants) \in Nat /\ Len(list.grants) <= MaxGrants
         /\ DOMAIN list.grants = 1..Len(list.grants)
         /\ \A i \in 1..Len(list.grants) : list.grants[i] \in AclGrants
         /\ list.ownerDisplayName \in Seq(Words) /\ list.ownerId \in MaybeWords
         /\ list.ownerId = <<>> => list.ownerDisplayName = <<>>
BY DEF AclsTyped

LEMMA GrantLinesType ==
  ASSUME NEW l, NEW list \in AclsTyped
  PROVE  /\ GrantLines(l, list) \in Seq(Seq(Words)) /\ Len(GrantLines(l, list)) = Len(list.grants)
         /\ \A i \in 1..Len(list.grants) : GrantLines(l, list)[i] = GrantLine(l, list.grants[i])
<1>1. \A i \in 1..Len(list.grants) : GrantLine(l, list.grants[i]) \in Seq(Words)
  BY ListsAre, GrantLineType
<1> QED BY <1>1, ListsAre DEF GrantLines

LEMMA OwnerLineType ==
  ASSUME NEW list \in AclsTyped
  PROVE  /\ OwnerLine(list) \in Seq(Words)
         /\ OwnerLine(list) = IF list.ownerId = <<>> THEN << <<"OwnerID">> >>
                              ELSE << <<"OwnerID">>, list.ownerId >> \o list.ownerDisplayName
<1> DEFINE W == Words
<1>1. /\ <<"OwnerID">> \in W /\ list.ownerDisplayName \in Seq(W)
      /\ list.ownerId # <<>> => list.ownerId \in W
      /\ list.ownerId = <<>> => list.ownerDisplayName = <<>>
  BY PrintedPieces, OneWord, ListsAre DEF MaybeWords
<1> HIDE DEF W
<1>2. CASE list.ownerId = <<>>
  <2>1. OwnerLine(list) = << <<"OwnerID">> >> \o <<>> \o <<>>
    BY <1>1, <1>2 DEF OwnerLine
  <2>2. << <<"OwnerID">> >> \o <<>> \o <<>> = << <<"OwnerID">> >>
    OBVIOUS
  <2>3. << <<"OwnerID">> >> \in Seq(W)
    BY <1>1
  <2> QED BY <1>2, <2>1, <2>2, <2>3 DEF W
<1>3. CASE list.ownerId # <<>>
  BY <1>1, <1>3 DEF OwnerLine, W
<1> QED BY <1>2, <1>3

\* The text of a list: some lines, and one for each of its grants.
Text(l, list) == IF l = "acl" THEN AclText(list) ELSE LoggingText(list)

Above(l, list) == IF l = "acl" THEN <<OwnerLine(list)>> \o Columns ELSE Columns

LEMMA AboveType ==
  ASSUME NEW l, NEW list \in AclsTyped
  PROVE  /\ Above(l, list) \in Seq(Seq(Words))
         /\ Len(Above(l, list)) = IF l = "acl" THEN 3 ELSE 2
         /\ l = "acl" => Above(l, list)[1] = OwnerLine(list)
         /\ l = "acl" => Above(l, list)[2] = Columns[1] /\ Above(l, list)[3] = Columns[2]
         /\ l # "acl" => Above(l, list)[1] = Columns[1] /\ Above(l, list)[2] = Columns[2]
<1> DEFINE L == Seq(Words)
           owner == OwnerLine(list)
<1>1. Columns \in Seq(L) /\ Len(Columns) = 2 /\ owner \in L
  BY ColumnsType, OwnerLineType
<1> HIDE DEF L, owner
<1>2. CASE l = "acl"
  <2>1. <<owner>> \o Columns \in Seq(L) /\ Len(<<owner>> \o Columns) = 3
        /\ (<<owner>> \o Columns)[1] = owner
        /\ (<<owner>> \o Columns)[2] = Columns[1] /\ (<<owner>> \o Columns)[3] = Columns[2]
    <3> DEFINE c == Columns
    <3>1. c \in Seq(L) /\ Len(c) = 2 /\ owner \in L
      BY <1>1
    <3> HIDE DEF c
    <3>2. <<owner>> \in Seq(L) /\ Len(<<owner>>) = 1 /\ <<owner>>[1] = owner
      BY <3>1
    <3> DEFINE e == <<owner>>
               d == e \o c
    <3>3. /\ d \in Seq(L) /\ Len(d) = Len(e) + Len(c)
          /\ \A i \in 1..(Len(e) + Len(c)) : d[i] = IF i <= Len(e) THEN e[i] ELSE c[i - Len(e)]
      <4>1. e \in Seq(L)
        BY <3>2
      <4> HIDE DEF e
      <4> QED BY <3>1, <4>1, ConcatProperties
    <3>4. Len(e) = 1 /\ e[1] = owner
      BY <3>2
    <3> HIDE DEF d, e
    <3>5. d \in Seq(L) /\ Len(d) = 3 /\ d[1] = owner /\ d[2] = c[1] /\ d[3] = c[2]
      BY <3>1, <3>3, <3>4
    <3> QED BY <3>5 DEF c, d, e
  <2>2. Above(l, list) = <<owner>> \o Columns
    BY <1>2 DEF Above, owner
  <2> QED BY <1>2, <2>1, <2>2 DEF owner, L
<1>3. CASE l # "acl"
  <2>1. Above(l, list) = Columns
    BY <1>3 DEF Above
  <2> QED BY <1>1, <1>3, <2>1 DEF L
<1> QED BY <1>2, <1>3

LEMMA TextIs ==
  ASSUME NEW l, NEW list \in AclsTyped
  PROVE  Text(l, list) = Above(l, list) \o GrantLines(IF l = "acl" THEN "acl" ELSE "logging", list)
<1> DEFINE L == Seq(Words)
           owner == OwnerLine(list)
           grants == GrantLines("acl", list)
<1>1. Columns \in Seq(L) /\ owner \in L /\ grants \in Seq(L) /\ list # None
  BY ColumnsType, OwnerLineType, GrantLinesType, S3AclAssumption
<1> HIDE DEF L, owner, grants
<1>2. CASE l = "acl"
  BY <1>1, <1>2 DEF Text, AclText, Above, owner, grants
<1>3. CASE l # "acl"
  BY <1>1, <1>3 DEF Text, LoggingText, Above
<1> QED BY <1>2, <1>3

LEMMA TextType ==
  ASSUME NEW l, NEW list \in AclsTyped
  PROVE  Text(l, list) \in Seq(Seq(Words)) /\ Len(Text(l, list)) = Len(Above(l, list)) + Len(list.grants)
<1> DEFINE L == Seq(Words)
           a == Above(l, list)
           g == GrantLines(IF l = "acl" THEN "acl" ELSE "logging", list)
<1>1. a \in Seq(L) /\ g \in Seq(L) /\ Len(g) = Len(list.grants) /\ Text(l, list) = a \o g
  BY AboveType, GrantLinesType, TextIs
<1> HIDE DEF L, a, g
<1>2. a \o g \in Seq(L) /\ Len(a \o g) = Len(a) + Len(g)
  BY <1>1, ConcatProperties
<1> QED BY <1>1, <1>2 DEF a, L

(***************************************************************************)
(* A line that the user removes.                                            *)
(***************************************************************************)
LEMMA Removed ==
  ASSUME NEW S, NEW s \in Seq(S), NEW i \in 1..Len(s)
  PROVE  /\ RemoveAt(s, i) \in Seq(S) /\ Len(RemoveAt(s, i)) = Len(s) - 1
         /\ \A j \in 1..(Len(s) - 1) : RemoveAt(s, i)[j] = IF j < i THEN s[j] ELSE s[j + 1]
<1> DEFINE n == Len(s)
           front == SubSeq(s, 1, i - 1)
           back == SubSeq(s, i + 1, n)
<1>1. n \in Nat /\ \A j \in 1..n : s[j] \in S
  OBVIOUS
<1>2. front \in Seq(S) /\ Len(front) = i - 1 /\ \A j \in 1..(i - 1) : front[j] = s[j]
  BY <1>1
<1>3. back \in Seq(S) /\ Len(back) = n - i /\ \A j \in 1..(n - i) : back[j] = s[i + j]
  BY <1>1
<1> HIDE DEF front, back, n
<1>4. RemoveAt(s, i) = front \o back
  BY DEF RemoveAt, front, back, n
<1>5. /\ front \o back \in Seq(S) /\ Len(front \o back) = Len(front) + Len(back)
      /\ \A j \in 1..(Len(front) + Len(back)) :
           (front \o back)[j] = IF j <= Len(front) THEN front[j] ELSE back[j - Len(front)]
  BY <1>2, <1>3, ConcatProperties
<1> DEFINE d == front \o back
<1> HIDE DEF d
<1>6. /\ d \in Seq(S) /\ Len(d) = Len(front) + Len(back)
      /\ \A j \in 1..(Len(front) + Len(back)) : d[j] = IF j <= Len(front) THEN front[j] ELSE back[j - Len(front)]
  BY <1>5 DEF d
<1>7. i \in 1..n
  BY DEF n
<1>8. Len(d) = n - 1 /\ \A j \in 1..(n - 1) : d[j] = IF j < i THEN s[j] ELSE s[j + 1]
  <2>1. Len(front) + Len(back) = n - 1
    BY <1>1, <1>2, <1>3, <1>7
  <2>2. ASSUME NEW j \in 1..(n - 1) PROVE d[j] = IF j < i THEN s[j] ELSE s[j + 1]
    <3>1. CASE j < i
      <4>1. j <= i - 1 /\ j \in 1..(i - 1) /\ j \in 1..(Len(front) + Len(back))
        BY <1>1, <1>7, <2>1, <3>1
      <4> QED BY <1>2, <1>6, <3>1, <4>1
    <3>2. CASE ~(j < i)
      <4>1. ~(j <= i - 1) /\ j - (i - 1) \in 1..(n - i) /\ i + (j - (i - 1)) = j + 1
        BY <1>1, <1>7, <3>2
      <4>2. d[j] = back[j - (i - 1)]
        BY <1>2, <1>6, <2>1, <4>1
      <4> QED BY <1>3, <3>2, <4>1, <4>2
    <3> QED BY <3>1, <3>2
  <2> QED BY <1>6, <2>1, <2>2
<1> QED BY <1>4, <1>6, <1>8 DEF d, n

\* The text without the line of a grant is that of the list without the grant.
LEMMA RemovedGrant ==
  ASSUME NEW l, NEW list \in AclsTyped, NEW i \in 1..Len(list.grants), NEW fewer,
         fewer = [list EXCEPT !.grants = RemoveAt(@, i)]
  PROVE  /\ fewer \in AclsTyped
         /\ Text(l, fewer) = RemoveAt(Text(l, list), Len(Text(l, list)) - Len(list.grants) + i)
         /\ Len(Text(l, list)) - Len(list.grants) + i \in 1..Len(Text(l, list))
<1> DEFINE L == Seq(Words)
           k == IF l = "acl" THEN "acl" ELSE "logging"
           a == Above(l, list)
           g == GrantLines(k, list)
           h == GrantLines(k, fewer)
           n == Len(list.grants)
           m == Len(a)
           t == Text(l, list)
           u == Text(l, fewer)
           r == RemoveAt(t, m + i)
<1>1. /\ RemoveAt(list.grants, i) \in Seq(AclGrants) /\ Len(RemoveAt(list.grants, i)) = n - 1
      /\ \A j \in 1..(n - 1) : RemoveAt(list.grants, i)[j] = IF j < i THEN list.grants[j] ELSE list.grants[j + 1]
  BY ListsAre, Removed
<1>2. n \in Nat /\ n <= MaxGrants /\ i \in 1..n /\ MaxGrants \in Nat
  BY ListsAre, S3AclAssumption
<1>3. /\ fewer \in AclsTyped /\ fewer.grants = RemoveAt(list.grants, i)
      /\ fewer.ownerId = list.ownerId /\ fewer.ownerDisplayName = list.ownerDisplayName
  <2> DEFINE grants == RemoveAt(list.grants, i)
  <2>1. grants \in Seq(AclGrants) /\ Len(grants) <= MaxGrants
    BY <1>1, <1>2
  <2>2. fewer = [list EXCEPT !.grants = grants]
    OBVIOUS
  <2> HIDE DEF grants
  <2>3. fewer \in AclsTyped /\ fewer.grants = grants
        /\ fewer.ownerId = list.ownerId /\ fewer.ownerDisplayName = list.ownerDisplayName
    BY <2>1, <2>2 DEF AclsTyped
  <2> QED BY <2>3 DEF grants
<1>4. Above(l, fewer) = a
  BY <1>3 DEF Above, OwnerLine
<1>5. /\ a \in Seq(L) /\ m \in Nat /\ g \in Seq(L) /\ Len(g) = n
      /\ \A j \in 1..n : g[j] = GrantLine(k, list.grants[j])
      /\ t = a \o g
  <2>1. a \in Seq(L) /\ m \in Nat
    BY AboveType
  <2>2. g \in Seq(L) /\ Len(g) = n /\ \A j \in 1..n : g[j] = GrantLine(k, list.grants[j])
    BY GrantLinesType
  <2>3. t = a \o g
    BY TextIs
  <2> QED BY <2>1, <2>2, <2>3
<1>6. /\ h \in Seq(L) /\ Len(h) = n - 1
      /\ \A j \in 1..(n - 1) : h[j] = GrantLine(k, fewer.grants[j])
      /\ u = a \o h
  <2>1. /\ h \in Seq(L) /\ Len(h) = Len(fewer.grants)
        /\ \A j \in 1..Len(fewer.grants) : h[j] = GrantLine(k, fewer.grants[j])
        /\ u = Above(l, fewer) \o h
    BY <1>3, GrantLinesType, TextIs
  <2> QED BY <1>1, <1>3, <1>4, <2>1
<1>7. \A j \in 1..(n - 1) : h[j] = IF j < i THEN g[j] ELSE g[j + 1]
  <2>1. ASSUME NEW j \in 1..(n - 1) PROVE h[j] = IF j < i THEN g[j] ELSE g[j + 1]
    <3>1. j \in 1..n /\ j + 1 \in 1..n
      BY <1>2
    <3>2. h[j] = GrantLine(k, IF j < i THEN list.grants[j] ELSE list.grants[j + 1])
      BY <1>1, <1>3, <1>6
    <3> HIDE DEF h, g, k, n
    <3> QED BY <1>5, <3>1, <3>2
  <2> QED BY <2>1
<1> HIDE DEF L, a, g, h, n, m, t, u, k
<1>8. /\ t \in Seq(L) /\ Len(t) = m + n
      /\ \A j \in 1..(m + n) : t[j] = IF j <= m THEN a[j] ELSE g[j - m]
  BY <1>5, ConcatProperties DEF m
<1>9. /\ u \in Seq(L) /\ Len(u) = m + (n - 1)
      /\ \A j \in 1..(m + (n - 1)) : u[j] = IF j <= m THEN a[j] ELSE h[j - m]
  <2>1. /\ a \o h \in Seq(L) /\ Len(a \o h) = Len(a) + Len(h)
        /\ \A j \in 1..(Len(a) + Len(h)) : (a \o h)[j] = IF j <= Len(a) THEN a[j] ELSE h[j - Len(a)]
    BY <1>5, <1>6, ConcatProperties
  <2> QED BY <1>6, <2>1 DEF m
<1>10. m + i \in 1..Len(t)
  BY <1>2, <1>5, <1>8
<1>11. /\ r \in Seq(L) /\ Len(r) = m + n - 1
       /\ \A j \in 1..(m + n - 1) : r[j] = IF j < m + i THEN t[j] ELSE t[j + 1]
  <2>1. /\ r \in Seq(L) /\ Len(r) = Len(t) - 1
        /\ \A j \in 1..(Len(t) - 1) : r[j] = IF j < m + i THEN t[j] ELSE t[j + 1]
    BY <1>8, <1>10, Removed
  <2>2. Len(t) - 1 = m + n - 1
    BY <1>2, <1>5, <1>8
  <2> HIDE DEF r
  <2> QED BY <2>1, <2>2
<1> HIDE DEF r
<1>12. ASSUME NEW j \in 1..(m + n - 1) PROVE r[j] = u[j]
  <2>1. j \in 1..(m + (n - 1)) /\ j \in 1..(m + n) /\ j + 1 \in 1..(m + n)
    BY <1>2, <1>5
  <2>2. CASE j <= m
    <3>1. j < m + i
      BY <1>2, <1>5, <2>2
    <3> QED BY <1>8, <1>9, <1>11, <2>1, <2>2, <3>1
  <2>3. CASE ~(j <= m)
    <3>1. j - m \in 1..(n - 1) /\ (j + 1) - m = (j - m) + 1 /\ ~(j + 1 <= m)
      BY <1>2, <1>5, <2>3
    <3>2. u[j] = IF j - m < i THEN g[j - m] ELSE g[(j - m) + 1]
      BY <1>7, <1>9, <2>1, <2>3, <3>1
    <3>3. (j - m < i) <=> (j < m + i)
      BY <1>2, <1>5
    <3>4. t[j] = g[j - m] /\ t[j + 1] = g[(j - m) + 1]
      BY <1>8, <2>1, <2>3, <3>1
    <3> QED BY <1>11, <3>2, <3>3, <3>4
  <2> QED BY <2>2, <2>3
<1>13. r = u
  <2>1. Len(r) = Len(u) /\ Len(r) = m + n - 1
    BY <1>2, <1>5, <1>9, <1>11
  <2> QED BY <1>9, <1>11, <1>12, <2>1, SeqEqual
<1>14. Len(t) - n + i = m + i
  BY <1>2, <1>5, <1>8
<1>15. u = RemoveAt(t, Len(t) - n + i) /\ Len(t) - n + i \in 1..Len(t)
  BY <1>10, <1>13, <1>14 DEF r
<1> QED BY <1>3, <1>15 DEF t, u, n

(***************************************************************************)
(* convert_simple_acl reads what get_acl and get_logging print.             *)
(***************************************************************************)
\* The same grantees.
Alike(new, old) ==
  /\ Len(new) = Len(old)
  /\ \A i \in 1..Len(old) : new[i].granteeType = old[i].granteeType /\ new[i].id = old[i].id

\* A word that has no word in it that begins a line with something to read.
Harmless(word) == \A j \in 1..Len(word) : word[j] \notin Keywords

LEMMA StatesAre ==
  ASSUME NEW st \in ReadStates
  PROVE  /\ st.at \in Places /\ st.grants \in Seq(PartGrants) /\ Len(st.grants) \in Nat
         /\ Len(st.grants) <= MaxGrants
         /\ st.at \in InGrant => Len(st.grants) \in 1..Len(st.grants)
         /\ \A i \in 1..Len(st.grants) : st.grants[i] \in PartGrants
         /\ Alike(st.grants, st.grants)
BY DEF ReadStates, Alike

\* What assigning a field changes.
LEMMA FilledIs ==
  ASSUME NEW st \in ReadStates, st.at \in InGrant,
         NEW field \in {"granteeType", "id", "displayName", "permission"}, NEW value, NEW at
  PROVE  /\ Filled(st, field, value, at).at = at
         /\ Len(Filled(st, field, value, at).grants) = Len(st.grants)
         /\ \A i \in 1..Len(st.grants) :
              Filled(st, field, value, at).grants[i] =
                IF i = Len(st.grants) THEN [st.grants[i] EXCEPT ![field] = value] ELSE st.grants[i]
<1> DEFINE n == Len(st.grants)
           grant == [st.grants[n] EXCEPT ![field] = value]
           grants == [st.grants EXCEPT ![n] = grant]
           new == [st EXCEPT !.at = at, !.grants = grants]
<1>1. n \in 1..n /\ st.grants \in Seq(PartGrants)
  BY StatesAre
<1>2. Filled(st, field, value, at) = new
  BY DEF Filled, ReadStates
<1>3. new.at = at /\ new.grants = grants
  BY DEF ReadStates
<1>4. Len(grants) = n /\ \A i \in 1..n : grants[i] = IF i = n THEN grant ELSE st.grants[i]
  BY <1>1
<1> HIDE DEF new, grants, grant
<1>5. \A i \in 1..n : grants[i] = IF i = n THEN [st.grants[i] EXCEPT ![field] = value] ELSE st.grants[i]
  BY <1>4 DEF grant
<1> QED BY <1>2, <1>3, <1>4, <1>5

\* Names and permissions do not say who is granted something.
LEMMA NamesFilled ==
  ASSUME NEW st \in ReadStates, st.at \in InGrant, NEW field \in {"displayName", "permission"}, NEW value, NEW at
  PROVE  Alike(Filled(st, field, value, at).grants, st.grants)
<1> DEFINE new == Filled(st, field, value, at).grants
<1>1. /\ Len(new) = Len(st.grants)
      /\ \A i \in 1..Len(st.grants) :
           new[i] = IF i = Len(st.grants) THEN [st.grants[i] EXCEPT ![field] = value] ELSE st.grants[i]
  BY FilledIs
<1> HIDE DEF new
<1>2. \A g \in PartGrants : /\ [g EXCEPT ![field] = value].granteeType = g.granteeType
                            /\ [g EXCEPT ![field] = value].id = g.id
  BY DEF PartGrants
<1>3. Alike(new, st.grants)
  BY <1>1, <1>2, StatesAre DEF Alike
<1> QED BY <1>3 DEF new

\* A word where a line may begin, and none does.
LEMMA StartHarmless ==
  ASSUME NEW st \in ReadStates, st.at = "line", NEW word \in Words, Head(word) \notin Keywords
  PROVE  LineStart(st, word) \in {[st EXCEPT !.at = "skip"], [st EXCEPT !.at = "failed"]}
BY DEF LineStart, Grant, WordBegins, Keywords

Later == {"permission", "line", "skip", "failed"}

\* A word without a keyword in it begins no grant, whatever it is taken for.
LEMMA HarmlessWord ==
  ASSUME NEW st \in ReadStates, st.at \in Later, NEW word \in Words, Harmless(word)
  PROVE  /\ Consume(st, word).at \in Later \ {"permission"}
         /\ Alike(Consume(st, word).grants, st.grants)
<1>1. /\ word # Newline /\ Head(word) \notin Keywords
      /\ Len(word) # 1 => Tail(word) \in Words /\ Head(Tail(word)) \notin Keywords
  <2>1. Len(word) \in Nat \ {0} /\ Head(word) = word[1] /\ word # Newline
        /\ word \in Seq(Pieces) /\ word # <<>>
    BY WordsAre
  <2>2. word[1] \notin Keywords
    BY <2>1 DEF Harmless
  <2>3. ASSUME Len(word) # 1 PROVE Tail(word) \in Words /\ Head(Tail(word)) \notin Keywords
    <3>1. Tail(word) \in Words /\ Head(Tail(word)) = Tail(word)[1] /\ Len(Tail(word)) \in Nat \ {0}
      BY <2>3, WordsAre
    <3>2. \A i \in 1..Len(Tail(word)) : Tail(word)[i] = word[i + 1]
      BY <2>1, HeadTailProperties
    <3> DEFINE tail == Tail(word)
    <3>3. 1 \in 1..Len(tail) /\ 2 \in 1..Len(word)
      <4> HIDE DEF tail
      <4>1. Len(tail) \in Nat \ {0}
        BY <3>1 DEF tail
      <4> DEFINE m == Len(word)
      <4>2. m \in Nat \ {0} /\ m # 1
        BY <2>1, <2>3, Zenon
      <4> HIDE DEF m
      <4>3. 2 \in 1..m
        BY <4>2
      <4> QED BY <4>1, <4>3 DEF m
    <3>4. tail[1] = word[2]
      <4>1. tail[1] = word[1 + 1]
        BY <3>2, <3>3, Zenon
      <4> HIDE DEF tail
      <4> QED BY <4>1
    <3>5. Head(tail) = word[2]
      BY <3>1, <3>4, Zenon
    <3>6. Head(tail) \notin Keywords
      <4> HIDE DEF tail
      <4> QED BY <3>3, <3>5 DEF Harmless
    <3> QED BY <3>1, <3>6
  <2> QED BY <2>1, <2>2, <2>3
<1>2. ASSUME NEW s \in ReadStates, s.at = "line", NEW w \in Words, Head(w) \notin Keywords,
             Alike(s.grants, st.grants)
      PROVE  LineStart(s, w).at \in {"skip", "failed"} /\ Alike(LineStart(s, w).grants, st.grants)
  <2>1. /\ [s EXCEPT !.at = "skip"].at = "skip" /\ [s EXCEPT !.at = "skip"].grants = s.grants
        /\ [s EXCEPT !.at = "failed"].at = "failed" /\ [s EXCEPT !.at = "failed"].grants = s.grants
    BY DEF ReadStates
  <2> QED BY <1>2, <2>1, StartHarmless
<1>3. Alike(st.grants, st.grants)
  BY StatesAre
<1>4. CASE st.at = "failed" \/ st.at = "skip"
  BY <1>1, <1>3, <1>4 DEF Consume, Later
<1>5. CASE st.at = "line"
  BY <1>1, <1>2, <1>3, <1>5 DEF Consume, Later
<1>6. CASE st.at = "permission"
  <2>1. Consume(st, word) = Permission(st, word)
    BY <1>1, <1>6 DEF Consume
  <2>2. CASE Head(word) \notin Permissions
    <3> DEFINE s == [st EXCEPT !.at = "line"]
    <3>1. s \in ReadStates /\ s.at = "line" /\ s.grants = st.grants
      BY <1>6, PlaceKeeps
    <3>2. Permission(st, word) = LineStart(s, word)
      BY <2>2 DEF Permission
    <3> HIDE DEF s
    <3>3. Alike(s.grants, st.grants)
      BY <1>3, <3>1
    <3> QED BY <1>1, <1>2, <2>1, <3>1, <3>2, <3>3 DEF Later
  <2>3. CASE Head(word) \in Permissions
    <3> DEFINE line == Filled(st, "permission", Head(word), "line")
    <3>1. line \in ReadStates /\ line.at = "line"
      BY <1>6, <2>3, FilledKeeps DEF Places, InGrant
    <3>2. Alike(line.grants, st.grants)
      BY <1>6, NamesFilled DEF InGrant
    <3>3. Permission(st, word) = IF Len(word) = 1 THEN line ELSE LineStart(line, Tail(word))
      BY <2>3 DEF Permission
    <3> HIDE DEF line
    <3>4. CASE Len(word) = 1
      BY <2>1, <3>1, <3>2, <3>3, <3>4 DEF Later
    <3>5. CASE Len(word) # 1
      BY <1>1, <1>2, <2>1, <3>1, <3>2, <3>3, <3>5 DEF Later
    <3> QED BY <3>4, <3>5
  <2> QED BY <2>2, <2>3
<1> QED BY <1>4, <1>5, <1>6 DEF Later

\* The rest of a line.
LEMMA HarmlessRest ==
  ASSUME NEW line \in Seq(Words), NEW st, NEW f, Through(f, st, line),
         NEW k \in 0..Len(line), f[k].at \in Later,
         \A i \in (k + 1)..Len(line) : Harmless(line[i])
  PROVE  /\ f[Len(line)].at \in Later /\ Alike(f[Len(line)].grants, f[k].grants)
         /\ k < Len(line) => f[Len(line)].at # "permission"
<1> DEFINE n == Len(line)
           S == {i \in 0..(n - k) : /\ f[k + i].at \in Later /\ Alike(f[k + i].grants, f[k].grants)
                                    /\ i > 0 => f[k + i].at # "permission"}
<1>1. n \in Nat /\ k \in Nat /\ k <= n /\ n - k \in Nat
  BY LenProperties
<1>2. /\ \A i \in 0..n : f[i] \in ReadStates
      /\ \A i \in 1..n : f[i] = Consume(f[i - 1], line[i])
      /\ \A i \in 1..n : line[i] \in Words
  <2>1. f \in [0..n -> ReadStates] /\ \A i \in 1..n : f[i] = Consume(f[i - 1], line[i])
    BY DEF Through
  <2>2. \A i \in 1..n : line[i] \in Words
    BY <1>1
  <2> QED BY <2>1, <2>2
<1>3. 0 \in S
  <2>1. Alike(f[k].grants, f[k].grants)
    BY <1>2, StatesAre
  <2>2. k + 0 = k /\ 0 \in 0..(n - k)
    BY <1>1
  <2> QED BY <2>1, <2>2
<1>4. ASSUME NEW i \in 0..((n - k) - 1), i \in S PROVE i + 1 \in S
  <2>1. /\ k + i \in 0..n /\ k + (i + 1) \in 1..n /\ (k + (i + 1)) - 1 = k + i /\ i + 1 \in 0..(n - k)
        /\ k + (i + 1) \in (k + 1)..n
    BY <1>1
  <2>2. /\ f[k + i].at \in Later /\ Alike(f[k + i].grants, f[k].grants)
    BY <1>4
  <2>3. f[k + (i + 1)] = Consume(f[k + i], line[k + (i + 1)])
    BY <1>2, <2>1
  <2>4. /\ f[k + (i + 1)].at \in Later \ {"permission"}
        /\ Alike(f[k + (i + 1)].grants, f[k + i].grants)
    BY <1>2, <2>1, <2>2, <2>3, HarmlessWord
  <2>5. Alike(f[k + (i + 1)].grants, f[k].grants)
    BY <2>2, <2>4 DEF Alike
  <2> QED BY <2>1, <2>4, <2>5
<1> HIDE DEF S
<1>5. n - k \in S
  <2>1. \A i \in 0..(n - k) : i \in S
    BY <1>1, <1>3, <1>4, InductionTo
  <2> QED BY <1>1, <2>1
<1>6. k + (n - k) = n /\ (k < n => n - k > 0)
  BY <1>1
<1> QED BY <1>5, <1>6 DEF S

\* Nothing is read behind a failure, or in a line that is skipped.
LEMMA Rests ==
  ASSUME NEW line \in Seq(Words), NEW st, NEW f, Through(f, st, line),
         NEW k \in 0..Len(line), f[k].at \in {"skip", "failed"}
  PROVE  f[Len(line)] = f[k]
<1> DEFINE n == Len(line)
           S == {i \in 0..(n - k) : f[k + i] = f[k]}
<1>1. n \in Nat /\ k \in Nat /\ k <= n /\ n - k \in Nat
  BY LenProperties
<1>2. /\ \A i \in 1..n : f[i] = Consume(f[i - 1], line[i])
      /\ \A i \in 1..n : line[i] \in Words
  BY DEF Through
<1>3. 0 \in S
  BY <1>1
<1>4. ASSUME NEW i \in 0..((n - k) - 1), i \in S PROVE i + 1 \in S
  <2>1. k + (i + 1) \in 1..n /\ (k + (i + 1)) - 1 = k + i /\ i + 1 \in 0..(n - k)
    BY <1>1
  <2>2. f[k + (i + 1)] = Consume(f[k], line[k + (i + 1)]) /\ line[k + (i + 1)] # Newline
    BY <1>2, <1>4, <2>1, WordsAre
  <2>3. f[k + (i + 1)] = f[k]
    BY <2>2 DEF Consume
  <2> QED BY <2>1, <2>3
<1> HIDE DEF S
<1>5. n - k \in S
  <2>1. \A i \in 0..(n - k) : i \in S
    BY <1>1, <1>3, <1>4, InductionTo
  <2> QED BY <1>1, <2>1
<1>6. k + (n - k) = n
  BY <1>1
<1> QED BY <1>5, <1>6 DEF S

\* A line that cannot be read any more, or need not.
LEMMA FailedLine ==
  ASSUME NEW st \in ReadStates, st.at = "failed", NEW line \in Seq(Words)
  PROVE  ReadLine(st, line).at = "failed"
<1>1. PICK f : Through(f, st, line) /\ ReadLine(st, line) = Consume(f[Len(line)], Newline)
  BY ReadsLine
<1>2. f[0] = st /\ 0 \in 0..Len(line)
  BY <1>1, LenProperties DEF Through
<1>3. f[Len(line)] = st
  BY <1>1, <1>2, Rests
<1> QED BY <1>1, <1>3 DEF Consume

\* Lines of column headers and of dashes are skipped.
LEMMA SkippedLine ==
  ASSUME NEW st \in ReadStates, st.at = "line", NEW line \in Seq(Words), Len(line) > 0,
         line[1] \in {<<"Type">>, <<"-">>}
  PROVE  ReadLine(st, line) = st
<1>1. PICK f : Through(f, st, line) /\ ReadLine(st, line) = Consume(f[Len(line)], Newline)
  BY ReadsLine
<1> DEFINE s == [st EXCEPT !.at = "skip"]
<1>2. 0 \in 0..Len(line) /\ 1 \in 1..Len(line) /\ 1 \in 0..Len(line) /\ line[1] \in Words
  BY LenProperties
<1>3. f[1] = Consume(st, line[1])
  BY <1>1, <1>2 DEF Through
<1>4. line[1] # Newline /\ Head(line[1]) \in {"Type", "-"}
  BY <1>2, WordsAre
<1>5. f[1] = s
  BY <1>3, <1>4 DEF Consume, LineStart, WordBegins
<1>6. s.at = "skip" /\ [s EXCEPT !.at = "line"] = st
  BY DEF ReadStates
<1> HIDE DEF s
<1>7. f[Len(line)] = s
  BY <1>1, <1>2, <1>5, <1>6, Rests
<1> QED BY <1>1, <1>6, <1>7 DEF Consume

\* The words that name the owner.
LEMMA OwnerWord ==
  ASSUME NEW st \in ReadStates, NEW word \in Words
  PROVE  /\ st.at = "ownerId" => Consume(st, word).at = "ownerName" /\ Consume(st, word).grants = st.grants
         /\ st.at = "ownerName" => Consume(st, word).at = "line" /\ Consume(st, word).grants = st.grants
<1>1. word # Newline
  BY WordsAre
<1>2. st.at = "ownerId" => Consume(st, word) = [st EXCEPT !.at = "ownerName", !.ownerId = word]
  BY <1>1 DEF Consume, Field
<1>3. st.at = "ownerName" => Consume(st, word) = [st EXCEPT !.at = "line", !.ownerDisplayName = <<word>>]
  BY <1>1 DEF Consume, Field
<1> QED BY <1>2, <1>3 DEF ReadStates

\* The first two lines of what get_logging prints, the second and third of get_acl.
LEMMA ColumnsRead ==
  ASSUME NEW st \in ReadStates, st.at = "line"
  PROVE  ReadLine(st, Columns[1]) = st /\ ReadLine(st, Columns[2]) = st
<1>1. Columns[1] \in Seq(Words) /\ Columns[2] \in Seq(Words)
  <2> DEFINE L == Seq(Words)
             c == Columns
  <2>1. c \in Seq(L) /\ Len(c) = 2
    BY ColumnsType
  <2> HIDE DEF L, c
  <2>2. 1 \in 1..Len(c) /\ 2 \in 1..Len(c)
    BY <2>1
  <2>3. c[1] \in L /\ c[2] \in L
    BY <2>1, <2>2, ElementOfSeq
  <2> QED BY <2>3 DEF L, c
<1>2. Len(Columns[1]) > 0 /\ Columns[1][1] = <<"Type">> /\ Len(Columns[2]) > 0 /\ Columns[2][1] = <<"-">>
  BY DEF Columns
<1> QED BY <1>1, <1>2, SkippedLine

\* An owner without an id or a name takes words of the next line for it, and the
\* text is refused.
LEMMA ColumnsFail ==
  ASSUME NEW st \in ReadStates, st.at \in {"ownerId", "ownerName"}
  PROVE  ReadLine(st, Columns[1]).at = "failed"
<1> DEFINE line == Columns[1]
<1>1. line \in Seq(Words)
  <2> DEFINE L == Seq(Words)
             c == Columns
  <2>1. c \in Seq(L) /\ Len(c) = 2
    BY ColumnsType
  <2> HIDE DEF L, c
  <2>2. c[1] \in L
    BY <2>1
  <2> QED BY <2>2 DEF L, c
<1>2. /\ Len(line) = 4 /\ line[1] = <<"Type">> /\ line[2] = <<"User">> /\ line[3] = <<"Identifier">>
  BY DEF Columns
<1> HIDE DEF line
<1>3. PICK f : Through(f, st, line) /\ ReadLine(st, line) = Consume(f[Len(line)], Newline)
  BY <1>1, ReadsLine
<1>4. /\ f[0] = st /\ f[1] \in ReadStates /\ f[2] \in ReadStates /\ f[3] \in ReadStates
      /\ f[1] = Consume(st, line[1]) /\ f[2] = Consume(f[1], line[2]) /\ f[3] = Consume(f[2], line[3])
  BY <1>2, <1>3 DEF Through
<1>5. /\ \A i \in 1..3 : line[i] \in Words /\ line[i] # Newline
      /\ Head(line[2]) = "User" /\ Head(line[3]) = "Identifier"
  <2>1. \A i \in 1..Len(line) : line[i] \in Words
    BY <1>1
  <2>2. Len(line) = 4
    BY <1>2
  <2>3. \A i \in 1..3 : line[i] \in Words
    BY <2>1, <2>2
  <2>4. Head(<<"User">>) = "User" /\ Head(<<"Identifier">>) = "Identifier"
    OBVIOUS
  <2> QED BY <1>2, <2>3, <2>4, WordsAre
<1>6. ASSUME NEW s \in ReadStates, s.at = "line", NEW word \in Words,
             Head(word) \in {"User", "Identifier"}, word # Newline
      PROVE  Consume(s, word).at = "failed"
  <2>1. Consume(s, word) = LineStart(s, word)
    BY <1>6 DEF Consume
  <2>2. LineStart(s, word) = Grant(s, word)
    BY <1>6 DEF LineStart, WordBegins
  <2>3. Grant(s, word) = [s EXCEPT !.at = "failed"]
    BY <1>6 DEF Grant, WordBegins
  <2> QED BY <2>1, <2>2, <2>3, FailedKeeps
<1>7. CASE st.at = "ownerName"
  <2>1. f[1].at = "line"
    BY <1>4, <1>5, <1>7, OwnerWord
  <2>2. f[2].at = "failed"
    BY <1>4, <1>5, <1>6, <2>1
  <2>3. f[4] = f[2]
    <3>1. 2 \in 0..Len(line) /\ Len(line) = 4
      BY <1>2
    <3> QED BY <1>1, <1>3, <2>2, <3>1, Rests
  <2> QED BY <1>2, <1>3, <2>2, <2>3 DEF Consume, line
<1>8. CASE st.at = "ownerId"
  <2>1. f[1].at = "ownerName"
    BY <1>4, <1>5, <1>8, OwnerWord
  <2>2. f[2].at = "line"
    BY <1>4, <1>5, <2>1, OwnerWord
  <2>3. f[3].at = "failed"
    BY <1>4, <1>5, <1>6, <2>2
  <2>4. f[4] = f[3]
    <3>1. 3 \in 0..Len(line) /\ Len(line) = 4
      BY <1>2
    <3> QED BY <1>1, <1>3, <2>3, <3>1, Rests
  <2> QED BY <1>2, <1>3, <2>3, <2>4 DEF Consume, line
<1> QED BY <1>7, <1>8

\* The line of the owner.
LEMMA OwnerLineRead ==
  ASSUME NEW list \in AclsTyped, NoKeywords(list.ownerDisplayName),
         NEW end, end = ReadLine(NothingRead, OwnerLine(list))
  PROVE  /\ end \in ReadStates /\ Len(end.grants) = 0
         /\ end.at \in {"ownerId", "ownerName", "line", "failed"}
         /\ Len(list.ownerDisplayName) = 1 => end.at = "line"
<1> DEFINE line == OwnerLine(list)
           name == list.ownerDisplayName
           n == Len(line)
<1>1. /\ line \in Seq(Words) /\ name \in Seq(Words) /\ list.ownerId \in MaybeWords
      /\ line = IF list.ownerId = <<>> THEN << <<"OwnerID">> >> ELSE << <<"OwnerID">>, list.ownerId >> \o name
      /\ list.ownerId = <<>> => name = <<>>
  BY ListsAre, OwnerLineType
<1>2. NothingRead \in ReadStates /\ NothingRead.at = "line" /\ NothingRead.grants = <<>>
  BY NothingReadState DEF NothingRead
<1> HIDE DEF line, name
<1>3. end \in ReadStates
  BY <1>1, <1>2, ReadsLine DEF line
<1>4. PICK f : Through(f, NothingRead, line) /\ end = Consume(f[n], Newline)
  BY <1>1, <1>2, ReadsLine DEF line
<1>5. n \in Nat /\ n > 0 /\ line[1] = <<"OwnerID">> /\ \A i \in 1..n : line[i] \in Words
  <2>1. CASE list.ownerId = <<>>
    BY <1>1, <2>1
  <2>2. CASE list.ownerId # <<>>
    <3> DEFINE a == << <<"OwnerID">>, list.ownerId >>
    <3>1. a \in Seq(Words) /\ Len(a) = 2 /\ a[1] = <<"OwnerID">>
      <4> DEFINE W == Words
      <4>1. <<"OwnerID">> \in W /\ list.ownerId \in W
        BY <1>1, <2>2, PrintedPieces, OneWord DEF MaybeWords
      <4> HIDE DEF W
      <4>2. a \in Seq(W) /\ Len(a) = 2 /\ a[1] = <<"OwnerID">>
        BY <4>1
      <4> QED BY <4>2 DEF W
    <3>2. line = a \o name
      BY <1>1, <2>2
    <3> HIDE DEF a
    <3>3. /\ Len(a \o name) = Len(a) + Len(name) /\ Len(name) \in Nat
          /\ \A i \in 1..(Len(a) + Len(name)) : (a \o name)[i] = IF i <= Len(a) THEN a[i] ELSE name[i - Len(a)]
      BY <1>1, <3>1, ConcatProperties, LenProperties
    <3>4. Len(line) = 2 + Len(name) /\ Len(name) \in Nat /\ line[1] = <<"OwnerID">>
      BY <3>1, <3>2, <3>3
    <3> QED BY <1>1, <3>4
  <2> QED BY <2>1, <2>2
<1>6. /\ f[0] = NothingRead /\ \A i \in 0..n : f[i] \in ReadStates
      /\ \A i \in 1..n : f[i] = Consume(f[i - 1], line[i])
  <2>1. f \in [0..n -> ReadStates] /\ f[0] = NothingRead /\ \A i \in 1..n : f[i] = Consume(f[i - 1], line[i])
    BY <1>4 DEF Through
  <2> QED BY <2>1
<1>7. f[1].at = "ownerId" /\ f[1].grants = <<>> /\ f[1] \in ReadStates
  <2>1. f[1] = Consume(NothingRead, <<"OwnerID">>) /\ f[1] \in ReadStates
    BY <1>5, <1>6
  <2>2. <<"OwnerID">> # Newline /\ Head(<<"OwnerID">>) = "OwnerID" /\ Len(<<"OwnerID">>) = 1
    BY <1>5, WordsAre
  <2>3. Consume(NothingRead, <<"OwnerID">>) = [NothingRead EXCEPT !.at = "ownerId"]
    BY <1>2, <2>2 DEF Consume, LineStart, WordBegins, AfterKeyword
  <2> QED BY <2>1, <2>3 DEF NothingRead
<1>8. ASSUME NEW s \in ReadStates, s.at \in {"ownerId", "ownerName", "line", "failed"}, s.grants = <<>>,
             end = Consume(s, Newline)
      PROVE  end = s
  BY <1>8 DEF Consume
<1>9. Len(<<>>) = 0
  OBVIOUS
<1>10. CASE list.ownerId = <<>>
  <2>1. n = 1 /\ Len(name) = 0
    BY <1>1, <1>10
  <2>2. end = f[1]
    BY <1>4, <1>7, <1>8, <2>1
  <2> QED BY <1>3, <1>7, <1>9, <2>1, <2>2 DEF name
<1>11. CASE list.ownerId # <<>>
  <2>1. /\ Len(name) \in Nat /\ n = 2 + Len(name) /\ line[2] = list.ownerId
        /\ \A i \in 1..Len(name) : line[2 + i] = name[i]
    <3> DEFINE a == << <<"OwnerID">>, list.ownerId >>
    <3>1. a \in Seq(Words) /\ Len(a) = 2 /\ a[2] = list.ownerId
      <4> DEFINE W == Words
      <4>1. <<"OwnerID">> \in W /\ list.ownerId \in W
        BY <1>1, <1>11, PrintedPieces, OneWord DEF MaybeWords
      <4> HIDE DEF W
      <4>2. a \in Seq(W) /\ Len(a) = 2 /\ a[2] = list.ownerId
        BY <4>1
      <4> QED BY <4>2 DEF W
    <3>2. line = a \o name
      BY <1>1, <1>11
    <3> HIDE DEF a
    <3>3. /\ Len(a \o name) = Len(a) + Len(name) /\ Len(name) \in Nat
          /\ \A i \in 1..(Len(a) + Len(name)) : (a \o name)[i] = IF i <= Len(a) THEN a[i] ELSE name[i - Len(a)]
      BY <1>1, <3>1, ConcatProperties, LenProperties
    <3>4. n = 2 + Len(name) /\ line[2] = list.ownerId
      BY <3>1, <3>2, <3>3
    <3>5. ASSUME NEW i \in 1..Len(name) PROVE line[2 + i] = name[i]
      <4>1. 2 + i \in 1..(2 + Len(name)) /\ ~(2 + i <= 2) /\ (2 + i) - 2 = i
        BY <3>3
      <4> QED BY <3>1, <3>2, <3>3, <4>1
    <3> QED BY <3>3, <3>4, <3>5
  <2>2. f[2].at = "ownerName" /\ f[2].grants = <<>> /\ f[2] \in ReadStates
    <3>1. f[2] = Consume(f[1], line[2]) /\ f[2] \in ReadStates /\ line[2] \in Words
      BY <1>5, <1>6, <2>1
    <3>2. line[2] # Newline
      BY <3>1, WordsAre
    <3> QED BY <1>7, <3>1, <3>2 DEF Consume, Field, ReadStates
  <2>3. CASE Len(name) = 0
    <3>1. end = f[2]
      BY <1>4, <1>8, <2>1, <2>2, <2>3
    <3> QED BY <1>3, <1>9, <2>2, <2>3, <3>1 DEF name
  <2>4. CASE Len(name) > 0
    <3>1. f[3].at = "line" /\ f[3].grants = <<>> /\ f[3] \in ReadStates
      <4>1. f[3] = Consume(f[2], line[3]) /\ f[3] \in ReadStates /\ line[3] \in Words
        BY <1>5, <1>6, <2>1, <2>4
      <4>2. line[3] # Newline
        BY <4>1, WordsAre
      <4> QED BY <2>2, <4>1, <4>2 DEF Consume, Field, ReadStates
    <3>2. ASSUME NEW i \in (3 + 1)..n PROVE Harmless(line[i])
      <4>1. i - 2 \in 2..Len(name) /\ i - 2 \in 1..Len(name) /\ 2 + (i - 2) = i
        BY <2>1
      <4>2. line[i] = name[i - 2] /\ name[i - 2] \in Words
        BY <1>1, <2>1, <4>1
      <4>3. \A j \in DOMAIN name[i - 2] : name[i - 2][j] \notin Keywords
        BY <4>1 DEF NoKeywords, name
      <4>4. DOMAIN name[i - 2] = 1..Len(name[i - 2])
        BY <4>2, WordsAre, LenProperties
      <4> QED BY <4>2, <4>3, <4>4 DEF Harmless
    <3>3. f[n].at \in Later /\ Alike(f[n].grants, <<>>) /\ (3 < n => f[n].at # "permission") /\ f[n] \in ReadStates
      <4>1. 3 \in 0..n /\ f[3].at \in Later
        BY <2>1, <2>4, <3>1 DEF Later
      <4>2. f[n] \in ReadStates
        BY <1>5, <1>6
      <4> QED BY <1>1, <1>4, <3>1, <3>2, <4>1, <4>2, HarmlessRest
    <3>4. f[n].at \in {"line", "skip", "failed"} /\ Len(f[n].grants) = 0
      <4>1. n = 3 \/ 3 < n
        BY <2>1, <2>4
      <4> QED BY <1>9, <3>1, <3>3, <4>1 DEF Alike, Later
    <3>5. end.at \in {"line", "failed"} /\ end.grants = f[n].grants
      BY <1>4, <3>3, <3>4 DEF Consume, ReadStates
    <3>6. Len(name) = 1 => end.at = "line"
      <4>1. ASSUME Len(name) = 1 PROVE n = 3
        BY <2>1, <4>1
      <4> QED BY <1>4, <3>1, <4>1 DEF Consume
    <3> QED BY <1>3, <3>4, <3>5, <3>6 DEF name
  <2> QED BY <2>1, <2>3, <2>4
<1> QED BY <1>10, <1>11

(***************************************************************************)
(* The line of a grant.                                                     *)
(***************************************************************************)
\* What the line says of the grantee: getlogging calls two groups "All Users".
PrintedType(l, granteeType) ==
  IF l = "logging" /\ granteeType = "LogDelivery" THEN "AllUsers" ELSE granteeType

\* Its display name is one word.
OneName(grant) == grant.granteeType = "CanonicalUser" => Len(grant.displayName) = 1

NewGrant(granteeType) ==
  [granteeType |-> granteeType, id |-> <<>>, displayName |-> <<>>, permission |-> Unset]

\* The grants of the lines above, and the one of this line.
WithLast(all, grants, grant) == all = Append(grants, grant)

\* Fields are those of the last grant.
LEMMA FilledLast ==
  ASSUME NEW st \in ReadStates, st.at \in InGrant, NEW grants \in Seq(PartGrants), NEW grant,
         WithLast(st.grants, grants, grant),
         NEW field \in {"granteeType", "id", "displayName", "permission"}, NEW value, NEW at
  PROVE  /\ Filled(st, field, value, at).at = at
         /\ WithLast(Filled(st, field, value, at).grants, grants, [grant EXCEPT ![field] = value])
<1> DEFINE n == Len(grants)
           new == [grant EXCEPT ![field] = value]
           S == PartGrants \cup {grant, new}
           g == st.grants
           now == [g EXCEPT ![Len(g)] = [g[Len(g)] EXCEPT ![field] = value]]
<1>1. g = Append(grants, grant) /\ grants \in Seq(S) /\ grant \in S /\ new \in S
  BY DEF WithLast
<1>2. Filled(st, field, value, at) = [st EXCEPT !.at = at, !.grants = now]
  BY DEF Filled, ReadStates
<1>3. [st EXCEPT !.at = at, !.grants = now].at = at /\ [st EXCEPT !.at = at, !.grants = now].grants = now
  BY DEF ReadStates
<1>4. now = Append(grants, new)
  <2>1. n \in Nat /\ Len(g) = n + 1 /\ g \in Seq(S) /\ g[n + 1] = grant /\ \A i \in 1..n : g[i] = grants[i]
    <3> HIDE DEF S, g, new
    <3> QED BY <1>1
  <2>2. now = [g EXCEPT ![n + 1] = new]
    BY <2>1
  <2> HIDE DEF S, g, now, new
  <2> DEFINE a == Append(grants, new)
  <2>3. a \in Seq(S) /\ Len(a) = n + 1 /\ a[n + 1] = new /\ \A i \in 1..n : a[i] = grants[i]
    BY <1>1
  <2>4. now \in Seq(S) /\ Len(now) = n + 1 /\ now[n + 1] = new /\ \A i \in 1..n : now[i] = g[i]
    <3>1. n + 1 \in 1..Len(g) /\ \A i \in 1..n : i \in 1..Len(g) /\ i # n + 1
      BY <2>1
    <3> DEFINE k == n + 1
    <3> HIDE DEF k
    <3>2. g \in Seq(S) /\ k \in 1..Len(g) /\ now = [g EXCEPT ![k] = new]
      BY <2>1, <2>2, <3>1 DEF k
    <3> DEFINE e == [g EXCEPT ![k] = new]
    <3>3. e \in Seq(S) /\ Len(e) = Len(g) /\ \A i \in 1..Len(g) : e[i] = IF i = k THEN new ELSE g[i]
      <4>1. ASSUME NEW s \in Seq(S), NEW j \in 1..Len(s), NEW v \in S
            PROVE  /\ [s EXCEPT ![j] = v] \in Seq(S) /\ Len([s EXCEPT ![j] = v]) = Len(s)
                   /\ \A i \in 1..Len(s) : [s EXCEPT ![j] = v][i] = IF i = j THEN v ELSE s[i]
        BY <4>1, ExceptSeq
      <4>2. g \in Seq(S) /\ k \in 1..Len(g) /\ new \in S
        BY <1>1, <3>2
      <4> QED BY <4>1, <4>2
    <3> HIDE DEF e
    <3>4. now = e
      BY <3>2 DEF e
    <3> QED BY <2>1, <3>1, <3>3, <3>4 DEF k
  <2> HIDE DEF a
  <2>5. \A i \in 1..Len(a) : a[i] = now[i]
    <3>1. \A i \in 1..(n + 1) : i \in 1..n \/ i = n + 1
      BY <2>1
    <3> QED BY <2>1, <2>3, <2>4, <3>1
  <2>6. a = now
    BY <2>3, <2>4, <2>5, SeqEqual
  <2> QED BY <2>6 DEF a
<1> HIDE DEF now, new, g
<1> QED BY <1>2, <1>3, <1>4 DEF new, WithLast

\* The first word of a line begins a grant,
LEMMA KeywordRead ==
  ASSUME NEW st \in ReadStates, st.at = "line", Len(st.grants) < MaxGrants,
         NEW keyword, NEW granteeType, NEW at, NEW word, word = <<keyword>>,
         \/ keyword = "Email" /\ granteeType = "AmazonCustomerByEmail" /\ at = "email"
         \/ keyword = "UserID" /\ granteeType = "CanonicalUser" /\ at = "userId"
         \/ keyword = "Group" /\ granteeType = "AllUsers" /\ at = "group"
  PROVE  Consume(st, word).at = at /\ WithLast(Consume(st, word).grants, st.grants, NewGrant(granteeType))
<1>1. word # Newline
  <2>1. <<keyword>> \in Words
    BY PrintedPieces, OneWord
  <2> QED BY <2>1, WordsAre
<1>2. Head(word) = keyword /\ Len(word) = 1
  OBVIOUS
<1>3. Consume(st, word) = LineStart(st, word)
  BY <1>1 DEF Consume
<1>4. LineStart(st, word) = Grant(st, word)
  BY <1>2 DEF LineStart, WordBegins
<1>5. Len(st.grants) # MaxGrants
  BY StatesAre, S3AclAssumption
<1>6. Grant(st, word) = Found(st, granteeType, at)
  BY <1>2, <1>5 DEF Grant, WordBegins, AfterKeyword
<1> QED BY <1>3, <1>4, <1>5, <1>6, FoundKeeps DEF NewGrant, WithLast

\* its permission ends it.
LEMMA PermissionRead ==
  ASSUME NEW st \in ReadStates, st.at = "permission", NEW permission \in Permissions,
         NEW grants \in Seq(PartGrants), NEW grant, WithLast(st.grants, grants, grant)
  PROVE  LET s == Consume(st, <<permission>>)
         IN  s.at = "line" /\ WithLast(s.grants, grants, [grant EXCEPT !.permission = permission])
<1>1. <<permission>> # Newline
  <2>1. <<permission>> \in Words
    BY PrintedPieces, OneWord
  <2> QED BY <2>1, WordsAre
<1>2. Head(<<permission>>) = permission /\ Len(<<permission>>) = 1
  OBVIOUS
<1>3. Consume(st, <<permission>>) = Filled(st, "permission", permission, "line")
  BY <1>1, <1>2 DEF Consume, Permission
<1>4. st.at \in InGrant
  BY DEF InGrant
<1>5. /\ Filled(st, "permission", permission, "line").at = "line"
      /\ WithLast(Filled(st, "permission", permission, "line").grants, grants,
                  [grant EXCEPT !["permission"] = permission])
  BY <1>4, FilledLast
<1> QED BY <1>3, <1>5

\* The words of the line.
LEMMA GrantLineIs ==
  ASSUME NEW l, NEW grant \in AclGrants
  PROVE  LET line == GrantLine(l, grant)
             name == Composed(grant.displayName)
         IN  /\ line \in Seq(Words) /\ Len(line) \in Nat /\ line[Len(line)] = <<grant.permission>>
             /\ grant.permission \in Permissions
             /\ grant.granteeType = "AmazonCustomerByEmail" =>
                  Len(line) = 3 /\ line[1] = <<"Email">> /\ line[2] = grant.id
             /\ grant.granteeType = "CanonicalUser" =>
                  /\ Len(name) \in Nat \ {0} /\ Len(line) = Len(name) + 3
                  /\ line[1] = <<"UserID">> /\ line[2] = grant.id
                  /\ \A i \in 1..Len(name) : line[i + 2] = name[i]
             /\ grant.granteeType \in Groups =>
                  Len(line) = 3 /\ line[1] = <<"Group">> /\ line[2] = Group(l, grant.granteeType)
<1> DEFINE line == GrantLine(l, grant)
           name == Composed(grant.displayName)
           last == << <<grant.permission>> >>
           W == Words
<1>1. /\ grant.permission \in Permissions /\ grant.displayName \in Seq(Words)
      /\ grant.granteeType \in GranteeTypes /\ (grant.granteeType \notin Groups => grant.id \in W)
  BY DEF AclGrants, MaybeWords
<1>2. line \in Seq(W) /\ Len(line) \in Nat
  BY GrantLineType, LenProperties
<1>3. name \in Seq(W) /\ Len(name) \in Nat \ {0}
  <2>1. name \in Seq(W) /\ Len(name) = IF grant.displayName = <<>> THEN 1 ELSE Len(grant.displayName)
    BY <1>1, ComposedIs
  <2> DEFINE d == grant.displayName
  <2>2. d # <<>> => Len(d) \in Nat \ {0}
    BY <1>1, EmptySeq, LenProperties
  <2> QED BY <2>1, <2>2
<1>4. /\ <<"Email">> \in W /\ <<"UserID">> \in W /\ <<"Group">> \in W /\ Group(l, grant.granteeType) \in W
      /\ <<grant.permission>> \in W
  BY <1>1, PrintedPieces, OneWord, GroupType
<1>5. last \in Seq(W) /\ Len(last) = 1 /\ last[1] = <<grant.permission>>
  <2> HIDE DEF W
  <2> QED BY <1>4
<1>6. "AmazonCustomerByEmail" \notin Groups /\ "CanonicalUser" \notin Groups
      /\ GranteeTypes = {"AmazonCustomerByEmail", "CanonicalUser"} \cup Groups
  BY DEF Groups, GranteeTypes
<1>7. ASSUME NEW a \in Seq(W), NEW b \in Seq(W)
      PROVE  /\ a \o b \in Seq(W) /\ Len(a \o b) = Len(a) + Len(b) /\ Len(a) \in Nat /\ Len(b) \in Nat
             /\ \A i \in 1..(Len(a) + Len(b)) : (a \o b)[i] = IF i <= Len(a) THEN a[i] ELSE b[i - Len(a)]
  BY <1>7, ConcatProperties, LenProperties
<1>8. ASSUME NEW v \in W, NEW w \in W
      PROVE  <<v, w>> \in Seq(W) /\ Len(<<v, w>>) = 2 /\ <<v, w>>[1] = v /\ <<v, w>>[2] = w
  <2> HIDE DEF W
  <2> QED OBVIOUS
<1> DEFINE Short(v, w) == Len(line) = 3 /\ line[1] = v /\ line[2] = w /\ line[Len(line)] = <<grant.permission>>
<1>9. ASSUME NEW v \in W, NEW w \in W, line = <<v, w>> \o last PROVE Short(v, w)
  <2> DEFINE a == <<v, w>>
             p == <<grant.permission>>
  <2>1. a \in Seq(W) /\ Len(a) = 2 /\ a[1] = v /\ a[2] = w
    BY <1>8
  <2> HIDE DEF a, last, line, p, W
  <2>2. Len(a \o last) = 3 /\ (a \o last)[1] = v /\ (a \o last)[2] = w /\ (a \o last)[3] = p
    <3> DEFINE d == a \o last
    <3>1. /\ Len(d) = Len(a) + Len(last)
          /\ \A i \in 1..(Len(a) + Len(last)) : d[i] = IF i <= Len(a) THEN a[i] ELSE last[i - Len(a)]
      BY <1>5, <1>7, <2>1
    <3> HIDE DEF d
    <3>2. Len(d) = 3 /\ d[1] = v /\ d[2] = w /\ d[3] = p
      BY <1>5, <2>1, <3>1 DEF p
    <3> QED BY <3>2 DEF d
  <2>3. line = a \o last
    BY <1>9 DEF a, line
  <2> QED BY <2>2, <2>3 DEF p
<1>10. CASE grant.granteeType = "AmazonCustomerByEmail"
  <2>1. line = << <<"Email">>, grant.id >> \o last
    BY <1>10 DEF GrantLine
  <2>2. Short(<<"Email">>, grant.id)
    <3> HIDE DEF line, Short, W, last
    <3> QED BY <1>1, <1>4, <1>6, <1>9, <1>10, <2>1
  <2> HIDE DEF line
  <2> QED BY <1>1, <1>2, <1>6, <1>10, <2>2 DEF line
<1>11. CASE grant.granteeType \in Groups
  <2>1. line = << <<"Group">>, Group(l, grant.granteeType) >> \o last
    <3>1. grant.granteeType # "AmazonCustomerByEmail" /\ grant.granteeType # "CanonicalUser"
      BY <1>6, <1>11
    <3> QED BY <3>1 DEF GrantLine
  <2>2. Short(<<"Group">>, Group(l, grant.granteeType))
    <3> HIDE DEF line, Short, W, last
    <3> QED BY <1>4, <1>9, <2>1
  <2> HIDE DEF line
  <2> QED BY <1>1, <1>2, <1>6, <1>11, <2>2 DEF line
<1>12. CASE grant.granteeType = "CanonicalUser"
  <2> DEFINE a == << <<"UserID">>, grant.id >>
             b == a \o name
             k == Len(name)
             p == <<grant.permission>>
             u == <<"UserID">>
             id == grant.id
  <2>1. line = b \o last
    BY <1>12 DEF GrantLine
  <2>2. a \in Seq(W) /\ Len(a) = 2 /\ a[1] = u /\ a[2] = id
    BY <1>1, <1>4, <1>6, <1>8, <1>12
  <2> HIDE DEF line, name, last, a, W, p, u, id
  <2>3. /\ b \in Seq(W) /\ Len(b) = k + 2 /\ k \in Nat \ {0} /\ b[1] = u /\ b[2] = id
        /\ \A i \in 1..k : b[i + 2] = name[i]
    <3>1. /\ b \in Seq(W) /\ Len(b) = Len(a) + Len(name)
          /\ \A i \in 1..(Len(a) + Len(name)) : b[i] = IF i <= Len(a) THEN a[i] ELSE name[i - Len(a)]
      BY <1>3, <1>7, <2>2
    <3> HIDE DEF b
    <3> QED BY <1>3, <2>2, <3>1
  <2> HIDE DEF b
  <2>4. /\ Len(line) = (k + 2) + 1
        /\ \A i \in 1..((k + 2) + 1) : line[i] = IF i <= k + 2 THEN b[i] ELSE last[i - (k + 2)]
    <3> DEFINE d == b \o last
    <3>1. /\ Len(d) = Len(b) + Len(last)
          /\ \A i \in 1..(Len(b) + Len(last)) : d[i] = IF i <= Len(b) THEN b[i] ELSE last[i - Len(b)]
      BY <1>5, <1>7, <2>3
    <3> HIDE DEF d, k
    <3>2. line = d
      BY <2>1 DEF d
    <3> QED BY <1>5, <2>3, <3>1, <3>2
  <2> HIDE DEF k
  <2>5. /\ Len(line) = k + 3 /\ line[1] = u /\ line[2] = id
        /\ \A i \in 1..k : line[i + 2] = name[i]
        /\ line[k + 3] = last[1]
    <3>1. /\ 1 \in 1..((k + 2) + 1) /\ 2 \in 1..((k + 2) + 1) /\ 1 <= k + 2 /\ 2 <= k + 2
          /\ k + 3 \in 1..((k + 2) + 1) /\ ~(k + 3 <= k + 2) /\ (k + 3) - (k + 2) = 1 /\ (k + 2) + 1 = k + 3
          /\ \A i \in 1..k : i + 2 \in 1..((k + 2) + 1) /\ i + 2 <= k + 2
      BY <2>3
    <3> QED BY <2>3, <2>4, <3>1
  <2>6. "CanonicalUser" # "AmazonCustomerByEmail"
    OBVIOUS
  <2> QED BY <1>1, <1>2, <1>3, <1>5, <1>6, <1>12, <2>5, <2>6 DEF line, name, k, u, id, W
<1> QED BY <1>1, <1>6, <1>10, <1>11, <1>12

\* What a line of a grant adds to what was read.
GrantRead(new, old, l, grant) ==
  /\ Len(new) = Len(old) + 1
  /\ \A i \in 1..Len(old) :
       /\ new[i].granteeType = old[i].granteeType /\ new[i].id = old[i].id
       /\ OneName(grant) => new[i].permission = old[i].permission
  /\ new[Len(old) + 1].granteeType = PrintedType(l, grant.granteeType)
  /\ new[Len(old) + 1].id = grant.id
  /\ OneName(grant) => new[Len(old) + 1].permission = grant.permission

\* Only the last grant is new.
LEMMA LastRead ==
  ASSUME NEW old \in Seq(PartGrants), NEW g, NEW all, WithLast(all, old, g), NEW new, Alike(new, all),
         NEW l, NEW grant,
         g.granteeType = PrintedType(l, grant.granteeType), g.id = grant.id,
         OneName(grant) => new = all /\ g.permission = grant.permission
  PROVE  GrantRead(new, old, l, grant)
<1> DEFINE n == Len(old)
           S == PartGrants \cup {g}
<1>1. n \in Nat /\ Len(all) = n + 1 /\ all[n + 1] = g /\ \A i \in 1..n : all[i] = old[i]
  <2>1. old \in Seq(S) /\ g \in S /\ all = Append(old, g)
    BY DEF WithLast
  <2> HIDE DEF S
  <2> QED BY <2>1
<1>2. \A i \in 1..n : i \in 1..(n + 1) /\ n + 1 \in 1..(n + 1)
  BY <1>1
<1>3. n + 1 \in 1..(n + 1)
  BY <1>1
<1> HIDE DEF n
<1>4. Len(new) = n + 1 /\ \A i \in 1..(n + 1) : new[i].granteeType = all[i].granteeType /\ new[i].id = all[i].id
  BY <1>1 DEF Alike
<1> QED BY <1>1, <1>2, <1>3, <1>4 DEF GrantRead, n

\* The grantee is known, and not yet the permission.
SaysGrantee(g, l, grant) ==
  /\ g.granteeType = PrintedType(l, grant.granteeType) /\ g.id = grant.id
  /\ g = [NewGrant(g.granteeType) EXCEPT !.id = grant.id, !.displayName = g.displayName]

\* The first word of a line, and the one that says who it is.
LEMMA GranteeRead ==
  ASSUME NEW st \in ReadStates, st.at = "line", Len(st.grants) < MaxGrants, NEW l \in Lists,
         NEW grant \in AclGrants,
         NEW line, line = GrantLine(l, grant), NEW f, Through(f, st, line)
  PROVE  /\ \E g : WithLast(f[2].grants, st.grants, g) /\ SaysGrantee(g, l, grant)
         /\ f[2].at = IF grant.granteeType = "CanonicalUser" THEN "userName" ELSE "permission"
<1>1. /\ line \in Seq(Words) /\ Len(line) \in Nat
      /\ grant.granteeType = "AmazonCustomerByEmail" =>
           Len(line) = 3 /\ line[1] = <<"Email">> /\ line[2] = grant.id
      /\ grant.granteeType = "CanonicalUser" =>
           Len(line) > 3 /\ line[1] = <<"UserID">> /\ line[2] = grant.id
      /\ grant.granteeType \in Groups =>
           Len(line) = 3 /\ line[1] = <<"Group">> /\ line[2] = Group(l, grant.granteeType)
  BY GrantLineIs
<1>2. /\ grant.granteeType \in GranteeTypes
      /\ grant.id = <<>> <=> grant.granteeType \in Groups
      /\ GranteeTypes = {"AmazonCustomerByEmail", "CanonicalUser"} \cup Groups
      /\ "AmazonCustomerByEmail" \notin Groups /\ "CanonicalUser" \notin Groups /\ "LogDelivery" \in Groups
  BY DEF AclGrants, GranteeTypes, Groups
<1>3. Len(line) \in Nat /\ Len(line) >= 3
  <2> DEFINE n == Len(line)
  <2>1. n \in Nat /\ (n = 3 \/ n > 3)
    BY <1>1, <1>2, Zenon
  <2> HIDE DEF n
  <2>2. n >= 3
    BY <2>1
  <2> QED BY <1>1, <2>2 DEF n
<1>4. /\ f[0] = st /\ f[1] \in ReadStates /\ f[2] \in ReadStates /\ line[2] \in Words
      /\ f[1] = Consume(st, line[1]) /\ f[2] = Consume(f[1], line[2])
  <2>1. /\ f \in [0..Len(line) -> ReadStates] /\ f[0] = st
        /\ \A i \in 1..Len(line) : f[i] = Consume(f[i - 1], line[i])
    BY DEF Through
  <2>2. 1 \in 1..Len(line) /\ 2 \in 1..Len(line) /\ 1 \in 0..Len(line) /\ 2 \in 0..Len(line)
    BY <1>3
  <2>3. f[1] = Consume(f[1 - 1], line[1]) /\ f[2] = Consume(f[2 - 1], line[2])
    BY <2>1, <2>2
  <2> QED BY <1>1, <2>1, <2>2, <2>3, ElementOfSeq
<1>5. line[2] # Newline /\ st.grants \in Seq(PartGrants)
  BY <1>4, WordsAre, StatesAre
<1> DEFINE id == grant.id
           Named(t) == [NewGrant(t) EXCEPT !.id = id]
<1>7. ASSUME NEW t, NEW at, f[1].at \in {"email", "userId"}, WithLast(f[1].grants, st.grants, NewGrant(t)),
             f[2] = Filled(f[1], "id", id, at)
      PROVE  f[2].at = at /\ WithLast(f[2].grants, st.grants, Named(t))
  <2>1. f[1].at \in InGrant
    BY <1>7 DEF InGrant
  <2>2. /\ Filled(f[1], "id", id, at).at = at
        /\ WithLast(Filled(f[1], "id", id, at).grants, st.grants, [NewGrant(t) EXCEPT !["id"] = id])
    BY <1>4, <1>5, <1>7, <2>1, FilledLast
  <2> QED BY <1>7, <2>2
<1>6. ASSUME NEW t, t = PrintedType(l, grant.granteeType) PROVE SaysGrantee(Named(t), l, grant)
  BY <1>6 DEF SaysGrantee, NewGrant
<1> HIDE DEF Named, id
<1>8. CASE grant.granteeType = "AmazonCustomerByEmail"
  <2>1. f[1].at = "email" /\ WithLast(f[1].grants, st.grants, NewGrant("AmazonCustomerByEmail"))
    <3> DEFINE word == line[1]
    <3>1. word = <<"Email">> /\ f[1] = Consume(st, word)
      BY <1>1, <1>4, <1>8
    <3> HIDE DEF word
    <3> QED BY <3>1, KeywordRead
  <2>2. f[2] = Filled(f[1], "id", id, "permission")
    BY <1>1, <1>4, <1>5, <1>8, <2>1 DEF Consume, Field, id
  <2>3. f[2].at = "permission" /\ WithLast(f[2].grants, st.grants, Named("AmazonCustomerByEmail"))
    BY <1>7, <2>1, <2>2
  <2>4. SaysGrantee(Named("AmazonCustomerByEmail"), l, grant)
    <3>1. PrintedType(l, grant.granteeType) = "AmazonCustomerByEmail"
      BY <1>8 DEF PrintedType
    <3> QED BY <1>6, <3>1
  <2> QED BY <1>8, <2>3, <2>4
<1>9. CASE grant.granteeType = "CanonicalUser"
  <2>1. f[1].at = "userId" /\ WithLast(f[1].grants, st.grants, NewGrant("CanonicalUser"))
    <3> DEFINE word == line[1]
    <3>1. word = <<"UserID">> /\ f[1] = Consume(st, word)
      BY <1>1, <1>4, <1>9
    <3> HIDE DEF word
    <3> QED BY <3>1, KeywordRead
  <2>2. f[2] = Filled(f[1], "id", id, "userName")
    BY <1>1, <1>4, <1>5, <1>9, <2>1 DEF Consume, Field, id
  <2>3. f[2].at = "userName" /\ WithLast(f[2].grants, st.grants, Named("CanonicalUser"))
    BY <1>7, <2>1, <2>2
  <2>4. SaysGrantee(Named("CanonicalUser"), l, grant)
    <3>1. PrintedType(l, grant.granteeType) = "CanonicalUser"
      BY <1>9 DEF PrintedType
    <3> QED BY <1>6, <3>1
  <2> QED BY <1>9, <2>3, <2>4
<1>10. CASE grant.granteeType \in Groups
  <2> DEFINE t == PrintedType(l, grant.granteeType)
  <2>1. f[1].at = "group" /\ WithLast(f[1].grants, st.grants, NewGrant("AllUsers"))
    <3> DEFINE word == line[1]
    <3>1. word = <<"Group">> /\ f[1] = Consume(st, word)
      BY <1>1, <1>4, <1>10
    <3> HIDE DEF word
    <3> QED BY <3>1, KeywordRead
  <2>2. f[2] = Filled(f[1], "granteeType", t, "permission")
    <3>1. f[2] = Field(f[1], Group(l, grant.granteeType))
      BY <1>1, <1>4, <1>5, <1>10, <2>1 DEF Consume
    <3>2. /\ <<"Authenticated AWS Users">> # <<"All Users">> /\ <<"Authenticated AWS Users">> # <<"Log Delivery">>
          /\ <<"All Users">> # <<"Log Delivery">>
      OBVIOUS
    <3>3. \/ Group(l, grant.granteeType) = <<"Authenticated AWS Users">> /\ t = "AllAwsUsers"
          \/ Group(l, grant.granteeType) = <<"All Users">> /\ t = "AllUsers"
          \/ Group(l, grant.granteeType) = <<"Log Delivery">> /\ t = "LogDelivery"
      <4>1. CASE grant.granteeType = "AllAwsUsers"
        <5>1. t = "AllAwsUsers"
          BY <4>1 DEF PrintedType
        <5>2. Group(l, grant.granteeType) = <<"Authenticated AWS Users">>
          BY <4>1 DEF Group
        <5> HIDE DEF t
        <5> QED BY <5>1, <5>2
      <4>2. CASE grant.granteeType = "AllUsers"
        <5>1. t = "AllUsers"
          BY <4>2 DEF PrintedType
        <5>2. Group(l, grant.granteeType) = <<"All Users">>
          BY <4>2 DEF Group
        <5> HIDE DEF t
        <5> QED BY <5>1, <5>2
      <4>3. CASE grant.granteeType = "LogDelivery" /\ l = "acl"
        BY <4>3 DEF Group, PrintedType
      <4>4. CASE grant.granteeType = "LogDelivery" /\ l = "logging"
        <5>1. t = "AllUsers"
          BY <4>4 DEF PrintedType
        <5>2. Group(l, grant.granteeType) = <<"All Users">>
          BY <4>4 DEF Group
        <5> HIDE DEF t
        <5> QED BY <5>1, <5>2
      <4> QED BY <1>10, <4>1, <4>2, <4>3, <4>4 DEF Groups, Lists
    <3> QED BY <2>1, <3>1, <3>2, <3>3 DEF Field
  <2>3. /\ f[2].at = "permission"
        /\ WithLast(f[2].grants, st.grants, [NewGrant("AllUsers") EXCEPT !["granteeType"] = t])
    <3>1. f[1].at \in InGrant
      BY <2>1 DEF InGrant
    <3> HIDE DEF t
    <3> QED BY <1>4, <1>5, <2>1, <2>2, <3>1, FilledLast
  <2>4. [NewGrant("AllUsers") EXCEPT !["granteeType"] = t] = Named(t)
    <3>1. id = <<>>
      BY <1>2, <1>10 DEF id
    <3> HIDE DEF t
    <3> QED BY <3>1 DEF NewGrant, Named
  <2>5. WithLast(f[2].grants, st.grants, Named(t))
    BY <2>3, <2>4
  <2>6. SaysGrantee(Named(t), l, grant)
    BY <1>6
  <2> HIDE DEF t
  <2> QED BY <1>2, <1>10, <2>3, <2>5, <2>6
<1> QED BY <1>2, <1>8, <1>9, <1>10

\* The words that follow the first one of a display name, and the permission.
LEMMA RestHarmless ==
  ASSUME NEW l, NEW grant \in AclGrants, grant.granteeType = "CanonicalUser", NoKeywords(grant.displayName),
         NEW i \in 4..Len(GrantLine(l, grant))
  PROVE  Harmless(GrantLine(l, grant)[i])
<1> DEFINE line == GrantLine(l, grant)
           d == grant.displayName
           name == Composed(d)
           k == Len(name)
           word == line[i]
<1>1. /\ d \in Seq(Words) /\ Len(line) = k + 3 /\ k \in Nat \ {0} /\ line[k + 3] = <<grant.permission>>
      /\ \A j \in 1..k : line[j + 2] = name[j]
      /\ grant.permission \in Permissions
  <2>1. d \in Seq(Words)
    BY DEF AclGrants
  <2>2. /\ Len(line) = k + 3 /\ k \in Nat \ {0} /\ line[Len(line)] = <<grant.permission>>
        /\ grant.permission \in Permissions /\ \A j \in 1..k : line[j + 2] = name[j]
    BY GrantLineIs
  <2> QED BY <2>1, <2>2
<1>2. /\ Len(d) \in Nat /\ k = IF d = <<>> THEN 1 ELSE Len(d)
      /\ \A j \in 2..Len(d) : name[j] \in {d[j], d[j] \o <<")">>}
  BY <1>1, ComposedIs, LenProperties
<1> HIDE DEF line, name, k
<1>3. CASE i = k + 3
  <2>1. grant.permission \notin Keywords
    BY <1>1 DEF Permissions, Keywords
  <2>2. line[i] = <<grant.permission>>
    BY <1>1, <1>3
  <2> QED BY <2>1, <2>2 DEF Harmless, line
<1>4. CASE i # k + 3
  <2>1. i - 2 \in 2..k /\ i - 2 \in 1..k /\ (i - 2) + 2 = i
    BY <1>1, <1>4 DEF line
  <2>2. i - 2 \in 2..Len(d) /\ i - 2 \in 1..Len(d)
    <3>1. k # 1
      BY <1>1, <2>1
    <3> QED BY <1>2, <2>1, <3>1
  <2> DEFINE w == d[i - 2]
  <2>3. line[i] \in {w, w \o <<")">>} /\ w \in Words
    <3>1. line[(i - 2) + 2] = name[i - 2] /\ d[i - 2] \in Words
      BY <1>1, <2>1, <2>2
    <3>2. name[i - 2] \in {d[i - 2], d[i - 2] \o <<")">>}
      BY <1>2, <2>2
    <3>3. line[i] = name[i - 2]
      BY <2>1, <3>1
    <3> QED BY <3>1, <3>2, <3>3
  <2>4. \A j \in DOMAIN w : w[j] \notin Keywords
    BY <2>2 DEF NoKeywords
  <2> HIDE DEF w, d
  <2>5. \A j \in 1..Len(w) : w[j] \notin Keywords
    BY <2>3, <2>4, WordsAre, LenProperties
  <2>6. ASSUME NEW j \in 1..Len(w \o <<")">>) PROVE (w \o <<")">>)[j] \notin Keywords
    <3> DEFINE e == <<")">>
               P == Pieces
    <3>1. w \in Seq(P) /\ e \in Seq(P) /\ Len(e) = 1 /\ e[1] = ")" /\ Len(w) \in Nat
      <4>1. ")" \in P
        BY PrintedPieces
      <4> HIDE DEF P
      <4>2. e \in Seq(P) /\ Len(e) = 1 /\ e[1] = ")"
        BY <4>1
      <4> QED BY <2>3, <4>2, WordsAre DEF P
    <3> HIDE DEF e, P
    <3>2. /\ Len(w \o e) = Len(w) + Len(e)
          /\ \A m \in 1..(Len(w) + Len(e)) : (w \o e)[m] = IF m <= Len(w) THEN w[m] ELSE e[m - Len(w)]
      BY <3>1, ConcatProperties
    <3>3. j \in 1..Len(w \o e)
      BY DEF e
    <3> DEFINE v == w \o e
    <3> HIDE DEF v
    <3>4. j \in 1..(Len(w) + 1) /\ v[j] = IF j <= Len(w) THEN w[j] ELSE e[j - Len(w)]
      BY <3>1, <3>2, <3>3 DEF v
    <3>5. v[j] \notin Keywords
      <4>1. CASE j <= Len(w)
        <5>1. j \in 1..Len(w)
          BY <3>1, <3>4, <4>1
        <5> QED BY <2>5, <3>4, <4>1, <5>1
      <4>2. CASE ~(j <= Len(w))
        <5>1. j - Len(w) = 1
          BY <3>1, <3>4, <4>2
        <5>2. v[j] = ")"
          BY <3>1, <3>4, <4>2, <5>1
        <5> QED BY <5>2 DEF Keywords
      <4> QED BY <4>1, <4>2
    <3> QED BY <3>5 DEF v, e
  <2>7. CASE line[i] = w
    BY <2>5, <2>7 DEF Harmless, line
  <2>8. CASE line[i] = w \o <<")">>
    <3> DEFINE v == w \o <<")">>
    <3>1. \A j \in 1..Len(v) : v[j] \notin Keywords
      BY <2>6
    <3> HIDE DEF v
    <3>2. line[i] = v
      BY <2>8 DEF v
    <3> QED BY <3>1, <3>2 DEF Harmless, line
  <2> QED BY <2>3, <2>7, <2>8
<1> QED BY <1>3, <1>4

\* A line that says who it is up to its permission and is at its end with it.
LEMMA LineEnds ==
  ASSUME NEW st \in ReadStates, st.at = "permission", NEW permission \in Permissions,
         NEW old \in Seq(PartGrants), NEW g, WithLast(st.grants, old, g),
         NEW l, NEW grant, SaysGrantee(g, l, grant), permission = grant.permission,
         NEW word, word = <<permission>>, NEW end, end = Consume(Consume(st, word), Newline)
  PROVE  end.at = "line" /\ GrantRead(end.grants, old, l, grant)
<1> DEFINE s == Consume(st, word)
           h == [g EXCEPT !.permission = permission]
<1>1. s.at = "line" /\ WithLast(s.grants, old, h)
  BY PermissionRead
<1>2. h.granteeType = PrintedType(l, grant.granteeType) /\ h.id = grant.id /\ h.permission = permission
  BY DEF NewGrant, SaysGrantee
<1> HIDE DEF s, h
<1>3. end = s
  BY <1>1 DEF Consume, s
<1>4. Alike(s.grants, s.grants)
  BY DEF Alike
<1> QED BY <1>1, <1>2, <1>3, <1>4, LastRead

\* A line leaves its grant, or the text is refused; with a name of one word it is not.
LEMMA GrantLineRead ==
  ASSUME NEW st \in ReadStates, st.at = "line", Len(st.grants) < MaxGrants, NEW l \in Lists,
         NEW grant \in AclGrants, grant.granteeType = "CanonicalUser" => NoKeywords(grant.displayName),
         NEW end, end = ReadLine(st, GrantLine(l, grant))
  PROVE  /\ end \in ReadStates /\ end.at \in {"line", "failed"}
         /\ GrantRead(end.grants, st.grants, l, grant)
         /\ OneName(grant) => end.at = "line"
<1> DEFINE line == GrantLine(l, grant)
           n == Len(line)
           old == st.grants
<1>1. /\ line \in Seq(Words) /\ n \in Nat /\ line[n] = <<grant.permission>> /\ grant.permission \in Permissions
      /\ old \in Seq(PartGrants)
  BY GrantLineIs, StatesAre
<1>2. PICK f : Through(f, st, line) /\ end = Consume(f[n], Newline)
  BY <1>1, ReadsLine
<1>3. /\ end \in ReadStates /\ \A i \in 0..n : f[i] \in ReadStates
      /\ \A i \in 1..n : f[i] = Consume(f[i - 1], line[i]) /\ line[i] \in Words
  <2>1. end \in ReadStates
    BY <1>1, ReadsLine
  <2>2. f \in [0..n -> ReadStates] /\ \A i \in 1..n : f[i] = Consume(f[i - 1], line[i])
    BY <1>2 DEF Through
  <2>3. \A i \in 1..n : line[i] \in Words
    BY <1>1, ElementOfSeq
  <2> QED BY <2>1, <2>2, <2>3
<1>4. /\ \E g : WithLast(f[2].grants, old, g) /\ SaysGrantee(g, l, grant)
      /\ f[2].at = IF grant.granteeType = "CanonicalUser" THEN "userName" ELSE "permission"
  <2> DEFINE c == line
  <2>1. c = GrantLine(l, grant) /\ Through(f, st, c)
    BY <1>2
  <2> HIDE DEF c
  <2> QED BY <2>1, GranteeRead
<1>5. PICK g : WithLast(f[2].grants, old, g) /\ SaysGrantee(g, l, grant)
  BY <1>4
<1>6. CASE grant.granteeType # "CanonicalUser"
  <2>1. n = 3
    <3>1. grant.granteeType = "AmazonCustomerByEmail" \/ grant.granteeType \in Groups
      BY <1>6 DEF AclGrants, GranteeTypes
    <3> QED BY <3>1, GrantLineIs
  <2>2. f[2] \in ReadStates /\ f[3] = Consume(f[2], line[3]) /\ line[3] = <<grant.permission>> /\ f[2].at = "permission"
    BY <1>1, <1>3, <1>4, <1>6, <2>1
  <2> DEFINE word == line[3]
  <2>3. word = <<grant.permission>> /\ end = Consume(Consume(f[2], word), Newline)
    BY <1>2, <2>1, <2>2
  <2> HIDE DEF word, old
  <2>4. end.at = "line" /\ GrantRead(end.grants, old, l, grant)
    BY <1>1, <1>4, <1>5, <2>2, <2>3, LineEnds
  <2> QED BY <1>3, <2>4 DEF old
<1>7. CASE grant.granteeType = "CanonicalUser"
  <2> DEFINE k == Len(Composed(grant.displayName))
             w == line[3]
             h == [g EXCEPT !.displayName = <<w>>]
  <2>1. n = k + 3 /\ k \in Nat \ {0} /\ (OneName(grant) => k = 1)
    <3>1. n = k + 3 /\ k \in Nat \ {0}
      BY <1>7, GrantLineIs
    <3>2. ASSUME Len(grant.displayName) = 1 PROVE k = 1
      <4>1. grant.displayName \in Seq(Words)
        BY DEF AclGrants
      <4>2. grant.displayName # <<>>
        <5>1. Len(<<>>) = 0
          OBVIOUS
        <5> QED BY <3>2, <5>1
      <4> QED BY <3>2, <4>1, <4>2, ComposedIs
    <3> QED BY <1>7, <3>1, <3>2 DEF OneName
  <2>2. /\ f[2] \in ReadStates /\ f[3] \in ReadStates /\ f[4] \in ReadStates /\ w \in Words
        /\ f[3] = Consume(f[2], w) /\ f[2].at = "userName"
    <3>1. 2 \in 0..n /\ 3 \in 0..n /\ 4 \in 0..n /\ 3 \in 1..n /\ 3 - 1 = 2
      BY <2>1
    <3> QED BY <1>3, <1>4, <1>7, <3>1
  <2>3. f[3].at = "permission" /\ WithLast(f[3].grants, old, h)
    <3> HIDE DEF w, old
    <3>1. w # Newline
      BY <2>2, WordsAre
    <3>2. f[3] = Filled(f[2], "displayName", <<w>>, "permission")
      BY <2>2, <3>1 DEF Consume, Field
    <3>3. f[2].at \in InGrant
      BY <2>2 DEF InGrant
    <3> DEFINE v == <<w>>
    <3> HIDE DEF v
    <3>4. /\ Filled(f[2], "displayName", v, "permission").at = "permission"
          /\ WithLast(Filled(f[2], "displayName", v, "permission").grants, old, [g EXCEPT !["displayName"] = v])
      BY <1>1, <1>5, <2>2, <3>3, FilledLast
    <3> QED BY <3>2, <3>4 DEF v
  <2>4. SaysGrantee(h, l, grant)
    <3> HIDE DEF w
    <3> QED BY <1>5 DEF NewGrant, SaysGrantee
  <2> HIDE DEF h, w, k
  <2>5. CASE OneName(grant)
    <3>1. n = 4
      BY <2>1, <2>5
    <3>2. f[4] = Consume(f[3], line[4]) /\ line[4] = <<grant.permission>>
      BY <1>1, <1>3, <3>1
    <3> DEFINE word == line[4]
    <3>3. word = <<grant.permission>> /\ end = Consume(Consume(f[3], word), Newline)
      BY <1>2, <3>1, <3>2
    <3> HIDE DEF word, old
    <3>5. end.at = "line" /\ GrantRead(end.grants, old, l, grant)
      BY <1>1, <2>2, <2>3, <2>4, <3>3, LineEnds
    <3> QED BY <1>3, <3>5 DEF old
  <2>6. CASE ~OneName(grant)
    <3>1. 3 \in 0..n /\ 3 < n /\ n \in 0..n
      BY <2>1
    <3>2. \A i \in (3 + 1)..n : Harmless(line[i])
      BY <1>7, RestHarmless
    <3>3. f[3].at \in Later
      BY <2>3 DEF Later
    <3>4. f[n].at \in Later \ {"permission"} /\ Alike(f[n].grants, f[3].grants) /\ f[n] \in ReadStates
      BY <1>1, <1>2, <1>3, <3>1, <3>2, <3>3, HarmlessRest
    <3>5. end.at \in {"line", "failed"} /\ end.grants = f[n].grants
      BY <1>2, <3>4 DEF Consume, ReadStates, Later
    <3>6. h.granteeType = PrintedType(l, grant.granteeType) /\ h.id = grant.id
      BY <2>4 DEF SaysGrantee
    <3>7. GrantRead(end.grants, old, l, grant)
      BY <3>6, <1>1, <1>4, <2>3, <2>4, <2>6, <3>4, <3>5, LastRead
    <3> QED BY <1>3, <2>6, <3>5, <3>7
  <2> QED BY <2>5, <2>6
<1> QED BY <1>6, <1>7

(***************************************************************************)
(* The whole text, unless a display name looks like a line of its own.      *)
(***************************************************************************)
\* The state at the end of the line of grant i.
UpTo(st, l, list, i) ==
  /\ st \in ReadStates /\ st.at \in {"line", "failed"}
  /\ st.at = "line" =>
       /\ Len(st.grants) = i
       /\ \A j \in 1..i : /\ st.grants[j].granteeType = PrintedType(l, list.grants[j].granteeType)
                          /\ st.grants[j].id = list.grants[j].id
  /\ PlainNames(l, list) =>
       /\ st.at = "line"
       /\ \A j \in 1..i : st.grants[j].permission = list.grants[j].permission

\* The owner and the head of the table leave no grant.
LEMMA AboveRead ==
  ASSUME NEW l \in Lists, NEW list \in AclsTyped, PlainWords(l, list),
         NEW f, f[0] = NothingRead,
         \A i \in 1..Len(Above(l, list)) : f[i] = ReadLine(f[i - 1], Above(l, list)[i])
  PROVE  UpTo(f[Len(Above(l, list))], l, list, 0)
<1> DEFINE a == Above(l, list)
<1>1. NothingRead \in ReadStates /\ NothingRead.at = "line" /\ Len(NothingRead.grants) = 0
  BY NothingReadState DEF NothingRead
<1>2. ASSUME NEW st \in ReadStates, st.at \in {"line", "failed"}, Len(st.grants) = 0,
             PlainNames(l, list) => st.at = "line"
      PROVE  UpTo(st, l, list, 0)
  BY <1>2 DEF UpTo
<1>3. CASE l = "logging"
  <2>1. Len(a) = 2 /\ a[1] = Columns[1] /\ a[2] = Columns[2]
    BY <1>3, AboveType
  <2> HIDE DEF a
  <2>2. f[1] = ReadLine(f[0], Columns[1]) /\ f[2] = ReadLine(f[1], Columns[2])
    <3>1. 1 \in 1..Len(a) /\ 2 \in 1..Len(a) /\ 1 - 1 = 0 /\ 2 - 1 = 1
      BY <2>1
    <3>2. \A i \in 1..Len(a) : f[i] = ReadLine(f[i - 1], a[i])
      BY DEF a
    <3> QED BY <2>1, <3>1, <3>2
  <2>3. f[2] = NothingRead
    BY <1>1, <2>2, ColumnsRead
  <2> QED BY <1>1, <1>2, <2>1, <2>3 DEF a
<1>4. CASE l = "acl"
  <2>1. Len(a) = 3 /\ a[1] = OwnerLine(list) /\ a[2] = Columns[1] /\ a[3] = Columns[2]
    BY <1>4, AboveType
  <2> HIDE DEF a
  <2>2. /\ f[1] = ReadLine(f[0], OwnerLine(list)) /\ f[2] = ReadLine(f[1], Columns[1])
        /\ f[3] = ReadLine(f[2], Columns[2])
    <3>1. 1 \in 1..Len(a) /\ 2 \in 1..Len(a) /\ 3 \in 1..Len(a) /\ 1 - 1 = 0 /\ 2 - 1 = 1 /\ 3 - 1 = 2
      BY <2>1
    <3>2. \A i \in 1..Len(a) : f[i] = ReadLine(f[i - 1], a[i])
      BY DEF a
    <3> QED BY <2>1, <3>1, <3>2
  <2>3. NoKeywords(list.ownerDisplayName) /\ (PlainNames(l, list) => Len(list.ownerDisplayName) = 1)
    BY <1>4 DEF PlainWords, PlainNames
  <2>4. /\ f[1] \in ReadStates /\ Len(f[1].grants) = 0
        /\ f[1].at \in {"ownerId", "ownerName", "line", "failed"}
        /\ PlainNames(l, list) => f[1].at = "line"
    BY <2>2, <2>3, OwnerLineRead
  <2>5. Columns[1] \in Seq(Words) /\ Columns[2] \in Seq(Words)
    <3> DEFINE L == Seq(Words)
               c == Columns
    <3>1. c \in Seq(L) /\ Len(c) = 2
      BY ColumnsType
    <3> HIDE DEF L, c
    <3>2. 1 \in 1..Len(c) /\ 2 \in 1..Len(c)
      BY <3>1
    <3>3. c[1] \in L /\ c[2] \in L
      BY <3>1, <3>2, ElementOfSeq
    <3> QED BY <3>3 DEF L, c
  <2>6. CASE f[1].at = "line"
    <3>1. f[2] = f[1] /\ f[3] = f[1]
      BY <2>2, <2>4, <2>6, ColumnsRead
    <3> QED BY <1>2, <2>1, <2>4, <2>6, <3>1 DEF a
  <2>7. CASE f[1].at # "line"
    <3>1. f[2] \in ReadStates /\ f[2].at = "failed"
      BY <2>2, <2>4, <2>5, <2>7, ColumnsFail, FailedLine, ReadsLine
    <3>2. f[3] \in ReadStates /\ f[3].at = "failed"
      BY <2>2, <2>5, <3>1, FailedLine, ReadsLine
    <3>3. UpTo(f[3], l, list, 0)
      BY <2>4, <2>7, <3>2 DEF UpTo
    <3> QED BY <2>1, <3>3 DEF a
  <2> QED BY <2>6, <2>7
<1> QED BY <1>3, <1>4 DEF Lists

\* One more line, one more grant.
LEMMA GrantUpTo ==
  ASSUME NEW l \in Lists, NEW list \in AclsTyped, PlainWords(l, list),
         NEW i \in 0..(Len(list.grants) - 1), NEW st, UpTo(st, l, list, i),
         NEW line, line = GrantLine(l, list.grants[i + 1])
  PROVE  UpTo(ReadLine(st, line), l, list, i + 1)
<1> DEFINE grant == list.grants[i + 1]
           end == ReadLine(st, line)
<1>1. /\ i + 1 \in 1..Len(list.grants) /\ i + 1 \in DOMAIN list.grants /\ i \in Nat
      /\ Len(list.grants) <= MaxGrants /\ Len(list.grants) \in Nat
  BY ListsAre
<1>2. grant \in AclGrants
  BY <1>1, ListsAre
<1>3. /\ grant.granteeType = "CanonicalUser" => NoKeywords(grant.displayName)
      /\ PlainNames(l, list) => OneName(grant)
  BY <1>1 DEF PlainWords, PlainNames, OneName
<1> HIDE DEF grant
<1>4. st \in ReadStates /\ line = GrantLine(l, grant)
  BY DEF UpTo, grant
<1>5. CASE st.at = "failed"
  <2>1. line \in Seq(Words)
    BY <1>2, <1>4, GrantLineType
  <2>2. end \in ReadStates /\ end.at = "failed"
    BY <1>4, <1>5, <2>1, FailedLine, ReadsLine
  <2>3. ~PlainNames(l, list)
    BY <1>5 DEF UpTo
  <2> HIDE DEF end
  <2>4. UpTo(end, l, list, i + 1)
    BY <2>2, <2>3 DEF UpTo
  <2> QED BY <2>4 DEF end
<1>6. CASE st.at = "line"
  <2>1. /\ Len(st.grants) = i
        /\ \A j \in 1..i : /\ st.grants[j].granteeType = PrintedType(l, list.grants[j].granteeType)
                           /\ st.grants[j].id = list.grants[j].id
                           /\ PlainNames(l, list) => st.grants[j].permission = list.grants[j].permission
    BY <1>6 DEF UpTo
  <2>2. Len(st.grants) < MaxGrants
    BY <1>1, <2>1, S3AclAssumption
  <2> HIDE DEF end
  <2>3. end = ReadLine(st, GrantLine(l, grant))
    BY <1>4 DEF end
  <2>4. /\ end \in ReadStates /\ end.at \in {"line", "failed"}
        /\ GrantRead(end.grants, st.grants, l, grant)
        /\ OneName(grant) => end.at = "line"
    BY <1>2, <1>3, <1>4, <1>6, <2>2, <2>3, GrantLineRead
  <2>5. ASSUME NEW j \in 1..(i + 1)
        PROVE  /\ end.grants[j].granteeType = PrintedType(l, list.grants[j].granteeType)
               /\ end.grants[j].id = list.grants[j].id
               /\ PlainNames(l, list) => end.grants[j].permission = list.grants[j].permission
    <3>1. CASE j = i + 1
      BY <1>3, <2>1, <2>4, <3>1 DEF GrantRead, grant
    <3>2. CASE j # i + 1
      <4>1. j \in 1..i
        BY <1>1, <3>2
      <4> QED BY <1>3, <2>1, <2>4, <4>1 DEF GrantRead
    <3> QED BY <3>1, <3>2
  <2>6. Len(end.grants) = i + 1
    BY <2>1, <2>4 DEF GrantRead
  <2>7. UpTo(end, l, list, i + 1)
    BY <1>3, <2>4, <2>5, <2>6 DEF UpTo
  <2> QED BY <2>7 DEF end
<1> QED BY <1>5, <1>6 DEF UpTo

\* What is parsed is what was printed, unless the text is refused.
LEMMA ReadBack ==
  ASSUME NEW l \in Lists, NEW list \in AclsTyped, PlainWords(l, list)
  PROVE  \E end : UpTo(end, l, list, Len(list.grants)) /\ Parsed(Text(l, list)) = Outcome(end)
<1> DEFINE L == Seq(Words)
           a == Above(l, list)
           g == GrantLines(l, list)
           lines == Text(l, list)
           n == Len(list.grants)
           k == Len(a)
<1>1. /\ a \in Seq(L) /\ g \in Seq(L) /\ Len(g) = n /\ lines = a \o g /\ lines \in Seq(L)
      /\ \A i \in 1..n : g[i] = GrantLine(l, list.grants[i])
      /\ n \in Nat /\ k \in Nat
  BY AboveType, GrantLinesType, TextIs, TextType, ListsAre, LenProperties DEF Lists
<1>2. PICK f : Reading(f, NothingRead, lines) /\ Parsed(lines) = Outcome(f[Len(lines)])
  BY <1>1, ParsedIs
<1>3. f[0] = NothingRead /\ \A i \in 1..Len(lines) : f[i] = ReadLine(f[i - 1], lines[i])
  BY <1>2 DEF Reading
<1> HIDE DEF L, a, g, lines, n
<1>4. /\ Len(lines) = k + n
      /\ \A i \in 1..(k + n) : lines[i] = IF i <= k THEN a[i] ELSE g[i - k]
  <2> DEFINE d == a \o g
  <2>1. /\ Len(d) = Len(a) + Len(g)
        /\ \A i \in 1..(Len(a) + Len(g)) : d[i] = IF i <= Len(a) THEN a[i] ELSE g[i - Len(a)]
    BY <1>1, ConcatProperties
  <2>2. lines = d
    BY <1>1
  <2> HIDE DEF d
  <2> QED BY <1>1, <2>1, <2>2
<1> HIDE DEF k
<1>5. UpTo(f[k], l, list, 0)
  <2>1. \A i \in 1..k : f[i] = ReadLine(f[i - 1], a[i])
    <3>1. \A i \in 1..k : i \in 1..(k + n) /\ i <= k
      BY <1>1
    <3> QED BY <1>3, <1>4, <3>1
  <2> QED BY <1>3, <2>1, AboveRead DEF k, a
<1> DEFINE S == {i \in 0..n : UpTo(f[k + i], l, list, i)}
<1>6. 0 \in S
  <2>1. k + 0 = k /\ 0 \in 0..n
    BY <1>1
  <2> QED BY <1>5, <2>1
<1>7. ASSUME NEW i \in 0..(n - 1), i \in S PROVE i + 1 \in S
  <2>1. /\ i + 1 \in 0..n /\ k + (i + 1) \in 1..(k + n) /\ ~(k + (i + 1) <= k) /\ (k + (i + 1)) - k = i + 1
        /\ (k + (i + 1)) - 1 = k + i /\ i + 1 \in 1..n
    BY <1>1
  <2>2. f[k + (i + 1)] = ReadLine(f[k + i], GrantLine(l, list.grants[i + 1]))
    BY <1>1, <1>3, <1>4, <2>1
  <2>3. UpTo(f[k + (i + 1)], l, list, i + 1)
    BY <1>7, <2>2, GrantUpTo DEF n
  <2> QED BY <2>1, <2>3
<1> HIDE DEF S
<1>8. n \in S
  <2>1. \A i \in 0..n : i \in S
    BY <1>1, <1>6, <1>7, InductionTo
  <2> QED BY <1>1, <2>1
<1> QED BY <1>2, <1>4, <1>8 DEF S, n, lines

\* Names that are single words have no further words.
LEMMA PlainNamesArePlain ==
  ASSUME NEW l, NEW list \in AclsTyped, PlainNames(l, list)
  PROVE  PlainWords(l, list)
<1>1. ASSUME NEW name, Len(name) = 1 PROVE NoKeywords(name)
  BY <1>1 DEF NoKeywords
<1> QED BY <1>1 DEF PlainNames, PlainWords

\* What was read up to the end of the text is a list.
LEMMA OutcomeIs ==
  ASSUME NEW end \in ReadStates
  PROVE  /\ end.at = "failed" => Outcome(end) = None
         /\ end.at = "line" =>
              /\ Outcome(end) \in Unsettled /\ Outcome(end).grants = end.grants
              /\ (\A i \in 1..Len(end.grants) : end.grants[i].permission \in Permissions) => Outcome(end) # None
<1>1. ASSUME end.at = "line"
      PROVE  Outcome(end) \in Unsettled /\ Outcome(end).grants = end.grants
  BY <1>1 DEF Outcome, Unsettled, ReadStates
<1>2. ASSUME end.at = "line", \A i \in 1..Len(end.grants) : end.grants[i].permission \in Permissions
      PROVE  Outcome(end) # None
  <2> DEFINE list == Outcome(end)
             grants == end.grants
  <2>1. list \in Unsettled /\ list.grants = grants
    BY <1>1, <1>2
  <2> HIDE DEF list
  <2>2. /\ list \in [ownerId : MaybeWords, ownerDisplayName : Seq(Words), grants : Seq(PartGrants)]
        /\ list.ownerId = <<>> => list.ownerDisplayName = <<>>
        /\ grants \in Seq(PartGrants) /\ Len(grants) <= MaxGrants
        /\ \A i \in 1..Len(grants) : grants[i] \in PartGrants /\ Whole(grants[i])
    BY <2>1 DEF Unsettled
  <2>3. ASSUME NEW g \in PartGrants, Whole(g), g.permission \in Permissions PROVE g \in AclGrants
    BY <2>3 DEF PartGrants, AclGrants, Whole
  <2>4. grants \in Seq(AclGrants)
    <3>1. \A i \in 1..Len(grants) : grants[i] \in AclGrants
      BY <1>2, <2>2, <2>3
    <3> HIDE DEF grants
    <3> QED BY <2>2, <3>1
  <2> HIDE DEF grants
  <2>5. list \in [ownerId : MaybeWords, ownerDisplayName : Seq(Words), grants : Seq(AclGrants)]
    BY <2>1, <2>2, <2>4
  <2>6. list \in AclsTyped
    BY <2>1, <2>2, <2>5 DEF AclsTyped
  <2> QED BY <2>6, S3AclAssumption DEF list
<1>3. end.at = "failed" => Outcome(end) = None
  BY DEF Outcome
<1> QED BY <1>1, <1>2, <1>3

\* What setacl sends of a text that getacl wrote.
KeepsGrants(c) ==
  c.shown # None =>
    /\ c.sent # None /\ PlainGroups(c.list, c.shown) /\ PlainWords(c.list, c.shown) =>
         Grantees(c.sent.grants) = Grantees(c.shown.grants)
    /\ PlainNames(c.list, c.shown) =>
         /\ ~c.refused
         /\ PermissionsOf(c.sent.grants) = PermissionsOf(c.shown.grants)

\* What set sends, with any value for permissions that are unassigned.
LEMMA SendsWhatIsShown ==
  ASSUME NEW l \in Lists, NEW shown \in AclsTyped, NEW permission \in Permissions,
         NEW list, list = Parsed(Text(l, shown)),
         NEW sent, list # None => sent = Settled(list, permission)
  PROVE  /\ list # None /\ PlainGroups(l, shown) /\ PlainWords(l, shown) =>
              Grantees(sent.grants) = Grantees(shown.grants)
         /\ PlainNames(l, shown) =>
              list # None /\ PermissionsOf(sent.grants) = PermissionsOf(shown.grants)
<1> DEFINE n == Len(shown.grants)
           g == shown.grants
           s == sent.grants
<1>1. /\ n \in Nat /\ DOMAIN g = 1..n /\ \A i \in 1..n : g[i] \in AclGrants
  BY ListsAre
<1>2. ASSUME PlainWords(l, shown)
      PROVE  /\ list # None =>
                  /\ DOMAIN s = 1..n
                  /\ \A i \in 1..n : s[i].granteeType = PrintedType(l, g[i].granteeType) /\ s[i].id = g[i].id
             /\ PlainNames(l, shown) =>
                  list # None /\ \A i \in 1..n : s[i].permission = g[i].permission
  <2>1. PICK end : UpTo(end, l, shown, n) /\ list = Outcome(end)
    BY <1>2, ReadBack
  <2> DEFINE e == end.grants
  <2>2. /\ end \in ReadStates /\ end.at \in {"line", "failed"}
        /\ end.at = "line" =>
             /\ Len(e) = n
             /\ \A i \in 1..n : e[i].granteeType = PrintedType(l, g[i].granteeType) /\ e[i].id = g[i].id
        /\ PlainNames(l, shown) => end.at = "line" /\ \A i \in 1..n : e[i].permission = g[i].permission
    BY <2>1 DEF UpTo
  <2>3. \A i \in 1..n : g[i].permission \in Permissions
    BY <1>1 DEF AclGrants
  <2> HIDE DEF n, g
  <2>4. list # None => end.at = "line" /\ list \in Unsettled /\ list.grants = e
    BY <2>1, <2>2, OutcomeIs
  <2>5. PlainNames(l, shown) => list # None
    BY <2>1, <2>2, <2>3, OutcomeIs
  <2>6. list # None =>
          /\ Settled(list, permission) \in AclsTyped /\ Len(s) = Len(e) /\ sent = Settled(list, permission)
          /\ \A i \in 1..Len(e) : /\ s[i].granteeType = e[i].granteeType /\ s[i].id = e[i].id
                                  /\ e[i].permission \in Permissions => s[i].permission = e[i].permission
    BY <2>4, SettledType
  <2>7. list # None => DOMAIN s = 1..n
    BY <2>2, <2>4, <2>6, ListsAre
  <2> HIDE DEF s, e
  <2> QED BY <2>2, <2>3, <2>4, <2>5, <2>6, <2>7
<1>3. ASSUME list # None, PlainGroups(l, shown), PlainWords(l, shown)
      PROVE  Grantees(s) = Grantees(g)
  <2>1. \A i \in 1..n : PrintedType(l, g[i].granteeType) = g[i].granteeType
    BY <1>1, <1>3 DEF PlainGroups, PrintedType
  <2>2. DOMAIN s = 1..n /\ \A i \in 1..n : s[i].granteeType = g[i].granteeType /\ s[i].id = g[i].id
    BY <1>2, <1>3, <2>1
  <2> HIDE DEF s, g, n
  <2> QED BY <1>1, <2>2 DEF Grantees
<1>4. ASSUME PlainNames(l, shown)
      PROVE  list # None /\ PermissionsOf(s) = PermissionsOf(g)
  <2>1. PlainWords(l, shown)
    BY <1>4, PlainNamesArePlain
  <2>2. list # None /\ DOMAIN s = 1..n /\ \A i \in 1..n : s[i].permission = g[i].permission
    BY <1>2, <1>4, <2>1
  <2> HIDE DEF s, g, n
  <2> QED BY <1>1, <2>2 DEF PermissionsOf
<1> QED BY <1>3, <1>4

(***************************************************************************)
(* Commands about lists.                                                    *)
(***************************************************************************)
\* What has to be known of one, with the files as they are.
ListOK(c, runs, texts) ==
  /\ c.proc \in {"getacl", "setacl"} => c \in AclCommands
  /\ c.proc = "getacl" =>
       /\ runs => texts[c.list] # None
       /\ c.served /\ c.list = "acl" => c.got \in AclsTyped
  /\ c.proc = "setacl" =>
       /\ ~c.refused /\ c.list = "acl" => c.sent \in AclsTyped
       /\ KeepsGrants(c)

\* A bucket always has a list; what the file shows is a list as get printed it,
\* but for the lines that the user removed.
AclInv ==
  /\ AclTypeOK
  /\ granted["acl"] \in AclsTyped
  /\ \A l \in Lists : seen[l] # None => text[l] = Text(l, seen[l])
  /\ commands > 0 => ListOK(cmd, running, text)

LEMMA AclStarts ==
  ASSUME AclInit, commands = 0
  PROVE  AclInv
<1>1. (CHOOSE a \in Acls : TRUE) \in AclsTyped
  BY S3AclAssumption
<1> QED BY <1>1 DEF AclInit, AclInv, AclTypeOK, Lists

\* A step that leaves the texts as they are, and the lists unless the bucket is new.
LEMMA AclStays ==
  ASSUME AclInv, UNCHANGED aclVars \/ NewLists, commands' > 0 => ListOK(cmd', running', text)
  PROVE  AclInv'
<1>1. /\ UNCHANGED <<text, seen, edits>>
      /\ granted' \in [Lists -> AclsTyped \cup {None}] /\ granted'["acl"] \in AclsTyped
  BY S3AclAssumption DEF NewLists, AclInv, AclTypeOK, aclVars, Lists
<1> QED BY <1>1 DEF AclInv, AclTypeOK

\* The command stays as it is, or makes its request again.
LEMMA AgainKeeps ==
  ASSUME NEW c, NEW runs, NEW texts, ListOK(c, runs, texts), c.proc \in {"getacl", "setacl"}
  PROVE  /\ ListOK([c EXCEPT !.served = FALSE], runs, texts) /\ ListOK(c, FALSE, texts)
         /\ [c EXCEPT !.served = FALSE].proc = c.proc
<1> DEFINE d == [c EXCEPT !.served = FALSE]
<1>1. c \in AclCommands
  BY DEF ListOK
<1>2. CASE c.proc = "getacl"
  <2>1. c \in [proc : {"getacl"}, list : Lists, got : AclsTyped \cup {None}, served : BOOLEAN, done : BOOLEAN]
    BY <1>1, <1>2 DEF AclCommands
  <2>2. /\ d \in [proc : {"getacl"}, list : Lists, got : AclsTyped \cup {None}, served : BOOLEAN, done : BOOLEAN]
        /\ d.proc = c.proc /\ d.list = c.list /\ d.got = c.got /\ ~d.served
    BY <2>1
  <2>3. d \in AclCommands
    BY <2>2 DEF AclCommands
  <2> HIDE DEF d
  <2>4. ListOK(d, runs, texts) /\ d.proc = c.proc
    BY <1>2, <2>2, <2>3 DEF ListOK
  <2> QED BY <1>2, <2>4 DEF d, ListOK
<1>3. CASE c.proc = "setacl"
  <2> DEFINE Sort == [proc : {"setacl"}, list : Lists, sent : AclsTyped \cup {None},
                      shown : AclsTyped \cup {None}, refused : BOOLEAN,
                      served : BOOLEAN, done : BOOLEAN]
  <2>1. c \in Sort
    BY <1>1, <1>3 DEF AclCommands
  <2>2. /\ d \in Sort
        /\ d.proc = c.proc /\ d.list = c.list /\ d.sent = c.sent /\ d.shown = c.shown /\ d.refused = c.refused
    BY <2>1
  <2>3. d \in AclCommands
    BY <2>2 DEF AclCommands
  <2> HIDE DEF d, Sort
  <2>4. KeepsGrants(d)
    BY <1>3, <2>2 DEF ListOK, KeepsGrants
  <2>5. ListOK(d, runs, texts) /\ d.proc = c.proc
    BY <1>3, <2>2, <2>3, <2>4 DEF ListOK
  <2> QED BY <1>3, <2>5 DEF d, ListOK
<1> QED BY <1>2, <1>3

\* Commands about objects do not see lists and texts; create makes a new list.
LEMMA ObjectsLeaveLists ==
  ASSUME StoreInv, AclInv, UNCHANGED aclVars \/ NewLists, Begins \/ GoesOn \/ Others
  PROVE  AclInv'
<1>1. ASSUME cmd'.proc \notin {"getacl", "setacl"} PROVE AclInv'
  <2>1. ListOK(cmd', running', text)
    BY <1>1 DEF ListOK
  <2> QED BY <2>1, AclStays
<1>2. CASE Begins
  <2>1. cmd'.proc \notin {"getacl", "setacl"}
    BY <1>2 DEF Begins, PutBegins, GetBegins, DeleteBegins, CopyBegins, HeadBegins, TestBegins,
                CreateBegins, RemoveBegins, ListBegins, ServiceBegins, Starts
  <2> QED BY <1>1, <2>1
<1>3. CASE GoesOn
  <2>1. commands > 0 /\ cmd'.proc = cmd.proc /\ ListOK(cmd, running, text) /\ running
    BY <1>3, KindKept DEF AclInv
  <2>2. CASE cmd.proc \in {"getacl", "setacl"}
    <3>1. Succeeds \/ Fails
      BY <1>3, <2>2 DEF GoesOn, PutSends, PutServes, GetServes, GetReceives, DeleteServes, CopyServes,
         HeadServes, TestServes, CreateServes, RemoveServes, ListServes, ListCallback, ListNextPage,
         ListEnds, ServiceServes, ServiceEnds, Serving, Runs
    <3>2. \/ cmd' = cmd /\ ~running'
          \/ cmd' = Again(cmd) /\ running'
      BY <2>1, <3>1 DEF Succeeds, Fails, Ends, Retries
    <3>3. Again(cmd) = [cmd EXCEPT !.served = FALSE]
      BY <2>2 DEF Again
    <3>4. ListOK(cmd', running', text)
      <4>1. CASE cmd' = cmd /\ ~running'
        <5>1. ListOK(cmd, FALSE, text)
          BY <2>1, <2>2, AgainKeeps
        <5> QED BY <4>1, <5>1 DEF ListOK
      <4>2. CASE cmd' = Again(cmd) /\ running'
        <5>1. ListOK([cmd EXCEPT !.served = FALSE], running, text)
          BY <2>1, <2>2, AgainKeeps
        <5> DEFINE d == [cmd EXCEPT !.served = FALSE]
        <5>2. cmd' = d
          BY <3>3, <4>2
        <5> HIDE DEF d
        <5>3. ListOK(d, running, text)
          BY <5>1 DEF d
        <5> QED BY <2>1, <4>2, <5>2, <5>3 DEF ListOK
      <4> QED BY <3>2, <4>1, <4>2
    <3> QED BY <3>4, AclStays
  <2> QED BY <1>1, <2>1, <2>2
<1>4. CASE Others
  <2>1. /\ UNCHANGED <<running, commands>>
        /\ cmd' = cmd \/ (Runs("list") /\ \E k : cmd' = [cmd EXCEPT !.stable = @ \ {k}])
    BY <1>4 DEF Others, OthersChange
  <2>2. CASE cmd' = cmd
    BY <2>1, <2>2, AclStays DEF AclInv
  <2>3. CASE Runs("list") /\ \E k : cmd' = [cmd EXCEPT !.stable = @ \ {k}]
    <3>1. "proc" \in DOMAIN cmd /\ cmd.proc = "list"
      BY <2>3 DEF StoreInv, CommandOK, Fields, Runs
    <3>2. cmd'.proc = "list"
      BY <2>3, <3>1
    <3> QED BY <1>1, <3>2
  <2> QED BY <2>1, <2>2, <2>3
<1> QED BY <1>2, <1>3, <1>4

\* A get that begins.
LEMMA GetsKeep ==
  ASSUME AclInv, commands \in Nat, NEW l \in Lists, Gets(l)
  PROVE  AclInv'
<1> DEFINE c == [proc |-> "getacl", list |-> l, got |-> None, served |-> FALSE, done |-> FALSE]
<1>1. /\ cmd' = c /\ running' /\ UNCHANGED <<granted, seen, edits>>
      /\ text' = [text EXCEPT ![l] = IF @ = None THEN <<>> ELSE @]
  BY DEF Gets, Starts
<1>2. c \in AclCommands /\ c.proc = "getacl" /\ c.list = l /\ ~c.served
  BY DEF AclCommands
<1> HIDE DEF c
<1>3. /\ text' \in [Lists -> Seq(Seq(Words)) \cup {None}] /\ text'[l] # None
      /\ \A k \in Lists : text[k] # None => text'[k] = text[k]
  <2> DEFINE L == Seq(Words)
  <2>1. text \in [Lists -> Seq(L) \cup {None}] /\ None \notin Seq(L)
    BY S3AclAssumption DEF AclInv, AclTypeOK
  <2> HIDE DEF L
  <2>2. <<>> \in Seq(L)
    OBVIOUS
  <2>3. /\ text' \in [Lists -> Seq(L) \cup {None}] /\ text'[l] # None
        /\ \A k \in Lists : text[k] # None => text'[k] = text[k]
    BY <1>1, <2>1, <2>2
  <2> QED BY <2>3 DEF L
<1>4. \A k \in Lists : seen[k] # None => text[k] # None
  <2>1. ASSUME NEW k \in Lists, seen[k] # None PROVE text[k] # None
    <3>1. seen[k] \in AclsTyped /\ text[k] = Text(k, seen[k])
      BY <2>1 DEF AclInv, AclTypeOK
    <3> QED BY <3>1, TextType, S3AclAssumption
  <2> QED BY <2>1
<1>5. ListOK(c, TRUE, text')
  BY <1>2, <1>3 DEF ListOK
<1> QED BY <1>1, <1>3, <1>4, <1>5 DEF AclInv, AclTypeOK

\* A set that begins reads the file.
LEMMA SetsKeep ==
  ASSUME AclInv, NEW l \in Lists, Sets(l)
  PROVE  AclInv'
<1> DEFINE list == Parsed(text[l])
<1>1. text[l] \in Seq(Seq(Words)) /\ seen[l] \in AclsTyped \cup {None} /\ UNCHANGED aclVars
  BY DEF Sets, AclInv, AclTypeOK
<1>2. list = None \/ list \in Unsettled
  BY <1>1, ParsedType
<1>3. PICK permission \in Permissions :
        Starts([proc |-> "setacl", list |-> l, shown |-> seen[l], refused |-> list = None,
                sent |-> IF list = None THEN None ELSE Settled(list, permission),
                served |-> FALSE, done |-> FALSE])
  BY DEF Sets
<1> DEFINE sent == IF list = None THEN None ELSE Settled(list, permission)
           c == [proc |-> "setacl", list |-> l, shown |-> seen[l], refused |-> list = None,
                 sent |-> sent, served |-> FALSE, done |-> FALSE]
<1>4. cmd' = c
  BY <1>3 DEF Starts
<1>5. sent \in AclsTyped \cup {None} /\ (list # None => sent \in AclsTyped /\ sent = Settled(list, permission))
  BY <1>2, SettledType
<1>6. ASSUME seen[l] # None
      PROVE  /\ sent # None /\ PlainGroups(l, seen[l]) /\ PlainWords(l, seen[l]) =>
                  Grantees(sent.grants) = Grantees(seen[l].grants)
             /\ PlainNames(l, seen[l]) =>
                  list # None /\ PermissionsOf(sent.grants) = PermissionsOf(seen[l].grants)
  <2>1. seen[l] \in AclsTyped /\ list = Parsed(Text(l, seen[l]))
    BY <1>1, <1>6 DEF AclInv
  <2>2. sent # None => list # None
    OBVIOUS
  <2> HIDE DEF list, sent
  <2> QED BY <1>5, <2>1, <2>2, SendsWhatIsShown
<1> HIDE DEF list, sent
<1>7. /\ c \in AclCommands /\ c.proc = "setacl" /\ c.list = l /\ c.shown = seen[l]
      /\ c.refused = (list = None) /\ c.sent = sent
  BY <1>1, <1>5 DEF AclCommands
<1> HIDE DEF c
<1>8. KeepsGrants(c)
  BY <1>6, <1>7 DEF KeepsGrants
<1>9. ListOK(c, running', text)
  BY <1>5, <1>7, <1>8 DEF ListOK
<1> QED BY <1>1, <1>4, <1>9, AclStays

\* Logging that is to end needs no file.
LEMMA LoggingEnds ==
  ASSUME AclInv, set_logging
  PROVE  AclInv'
<1>1. CASE Sets("logging")
  BY <1>1, SetsKeep DEF Lists
<1> DEFINE c == [proc |-> "setacl", list |-> "logging", sent |-> None, shown |-> None,
                 refused |-> FALSE, served |-> FALSE, done |-> FALSE]
<1>2. CASE Starts(c) /\ UNCHANGED aclVars
  <2>1. c \in AclCommands /\ c.proc = "setacl" /\ c.list = "logging" /\ c.shown = None
    BY DEF AclCommands, Lists
  <2>2. cmd' = c /\ UNCHANGED aclVars
    BY <1>2 DEF Starts
  <2> HIDE DEF c
  <2>3. ListOK(c, running', text)
    BY <2>1 DEF ListOK, KeepsGrants
  <2> QED BY <2>2, <2>3, AclStays
<1> QED BY <1>1, <1>2 DEF set_logging

\* A get that goes on.
LEMMA GetAclGoesOn ==
  ASSUME AclInv, StoreInv, GetAclServes \/ GetAclEnds
  PROVE  AclInv'
<1>1. /\ running /\ cmd.proc = "getacl" /\ commands > 0 /\ commands' = commands /\ ListOK(cmd, running, text)
  BY DEF GetAclServes, GetAclEnds, Runs, StoreInv, AclInv, Continues, Ends
<1> DEFINE l == cmd.list
<1>2. /\ cmd \in [proc : {"getacl"}, list : Lists, got : AclsTyped \cup {None}, served : BOOLEAN, done : BOOLEAN]
      /\ cmd \in AclCommands
      /\ text[l] # None /\ (cmd.served /\ l = "acl" => cmd.got \in AclsTyped)
  BY <1>1 DEF ListOK, AclCommands
<1>3. l \in Lists /\ text[l] \in Seq(Seq(Words)) /\ cmd.got \in AclsTyped \cup {None}
  BY <1>2 DEF AclInv, AclTypeOK
<1>4. CASE GetAclServes
  <2> DEFINE c == [Answered(cmd) EXCEPT !.got = granted[cmd.list]]
  <2>1. cmd' = c /\ UNCHANGED aclVars
    BY <1>4 DEF GetAclServes, Continues
  <2>2. granted[l] \in AclsTyped \cup {None} /\ (l = "acl" => granted[l] \in AclsTyped)
    BY <1>3 DEF AclInv, AclTypeOK
  <2>3. /\ c \in [proc : {"getacl"}, list : Lists, got : AclsTyped \cup {None}, served : BOOLEAN, done : BOOLEAN]
        /\ c.proc = "getacl" /\ c.list = l /\ c.got = granted[l]
    BY <1>2, <2>2 DEF Answered
  <2>4. c \in AclCommands
    BY <2>3 DEF AclCommands
  <2> HIDE DEF c
  <2>5. ListOK(c, running', text)
    BY <1>2, <2>2, <2>3, <2>4 DEF ListOK
  <2> QED BY <2>1, <2>5, AclStays
<1>5. CASE GetAclEnds
  <2> DEFINE new == IF l = "acl" THEN AclText(cmd.got) ELSE LoggingText(cmd.got)
             old == text[l]
             rest == SubSeq(old, Len(new) + 1, Len(old))
             shown == IF Len(old) <= Len(new) THEN cmd.got ELSE None
             L == Seq(Words)
  <2>1. /\ cmd.served /\ cmd' = cmd /\ ~running' /\ UNCHANGED <<granted, edits>>
        /\ text' = [text EXCEPT ![l] = new \o rest] /\ seen' = [seen EXCEPT ![l] = shown]
    BY <1>5 DEF GetAclEnds, Ends
  <2>2. new \in Seq(L) /\ (cmd.got \in AclsTyped => new = Text(l, cmd.got))
    <3>1. CASE cmd.got \in AclsTyped
      <4>1. Text(l, cmd.got) \in Seq(L)
        BY <3>1, TextType
      <4>2. new = Text(l, cmd.got)
        BY DEF Text
      <4> QED BY <4>1, <4>2
    <3>2. CASE cmd.got = None
      <4>1. l # "acl" /\ cmd.got \notin AclsTyped
        BY <1>2, <2>1, <3>2, S3AclAssumption
      <4>2. new = <<>>
        BY <3>2, <4>1 DEF LoggingText
      <4>3. <<>> \in Seq(L)
        OBVIOUS
      <4> QED BY <4>1, <4>2, <4>3
    <3> QED BY <1>3, <3>1, <3>2
  <2>3. old \in Seq(L)
    BY <1>3
  <2> HIDE DEF new, old, L
  <2>4. rest \in Seq(L) /\ (Len(old) <= Len(new) => rest = <<>>)
    <3>1. Len(old) \in Nat /\ Len(new) \in Nat
      BY <2>2, <2>3, LenProperties
    <3> QED BY <2>2, <2>3, <3>1
  <2> HIDE DEF rest
  <2>5. new \o rest \in Seq(L) /\ (rest = <<>> => new \o rest = new)
    BY <2>2, <2>4, ConcatProperties, ConcatEmptySeq
  <2>6. text \in [Lists -> Seq(L) \cup {None}] /\ seen \in [Lists -> AclsTyped \cup {None}]
    BY DEF AclInv, AclTypeOK, L
  <2>7. shown \in AclsTyped \cup {None} /\ (shown # None => new \o rest = Text(l, shown))
    <3>1. CASE Len(old) <= Len(new)
      BY <1>3, <2>2, <2>4, <2>5, <3>1
    <3>2. CASE ~(Len(old) <= Len(new))
      BY <3>2
    <3> QED BY <3>1, <3>2
  <2> HIDE DEF shown, l
  <2> DEFINE now == new \o rest
  <2> HIDE DEF now
  <2>8. now \in Seq(L) /\ (shown # None => now = Text(l, shown)) /\ text' = [text EXCEPT ![l] = now]
    BY <2>1, <2>5, <2>7 DEF now
  <2>9. /\ text' \in [Lists -> Seq(L) \cup {None}] /\ seen' \in [Lists -> AclsTyped \cup {None}]
        /\ text'[l] = now /\ seen'[l] = shown
        /\ \A k \in Lists : k # l => text'[k] = text[k] /\ seen'[k] = seen[k]
    BY <1>3, <2>1, <2>6, <2>7, <2>8
  <2>10. \A k \in Lists : seen'[k] # None => text'[k] = Text(k, seen'[k])
    BY <2>8, <2>9 DEF AclInv
  <2>11. ListOK(cmd', running', text')
    BY <1>1, <1>2, <2>1 DEF ListOK, l
  <2> QED BY <2>1, <2>9, <2>10, <2>11 DEF AclInv, AclTypeOK, L
<1> QED BY <1>4, <1>5

\* A set that goes on.
LEMMA SetAclGoesOn ==
  ASSUME AclInv, StoreInv, SetAclServes \/ SetAclEnds \/ SetAclRefused
  PROVE  AclInv'
<1>1. /\ running /\ cmd.proc = "setacl" /\ commands > 0 /\ commands' = commands /\ ListOK(cmd, running, text)
  BY DEF SetAclServes, SetAclEnds, SetAclRefused, Runs, StoreInv, AclInv, Continues, Ends
<1> DEFINE Sort == [proc : {"setacl"}, list : Lists, sent : AclsTyped \cup {None},
                    shown : AclsTyped \cup {None}, refused : BOOLEAN,
                    served : BOOLEAN, done : BOOLEAN]
<1>2. cmd \in Sort /\ KeepsGrants(cmd) /\ (~cmd.refused /\ cmd.list = "acl" => cmd.sent \in AclsTyped)
  BY <1>1 DEF ListOK, AclCommands
<1>3. CASE SetAclEnds \/ SetAclRefused
  <2>1. cmd' = cmd /\ UNCHANGED aclVars
    BY <1>3 DEF SetAclEnds, SetAclRefused, Ends
  <2>2. ListOK(cmd, running', text)
    BY <1>1 DEF ListOK
  <2> QED BY <2>1, <2>2, AclStays
<1>4. CASE SetAclServes
  <2> DEFINE c == Answered(cmd)
  <2>1. /\ cmd' = c /\ ~cmd.refused /\ UNCHANGED <<text, seen, edits>>
        /\ granted' = [granted EXCEPT ![cmd.list] = cmd.sent]
    BY <1>4 DEF SetAclServes, Continues
  <2>2. /\ c \in Sort /\ c.proc = "setacl" /\ c.list = cmd.list /\ c.sent = cmd.sent
        /\ c.shown = cmd.shown /\ c.refused = cmd.refused
    BY <1>2 DEF Answered
  <2>3. c \in AclCommands
    BY <2>2 DEF AclCommands
  <2>4. cmd.list \in Lists /\ cmd.sent \in AclsTyped \cup {None}
    BY <1>2
  <2> HIDE DEF c, Sort
  <2>5. KeepsGrants(c)
    BY <1>2, <2>2 DEF KeepsGrants
  <2>6. ListOK(c, running', text)
    BY <1>2, <2>1, <2>2, <2>3, <2>5 DEF ListOK
  <2>7. granted' \in [Lists -> AclsTyped \cup {None}] /\ granted'["acl"] \in AclsTyped
    BY <1>2, <2>1, <2>4 DEF AclInv, AclTypeOK, Lists
  <2> QED BY <2>1, <2>6, <2>7 DEF AclInv, AclTypeOK
<1> QED BY <1>3, <1>4

\* A request for a list that fails.
LEMMA AclFailsKeeps ==
  ASSUME AclInv, StoreInv, AclFails
  PROVE  AclInv'
<1>1. /\ running /\ cmd.proc \in {"getacl", "setacl"} /\ commands > 0 /\ ListOK(cmd, running, text)
  BY DEF AclFails, Runs, StoreInv, AclInv
<1> DEFINE d == [cmd EXCEPT !.served = FALSE]
<1>2. /\ UNCHANGED aclVars
      /\ \/ cmd' = d /\ running'
         \/ cmd' = cmd /\ ~running'
  BY <1>1 DEF AclFails, Retries, Ends
<1>3. ListOK(d, running, text) /\ ListOK(cmd, FALSE, text)
  BY <1>1, AgainKeeps
<1> HIDE DEF d
<1>4. ListOK(cmd', running', text)
  BY <1>1, <1>2, <1>3 DEF ListOK
<1> QED BY <1>2, <1>4, AclStays

\* Others, and the editor.
LEMMA AclOthersKeep ==
  ASSUME AclInv, AclOthers
  PROVE  AclInv'
<1>1. ASSUME NEW l \in Lists, NEW list \in Acls, OthersGrant(l, list) PROVE AclInv'
  <2>1. list \in AclsTyped /\ edits' = edits + 1 /\ UNCHANGED <<text, seen, cmd, running, commands>>
        /\ granted' = [granted EXCEPT ![l] = list]
    BY <1>1, S3AclAssumption DEF OthersGrant, requestVars
  <2>2. granted' \in [Lists -> AclsTyped \cup {None}] /\ granted'["acl"] \in AclsTyped
    BY <2>1 DEF AclInv, AclTypeOK, Lists
  <2>3. edits' \in Nat
    BY <2>1 DEF AclInv, AclTypeOK
  <2> QED BY <2>1, <2>2, <2>3 DEF AclInv, AclTypeOK
<1>2. ASSUME NEW l \in Lists, NEW i \in 1..MaxGrants, UserRemoves(l, i) PROVE AclInv'
  <2> DEFINE list == seen[l]
             fewer == [list EXCEPT !.grants = RemoveAt(@, i)]
             now == RemoveAt(text[l], Len(text[l]) - Len(list.grants) + i)
  <2>1. /\ ~running /\ edits' = edits + 1 /\ UNCHANGED <<granted, cmd, running, commands>>
        /\ list # None /\ i \in DOMAIN list.grants
        /\ text' = [text EXCEPT ![l] = now]
    BY <1>2 DEF UserRemoves, requestVars
  <2>2. list \in AclsTyped /\ text[l] = Text(l, list)
    BY <2>1 DEF AclInv, AclTypeOK
  <2>3. seen' = [seen EXCEPT ![l] = fewer]
    BY <1>2 DEF UserRemoves
  <2>4. i \in 1..Len(list.grants)
    BY <2>1, <2>2, ListsAre
  <2> HIDE DEF list, now, fewer
  <2>5. fewer \in AclsTyped /\ Text(l, fewer) = now
    <3>1. fewer = [list EXCEPT !.grants = RemoveAt(@, i)]
      BY DEF fewer
    <3>2. now = RemoveAt(Text(l, list), Len(Text(l, list)) - Len(list.grants) + i)
      BY <2>2 DEF now
    <3> QED BY <2>2, <2>4, <3>1, <3>2, RemovedGrant
  <2>6. now \in Seq(Seq(Words))
    BY <2>5, TextType
  <2> DEFINE L == Seq(Words)
  <2>7. text \in [Lists -> Seq(L) \cup {None}] /\ seen \in [Lists -> AclsTyped \cup {None}] /\ now \in Seq(L)
    BY <2>6 DEF AclInv, AclTypeOK
  <2> HIDE DEF L
  <2>8. /\ text' \in [Lists -> Seq(L) \cup {None}] /\ seen' \in [Lists -> AclsTyped \cup {None}]
        /\ text'[l] = now /\ seen'[l] = fewer
        /\ \A k \in Lists : k # l => text'[k] = text[k] /\ seen'[k] = seen[k]
    BY <2>1, <2>3, <2>5, <2>7
  <2>9. \A k \in Lists : seen'[k] # None => text'[k] = Text(k, seen'[k])
    BY <2>5, <2>8 DEF AclInv
  <2>10. commands' > 0 => ListOK(cmd', running', text')
    BY <2>1 DEF AclInv, ListOK
  <2>11. edits' \in Nat
    BY <2>1 DEF AclInv, AclTypeOK
  <2> QED BY <2>1, <2>8, <2>9, <2>10, <2>11 DEF AclInv, AclTypeOK, L
<1> QED BY <1>1, <1>2 DEF AclOthers

LEMMA AclStep ==
  ASSUME AclInv, StoreInv, [ProgramNext]_programVars
  PROVE  AclInv'
<1>1. CASE ObjectsBegin \/ ObjectsGoOn
  BY <1>1, ObjectsLeaveLists DEF ObjectsBegin, ObjectsGoOn
<1>2. CASE ListsBegin
  <2>1. commands \in Nat /\ (get_acl \/ get_logging \/ set_acl \/ set_logging)
    BY <1>2 DEF ListsBegin, AclBegins, StoreInv
  <2>2. \A l \in {"acl", "logging"} : l \in Lists
    BY DEF Lists
  <2> QED BY <2>1, <2>2, GetsKeep, SetsKeep, LoggingEnds DEF get_acl, get_logging, set_acl
<1>3. CASE ListsGoOn
  BY <1>3, GetAclGoesOn, SetAclGoesOn, AclFailsKeeps DEF ListsGoOn, AclGoesOn
<1>4. CASE Environment
  BY <1>4, ObjectsLeaveLists, AclOthersKeep DEF Environment
<1>5. CASE UNCHANGED programVars
  <2>1. UNCHANGED <<aclVars, cmd, running, commands>>
    BY <1>5 DEF programVars, vars, requestVars
  <2> QED BY <2>1, AclStays DEF AclInv
<1> QED BY <1>1, <1>2, <1>3, <1>4, <1>5 DEF ProgramNext

LEMMA AclHolds == ProgramSpec => [](ObjectsInv /\ AclInv)
<1>1. ProgramInit => ObjectsInv /\ AclInv
  <2>1. ProgramInit => commands = 0 /\ AclInit
    BY DEF ProgramInit, Init, RequestsInit
  <2> QED BY <2>1, ObjectsInit, AclStarts
<1>2. ObjectsInv /\ AclInv /\ [ProgramNext]_programVars => ObjectsInv' /\ AclInv'
  BY ObjectsStep, AclStep DEF ObjectsInv
<1> QED BY <1>1, <1>2, PTL DEF ProgramSpec

\* Whatever lists others put in force, whatever was in the files before, however
\* often requests are made again and whichever grants the user takes out: what
\* set_acl and set_logging send has the grantees that get_acl and get_logging
\* showed, in order, unless a display name looks like a line of its own; the text
\* is understood and the permissions are the same if display names are single words
\* (convert_simple_acl).
THEOREM SetsKeepGrants == ProgramSpec => []SetKeepsGrants
<1>1. ObjectsInv /\ AclInv => SetKeepsGrants
  BY DEF ObjectsInv, GetInv, AclInv, ListOK, KeepsGrants, SetKeepsGrants
<1> QED BY <1>1, AclHolds, PTL

(***************************************************************************)
(* Types of the whole program.                                              *)
(***************************************************************************)
HeadCommands == [proc : {"head"}, key : Keys, served : BOOLEAN, done : BOOLEAN]

ServiceCommands ==
  [proc : {"service"}, headerPrinted : BOOLEAN, printed : Seq(Nat), served : BOOLEAN, done : BOOLEAN]

\* Commands that no other invariant speaks of.
Plain == HeadCommands \cup BucketCommands \cup ServiceCommands

Others7 == {"put", "get", "delete", "copy", "list", "getacl", "setacl"}

KindOK(c) == c.proc \in Others7 \/ c \in Plain

\* A process that runs has not used up more retries than it was given.
Counted(status, retries, runs) ==
  /\ status \in Statuses /\ retries \in -1..MaxRetries
  /\ runs => retries >= 0

KindInv ==
  /\ Counted(statusG, retriesG, running)
  /\ exists \in BOOLEAN /\ changes \in Nat
  /\ commands = 0 => cmd = None
  /\ commands > 0 => KindOK(cmd)

\* Counts while a request goes on, is made again or is given up,
LEMMA StepCounts ==
  ASSUME KindInv, running, NEW c, NEW status \in Statuses,
         Continues(c) \/ Retries(status, c) \/ Ends(status, c)
  PROVE  Counted(statusG', retriesG', running')
<1>1. retriesG \in 0..MaxRetries /\ statusG \in Statuses /\ MaxRetries \in Nat
  BY S3RequestsAssumption DEF KindInv, Counted
<1>2. CASE Continues(c)
  BY <1>1, <1>2 DEF Continues, Counted
<1>3. CASE Retries(status, c)
  BY <1>1, <1>3 DEF Retries, Counted
<1>4. CASE Ends(status, c)
  BY <1>1, <1>4 DEF Ends, Counted
<1> QED BY <1>2, <1>3, <1>4

\* and at the start of a process.
LEMMA StartCounts ==
  ASSUME NEW c, Starts(c)
  PROVE  Counted(statusG', retriesG', running')
BY S3RequestsAssumption DEF Starts, Counted, Statuses

\* Plain commands stay what they are.
LEMMA PlainKept ==
  ASSUME NEW c \in Plain
  PROVE  /\ Answered(c) \in Plain /\ [c EXCEPT !.served = FALSE] \in Plain
         /\ c.proc \in {"head", "test", "create", "remove", "service"}
<1>1. CASE c \in HeadCommands
  BY <1>1 DEF HeadCommands, Plain, Answered
<1>2. CASE c \in BucketCommands
  BY <1>2 DEF BucketCommands, Plain, Answered
<1>3. CASE c \in ServiceCommands
  BY <1>3 DEF ServiceCommands, Plain, Answered
<1> QED BY <1>1, <1>2, <1>3 DEF Plain

\* Lines that a list of buckets prints.
LEMMA ServicePrints ==
  ASSUME NEW c \in Plain, c.proc = "service", NEW lines \in Seq(Nat)
  PROVE  /\ c.printed \in Seq(Nat)
         /\ [c EXCEPT !.printed = lines] \in Plain
         /\ [c EXCEPT !.served = TRUE, !.done = TRUE, !.headerPrinted = TRUE, !.printed = lines] \in Plain
<1>1. c \in ServiceCommands
  BY DEF Plain, HeadCommands, BucketCommands
<1>2. /\ c.printed \in Seq(Nat)
      /\ [c EXCEPT !.printed = lines] \in ServiceCommands
      /\ [c EXCEPT !.served = TRUE, !.done = TRUE, !.headerPrinted = TRUE, !.printed = lines] \in ServiceCommands
  BY <1>1 DEF ServiceCommands
<1> QED BY <1>2 DEF Plain

LEMMA KindStarts ==
  ASSUME Init
  PROVE  KindInv
<1>1. /\ cmd = None /\ ~running /\ statusG = "OK" /\ retriesG = 0 /\ commands = 0
      /\ exists \in BOOLEAN /\ changes = 0
  BY Zenon DEF Init, RequestsInit
<1>2. Counted("OK", 0, FALSE)
  BY S3RequestsAssumption DEF Counted, Statuses
<1>3. Counted(statusG, retriesG, running)
  BY <1>1, <1>2 DEF Counted
<1> QED BY <1>1, <1>3 DEF KindInv

LEMMA KindBegins ==
  ASSUME StoreInv, KindInv, Begins
  PROVE  KindInv'
<1>1. /\ Counted(statusG', retriesG', running') /\ exists' = exists /\ changes' = changes /\ KindOK(cmd')
  <2> USE DEF clientVars
  <2>1. ASSUME NEW c, Starts(c), KindOK(c) PROVE Counted(statusG', retriesG', running') /\ KindOK(cmd')
    <3>1. cmd' = c
      BY <2>1 DEF Starts
    <3> QED BY <2>1, <3>1, StartCounts
  <2>2. \A c : c.proc \in Others7 => KindOK(c)
    BY DEF KindOK
  <2>3. ASSUME NEW key, NEW properties, NEW input, NEW given, PutBegins(key, properties, input, given)
        PROVE  /\ Counted(statusG', retriesG', running') /\ exists' = exists /\ changes' = changes /\ KindOK(cmd')
    BY <2>1, <2>2, <2>3 DEF PutBegins, Others7
  <2>4. ASSUME NEW key, NEW startByte, NEW byteCount, GetBegins(key, startByte, byteCount)
        PROVE  /\ Counted(statusG', retriesG', running') /\ exists' = exists /\ changes' = changes /\ KindOK(cmd')
    BY <2>1, <2>2, <2>4 DEF GetBegins, Others7
  <2>5. ASSUME NEW key, NEW from, NEW properties, DeleteBegins(key) \/ CopyBegins(from, key, properties)
        PROVE  /\ Counted(statusG', retriesG', running') /\ exists' = exists /\ changes' = changes /\ KindOK(cmd')
    BY <2>1, <2>2, <2>5 DEF DeleteBegins, CopyBegins, Others7
  <2>6. ASSUME NEW maxkeys, NEW marker, ListBegins(maxkeys, marker)
        PROVE  /\ Counted(statusG', retriesG', running') /\ exists' = exists /\ changes' = changes /\ KindOK(cmd')
    BY <2>1, <2>2, <2>6 DEF ListBegins, Others7
  <2>7. ASSUME NEW key \in Keys, HeadBegins(key)
        PROVE  /\ Counted(statusG', retriesG', running') /\ exists' = exists /\ changes' = changes /\ KindOK(cmd')
    <3>1. KindOK([proc |-> "head", key |-> key, served |-> FALSE, done |-> FALSE])
      BY DEF KindOK, Plain, HeadCommands
    <3> QED BY <2>1, <2>7, <3>1 DEF HeadBegins
  <2>8. ASSUME TestBegins \/ CreateBegins \/ RemoveBegins
        PROVE  /\ Counted(statusG', retriesG', running') /\ exists' = exists /\ changes' = changes /\ KindOK(cmd')
    <3>1. \A proc \in {"test", "create", "remove"} : KindOK([proc |-> proc, served |-> FALSE, done |-> FALSE])
      BY DEF KindOK, Plain, BucketCommands
    <3> QED BY <2>1, <2>8, <3>1 DEF TestBegins, CreateBegins, RemoveBegins
  <2>9. ASSUME ServiceBegins
        PROVE  /\ Counted(statusG', retriesG', running') /\ exists' = exists /\ changes' = changes /\ KindOK(cmd')
    <3>1. KindOK([proc |-> "service", headerPrinted |-> FALSE, printed |-> <<>>, served |-> FALSE, done |-> FALSE])
      <4>1. <<>> \in Seq(Nat)
        OBVIOUS
      <4> QED BY <4>1 DEF KindOK, Plain, ServiceCommands
    <3> QED BY <2>1, <2>9, <3>1 DEF ServiceBegins
  <2> QED BY <2>3, <2>4, <2>5, <2>6, <2>7, <2>8, <2>9 DEF Begins
<1>2. commands' \in Nat /\ commands' > 0
  BY KindChosen DEF StoreInv
<1> QED BY <1>1, <1>2 DEF KindInv

\* The counts, whatever request the tool or the server goes on with.
LEMMA GoesOnCounts ==
  ASSUME StoreInv, KindInv, GoesOn
  PROVE  /\ Counted(statusG', retriesG', running')
         /\ exists' \in BOOLEAN /\ changes' = changes
<1> DEFINE Goal == Counted(statusG', retriesG', running') /\ exists' \in BOOLEAN /\ changes' = changes
<1>1. exists \in BOOLEAN
  BY DEF KindInv
<1>2. ASSUME running, NEW c, NEW status \in Statuses, Continues(c) \/ Retries(status, c) \/ Ends(status, c)
      PROVE  Counted(statusG', retriesG', running')
  BY <1>2, StepCounts
<1>3. \A s \in {"OK", "AbortedByCallback", "ConnectionFailed", "Error"} : s \in Statuses
  BY DEF Statuses
<1> USE DEF Runs, Serving, clientVars
<1>4. ASSUME NEW n, PutSends(n) PROVE Goal
  BY <1>1, <1>2, <1>3, <1>4 DEF PutSends
<1>5. ASSUME NEW n, NEW wrote, GetReceives(n, wrote) PROVE Goal
  <2>1. running /\ exists' = exists /\ changes' = changes
    BY <1>5 DEF GetReceives
  <2>2. \E c : Ends("AbortedByCallback", c) \/ Continues(c)
    BY <1>5 DEF GetReceives
  <2> QED BY <1>1, <1>2, <1>3, <2>1, <2>2
<1>6. CASE PutServes \/ DeleteServes \/ CopyServes
  BY <1>1, <1>2, <1>3, <1>6 DEF PutServes, DeleteServes, CopyServes
<1>7. CASE HeadServes \/ TestServes \/ CreateServes \/ RemoveServes
  BY <1>1, <1>2, <1>3, <1>7 DEF HeadServes, TestServes, CreateServes, RemoveServes
<1>8. CASE GetServes \/ ListServes \/ ServiceServes
  <2>1. running /\ exists' = exists /\ changes' = changes
    BY <1>8 DEF GetServes, ListServes, ServiceServes
  <2>2. \E c : Continues(c)
    BY <1>8 DEF GetServes, ListServes, ServiceServes
  <2> QED BY <1>1, <1>2, <1>3, <2>1, <2>2
<1>9. ASSUME NEW n, ListCallback(n) PROVE Goal
  <2>1. running /\ exists' = exists /\ changes' = changes
    BY <1>9 DEF ListCallback
  <2>2. \E c : Continues(c)
    BY <1>9 DEF ListCallback
  <2> QED BY <1>1, <1>2, <1>3, <2>1, <2>2
<1>10. CASE ListNextPage
  <2>1. /\ running' = running /\ retriesG' = retriesG /\ statusG' = "OK"
        /\ exists' = exists /\ changes' = changes
    BY <1>10 DEF ListNextPage
  <2> QED BY <1>1, <1>3, <2>1 DEF KindInv, Counted
<1>11. CASE ListEnds \/ ServiceEnds
  <2>1. running /\ exists' = exists /\ changes' = changes
    BY <1>11 DEF ListEnds, ServiceEnds
  <2>2. \E c : Ends("OK", c)
    BY <1>11 DEF ListEnds, ServiceEnds
  <2> QED BY <1>1, <1>2, <1>3, <2>1, <2>2
<1>12. CASE Succeeds \/ Fails
  BY <1>1, <1>2, <1>3, <1>12 DEF Succeeds, Fails
<1> HIDE DEF Runs, Serving, clientVars
<1> QED BY <1>4, <1>5, <1>6, <1>7, <1>8, <1>9, <1>10, <1>11, <1>12 DEF GoesOn

\* Commands of which other invariants do not speak stay of their kind.
LEMMA PlainGoesOn ==
  ASSUME StoreInv, GoesOn, cmd \in Plain
  PROVE  cmd' \in Plain
<1>1. running /\ cmd.proc \in {"head", "test", "create", "remove", "service"}
  BY KindKept, PlainKept
<1>2. cmd.proc \notin {"put", "get", "list", "delete", "copy"}
  BY <1>1
<1>3. \/ HeadServes \/ TestServes \/ CreateServes \/ RemoveServes
      \/ ServiceServes \/ ServiceEnds
      \/ Succeeds \/ Fails
  BY <1>2 DEF GoesOn, PutSends, GetReceives, PutServes, GetServes, DeleteServes, CopyServes,
              ListServes, ListCallback, ListNextPage, ListEnds, Serving, Runs
<1>4. CASE HeadServes \/ TestServes \/ CreateServes \/ RemoveServes
  <2>1. cmd' = Answered(cmd)
    BY <1>4 DEF HeadServes, TestServes, CreateServes, RemoveServes, Continues
  <2> QED BY <2>1, PlainKept
<1>5. CASE ServiceServes
  <2> DEFINE header == IF cmd.headerPrinted THEN <<>> ELSE ServiceHeader
             lines == cmd.printed \o header \o <<1>>
  <2>1. cmd.proc = "service" /\ cmd' = IF exists THEN [Answered(cmd) EXCEPT !.headerPrinted = TRUE,
                                                        !.printed = @ \o header \o <<1>>]
                                               ELSE Answered(cmd)
    BY <1>5 DEF ServiceServes, Continues, Runs
  <2>2. cmd.printed \in Seq(Nat)
    <3>1. <<>> \in Seq(Nat)
      OBVIOUS
    <3> QED BY <2>1, <3>1, ServicePrints
  <2>3. lines \in Seq(Nat)
    <3>1. header \in Seq(Nat) /\ <<1>> \in Seq(Nat)
      BY DEF ServiceHeader
    <3> QED BY <2>2, <3>1, ConcatProperties
  <2>4. [Answered(cmd) EXCEPT !.headerPrinted = TRUE, !.printed = @ \o header \o <<1>>]
        = [cmd EXCEPT !.served = TRUE, !.done = TRUE, !.headerPrinted = TRUE, !.printed = lines]
    BY DEF Answered
  <2>5. Answered(cmd) \in Plain
    BY PlainKept
  <2> HIDE DEF lines, header
  <2>6. [cmd EXCEPT !.served = TRUE, !.done = TRUE, !.headerPrinted = TRUE, !.printed = lines] \in Plain
    BY <2>1, <2>3, ServicePrints
  <2> QED BY <2>1, <2>4, <2>5, <2>6
<1>6. CASE ServiceEnds
  <2> DEFINE lines == IF cmd.headerPrinted THEN cmd.printed ELSE cmd.printed \o ServiceHeader
  <2>1. cmd.proc = "service" /\ cmd' = [cmd EXCEPT !.printed = lines]
    BY <1>6 DEF ServiceEnds, Ends, Runs
  <2>2. cmd.printed \in Seq(Nat)
    <3>1. <<>> \in Seq(Nat)
      OBVIOUS
    <3> QED BY <2>1, <3>1, ServicePrints
  <2>3. lines \in Seq(Nat)
    <3>1. ServiceHeader \in Seq(Nat)
      BY DEF ServiceHeader
    <3> QED BY <2>2, <3>1, ConcatProperties
  <2> HIDE DEF lines
  <2> QED BY <2>1, <2>3, ServicePrints
<1>7. CASE Succeeds
  BY <1>7 DEF Succeeds, Ends
<1>8. CASE Fails
  <2>1. cmd' \in {cmd, Again(cmd)}
    BY <1>8 DEF Fails, Retries, Ends
  <2>2. Again(cmd) = [cmd EXCEPT !.served = FALSE]
    BY <1>2 DEF Again
  <2> QED BY <2>1, <2>2, PlainKept
<1> QED BY <1>3, <1>4, <1>5, <1>6, <1>7, <1>8

LEMMA KindGoesOn ==
  ASSUME StoreInv, KindInv, GoesOn
  PROVE  KindInv'
<1>1. commands > 0 /\ commands' = commands /\ cmd'.proc = cmd.proc /\ KindOK(cmd)
  BY KindKept DEF KindInv
<1>2. KindOK(cmd')
  BY <1>1, PlainGoesOn DEF KindOK
<1>3. commands' > 0 /\ commands' # 0
  BY <1>1 DEF StoreInv
<1> QED BY <1>2, <1>3, GoesOnCounts DEF KindInv

\* Other machines only change what a listing remembers.
LEMMA KindOthers ==
  ASSUME StoreInv, KindInv, Others
  PROVE  KindInv'
<1>1. PICK k \in Keys, object \in Stock \cup {None} : OthersChange(k, object)
  BY DEF Others
<1>2. /\ UNCHANGED <<running, statusG, retriesG, commands, exists>> /\ changes' \in Nat
      /\ cmd' = IF Runs("list") /\ object = None THEN [cmd EXCEPT !.stable = @ \ {k}] ELSE cmd
  BY <1>1 DEF OthersChange, KindInv
<1>3. CASE cmd' = cmd
  BY <1>2, <1>3 DEF KindInv
<1>4. CASE cmd' # cmd
  <2>1. Runs("list") /\ cmd' = [cmd EXCEPT !.stable = @ \ {k}]
    BY <1>2, <1>4
  <2>2. commands > 0 /\ "proc" \in DOMAIN cmd /\ cmd.proc = "list"
    BY <2>1 DEF StoreInv, CommandOK, Fields, Runs
  <2>3. cmd'.proc = "list"
    BY <2>1, <2>2
  <2>4. KindOK(cmd')
    BY <2>3 DEF KindOK, Others7
  <2>5. commands' # 0
    BY <1>2, <2>2 DEF StoreInv
  <2> QED BY <1>2, <2>4, <2>5 DEF KindInv
<1> QED BY <1>3, <1>4

\* Commands about lists that begin or go on.
LEMMA KindLists ==
  ASSUME StoreInv, KindInv, AclBegins \/ AclGoesOn, UNCHANGED clientVars
  PROVE  KindInv'
<1>1. commands' > 0 /\ commands' # 0 /\ KindOK(cmd')
  <2>1. commands' > 0 /\ cmd'.proc \in {"getacl", "setacl"}
    BY ListCommandsKept
  <2>2. commands' # 0
    BY <2>1
  <2> QED BY <2>1, <2>2 DEF KindOK, Others7
<1>2. Counted(statusG', retriesG', running')
  <2>1. CASE AclBegins
    <3>1. \E c : Starts(c)
      BY <2>1 DEF AclBegins, get_acl, get_logging, set_acl, set_logging, Gets, Sets
    <3> QED BY <3>1, StartCounts
  <2>2. CASE AclGoesOn
    <3>1. running
      BY <2>2 DEF AclGoesOn, GetAclServes, GetAclEnds, SetAclRefused, SetAclServes, SetAclEnds,
                  AclFails, Runs
    <3>2. \E c : \E status \in Statuses : Continues(c) \/ Retries(status, c) \/ Ends(status, c)
      <4>1. \A s \in {"OK", "ConnectionFailed", "Error"} : s \in Statuses
        BY DEF Statuses
      <4>2. CASE GetAclServes \/ SetAclServes
        BY <4>1, <4>2 DEF GetAclServes, SetAclServes
      <4>3. CASE GetAclEnds \/ SetAclEnds \/ SetAclRefused
        BY <4>1, <4>3 DEF GetAclEnds, SetAclEnds, SetAclRefused
      <4>4. CASE AclFails
        BY <4>1, <4>4 DEF AclFails
      <4> QED BY <2>2, <4>2, <4>3, <4>4 DEF AclGoesOn
    <3> QED BY <3>1, <3>2, StepCounts
  <2> QED BY <2>1, <2>2
<1>3. exists' \in BOOLEAN /\ changes' \in Nat
  BY DEF KindInv, clientVars
<1> QED BY <1>1, <1>2, <1>3 DEF KindInv

LEMMA KindStep ==
  ASSUME StoreInv, KindInv, [ProgramNext]_programVars
  PROVE  KindInv'
<1>1. CASE (AclBegins \/ AclGoesOn) /\ UNCHANGED clientVars
  BY <1>1, KindLists
<1>2. CASE [Next]_vars
  <2>1. CASE UNCHANGED vars
    BY <2>1 DEF KindInv, vars, requestVars, clientVars
  <2> QED BY <1>2, <2>1, KindBegins, KindGoesOn, KindOthers DEF Next
<1> QED BY <1>1, <1>2, ProgramSteps

\* Blocks of the growbuffer.
LEMMA BlocksFit ==
  ASSUME BufferInv, gb # None
  PROVE  \A i \in DOMAIN gb :
            /\ gb[i] \in [size : 1..BlockSize, start : 0..(BlockSize - 1), data : Seq(Bytes \cup {Zero})]
            /\ gb[i].start + gb[i].size <= BlockSize
            /\ Len(gb[i].data) = BlockSize
            /\ gb[i].start > 0 => i = 1
            /\ gb[i].start + gb[i].size < BlockSize => i = Len(gb)
<1>1. WellFormed(gb)
  BY DEF BufferInv, HoldsRest
<1>2. /\ gb \in Seq(Blocks)
      /\ \A i \in 1..Len(gb) :
           /\ gb[i].start > 0 => i = 1
           /\ gb[i].start + gb[i].size < BlockSize => i = Len(gb)
  BY <1>1 DEF WellFormed
<1>3. DOMAIN gb = 1..Len(gb) /\ \A i \in 1..Len(gb) : gb[i] \in Blocks
  BY <1>2
<1>4. \A b \in Blocks :
        /\ b \in [size : 1..BlockSize, start : 0..(BlockSize - 1), data : Seq(Bytes \cup {Zero})]
        /\ b.start + b.size <= BlockSize /\ Len(b.data) = BlockSize
  BY DEF Blocks, Data
<1> HIDE DEF Blocks
<1> QED BY <1>2, <1>3, <1>4

\* Whatever the commands do, in whatever order they come: requests have one of the
\* statuses, retries are never more than were given and at most one is used up
\* too much, at the end of a command (should_retry); every command has the callback
\* data of its kind; and a block of the growbuffer that was read in part is the
\* first, one that has room left is the last.
THEOREM ProgramTyped == ProgramSpec => []ProgramTypeOK
<1>1. ProgramInit => KindInv /\ BufferInv
  BY KindStarts, BufferInit DEF ProgramInit
<1>2. ProgramSpec => [](KindInv /\ BufferInv)
  <2>1. ObjectsInv /\ KindInv /\ BufferInv /\ [ProgramNext]_programVars => KindInv' /\ BufferInv'
    BY KindStep, BufferStep DEF ObjectsInv
  <2> QED BY <1>1, <2>1, ObjectsHold, PTL DEF ProgramSpec
<1>3. ObjectsInv /\ AclInv /\ KindInv /\ BufferInv => ProgramTypeOK
  <2> SUFFICES ASSUME ObjectsInv, AclInv, KindInv, BufferInv PROVE ProgramTypeOK
    OBVIOUS
  <2>1. RequestsTypeOK
    BY DEF RequestsTypeOK, KindInv, Counted, ObjectsInv, StoreInv
  <2>2. ClientTypeOK
    BY DEF ClientTypeOK, KindInv, ObjectsInv, StoreInv, GetInv
  <2>3. AclTypeOK
    BY DEF AclInv
  <2>4. cmd \in ClientCommands \cup AclCommands \cup {None}
    <3>1. CASE commands = 0
      BY <3>1 DEF KindInv
    <3>2. CASE commands > 0
      <4>1. CommandOK(cmd) /\ KindOK(cmd)
        BY <3>2 DEF KindInv, ObjectsInv, StoreInv
      <4>2. CASE cmd.proc = "put"
        BY <4>1, <4>2 DEF CommandOK, ClientCommands
      <4>3. CASE cmd.proc \in {"delete", "copy"}
        BY <4>1, <4>3 DEF CommandOK, ClientCommands, ObjectCommands, DeleteCommands, CopyCommands
      <4>4. CASE cmd.proc = "get"
        BY <3>2, <4>4 DEF ObjectsInv, GetInv, ClientCommands
      <4>5. CASE cmd.proc = "list"
        BY <3>2, <4>5 DEF ObjectsInv, ListInv, Listings, ClientCommands, ListCommands
      <4>6. CASE cmd.proc \in {"getacl", "setacl"}
        BY <3>2, <4>6 DEF AclInv, ListOK
      <4>7. CASE cmd \in Plain
        BY <4>7 DEF Plain, HeadCommands, ServiceCommands, ClientCommands, ObjectCommands, ListCommands
      <4> QED BY <4>1, <4>2, <4>3, <4>4, <4>5, <4>6, <4>7 DEF KindOK, Others7
    <3>3. commands \in Nat
      BY DEF ObjectsInv, StoreInv
    <3> QED BY <3>1, <3>2, <3>3
  <2> QED BY <2>1, <2>2, <2>3, <2>4, BlocksFit DEF ProgramTypeOK
<1> QED BY <1>2, <1>3, AclHolds, PTL
=============================================================================
