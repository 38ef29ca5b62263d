------------------------------- MODULE Rabin --------------------------------
(***************************************************************************)
(* The Rabin segmentation library: a stream of bytes, handed over in calls  *)
(* of any size, is cut where the fingerprint of the last window_size bytes  *)
(* has its low bits clear.                                                  *)
(*                                                                          *)
(* An unsigned integer is the set of its one bits, which is also the set of *)
(* exponents of the polynomial over GF(2) that the library takes it for, so *)
(* exclusive or is symmetric difference.  rabin_segment_next is one action  *)
(* per byte it reads.                                                       *)
(***************************************************************************)
EXTENDS Integers, Sequences, FiniteSets

CONSTANTS
  WIDTH,              \* bits of u_int64_t
  BYTE,               \* bits of u_char
  UINT_MAX,           \* of unsigned int
  POLY,               \* FINGERPRINT_PT
  DEFAULT_WINDOW_SIZE,
  window_size, avg_segment_size, min_segment_size, max_segment_size,
  MaxStream,          \* bound: bytes between two resets
  MaxCall             \* bound: bytes of a call

Words == SUBSET (0..(WIDTH - 1))
Bytes == SUBSET (0..(BYTE - 1))

\* fls64(d) - 1
Degree(d) == CHOOSE k \in d : \A e \in d : e <= k

xshift == Degree(POLY)

\* What rabin_init asks of its arguments, and how the polynomial was chosen:
\* its degree is that of the highest bit of a word.
ASSUME RabinAssumption ==
  /\ WIDTH \in Nat /\ BYTE \in Nat \ {0} /\ BYTE < WIDTH
  /\ POLY \in Words /\ WIDTH - 1 \in POLY
  /\ DEFAULT_WINDOW_SIZE \in Nat \ {0}
  /\ window_size \in Nat /\ window_size >= DEFAULT_WINDOW_SIZE
  /\ {min_segment_size, avg_segment_size, max_segment_size} \subseteq Nat \ {0}
  /\ min_segment_size <= avg_segment_size /\ avg_segment_size <= max_segment_size
  /\ UINT_MAX \in Nat /\ window_size <= UINT_MAX /\ max_segment_size <= UINT_MAX
  /\ MaxStream \in Nat /\ MaxCall \in Nat

VARIABLES
  fingerprint,
  buf,            \* the circular buffer
  bufpos,         \* where it was last written
  cur_seg_size,
  left,           \* bytes the running call has not read; 0: no call runs
  stream,         \* history: the bytes read since the last reset
  cuts            \* history: after how many of them a segment ended

vars == <<fingerprint, buf, bufpos, cur_seg_size, left, stream, cuts>>

TypeOK ==
  /\ fingerprint \in Words
  /\ buf \in [0..(window_size - 1) -> Bytes]
  /\ bufpos \in 0..(window_size - 1) \cup {UINT_MAX}
  /\ cur_seg_size \in 0..(max_segment_size - 1)
  /\ left \in Nat
  /\ stream \in Seq(Bytes)
  /\ cuts \subseteq 1..Len(stream)

(***************************************************************************)
(* Arithmetic of polynomials over GF(2).                                    *)
(***************************************************************************)
a (+) b == (a \ b) \cup (b \ a)

Shl(a, n) == {e + n : e \in a} \cap (0..(WIDTH - 1))
Shr(a, n) == {e - n : e \in {f \in a : f >= n}}

\* Long division from the highest bit of the double word down to that of d.
polymod(n, d) ==
  LET k == Degree(d)
      rest[i \in k..(2 * WIDTH)] ==
        IF i = 2 * WIDTH THEN n
        ELSE LET r == rest[i + 1]
             IN  IF i \in r THEN r (+) {e + i - k : e \in d} ELSE r
  IN  rest[k]

polymult(x, y) ==
  {e \in {i + j : i \in x, j \in y} : Cardinality({i \in x : e - i \in y}) % 2 = 1}

polymmult(x, y, d) == polymod(polymult(x, y), d)

(***************************************************************************)
(* calcT: what the high bits of a word become when a byte is shifted in,    *)
(* and what the oldest byte of the window contributes.                      *)
(***************************************************************************)
shift == xshift - BYTE

T == [i \in Bytes |-> polymmult(i, polymod({xshift}, POLY), POLY) \cup Shl(i, xshift)]

append8(p, m) == (Shl(p, BYTE) \cup m) (+) T[Shr(p, shift)]

\* Mistake: one byte too many.
ULate ==
  LET sizeshift[n \in 0..window_size] ==
        IF n = 0 THEN {0} ELSE append8(sizeshift[n - 1], {})
  IN  [i \in Bytes |-> polymmult(i, sizeshift[window_size], POLY)]

U ==
  LET sizeshift[n \in 1..window_size] ==
        IF n = 1 THEN {0} ELSE append8(sizeshift[n - 1], {})
  IN  [i \in Bytes |-> polymmult(i, sizeshift[window_size], POLY)]

\* (1 << (fls32(avg_segment_size) - 1)) - 1
fingerprint_mask ==
  LET log == CHOOSE k \in 0..avg_segment_size :
               2 ^ k <= avg_segment_size /\ avg_segment_size < 2 ^ (k + 1)
  IN  0..(log - 1)

(***************************************************************************)
(* rabin_init, rabin_reset and rabin_segment_next.                          *)
(***************************************************************************)
Init ==
  /\ fingerprint = {}
  /\ buf = [i \in 0..(window_size - 1) |-> {}]
  /\ bufpos = UINT_MAX
  /\ cur_seg_size = 0
  /\ left = 0
  /\ stream = <<>>
  /\ cuts = {}

\* Mistake: the window keeps the bytes of the stream before.
ResetKeepsBuffer ==
  /\ left = 0
  /\ fingerprint' = {}
  /\ bufpos' = UINT_MAX
  /\ cur_seg_size' = 0
  /\ stream' = <<>>
  /\ cuts' = {}
  /\ UNCHANGED <<buf, left>>

Reset ==
  /\ left = 0
  /\ fingerprint' = {}
  /\ buf' = [i \in 0..(window_size - 1) |-> {}]
  /\ bufpos' = UINT_MAX
  /\ cur_seg_size' = 0
  /\ stream' = <<>>
  /\ cuts' = {}
  /\ UNCHANGED left

\* Mistake: every call starts a segment.
CallStartsSegment(bytes) ==
  /\ left = 0
  /\ Len(stream) + bytes <= MaxStream
  /\ left' = bytes
  /\ cur_seg_size' = 0
  /\ UNCHANGED <<fingerprint, buf, bufpos, stream, cuts>>

\* rabin_segment_next is called with so many bytes.
Call(bytes) ==
  /\ left = 0
  /\ Len(stream) + bytes <= MaxStream
  /\ left' = bytes
  /\ UNCHANGED <<fingerprint, buf, bufpos, cur_seg_size, stream, cuts>>

\* The unsigned bufpos starts at -1 and wraps to 0.
NextPos ==
  LET pos == (bufpos + 1) % (UINT_MAX + 1)
  IN  IF pos >= window_size THEN 0 ELSE pos

slide8(m) ==
  /\ fingerprint' = append8(fingerprint (+) U[buf[NextPos]], m)
  /\ buf' = [buf EXCEPT ![NextPos] = m]
  /\ bufpos' = NextPos
  /\ stream' = Append(stream, m)

\* Mistake: the maximum is compared too late.
BoundaryPastMaximum(size) ==
  /\ size >= min_segment_size
  /\ fingerprint' \cap fingerprint_mask = {} \/ size > max_segment_size

\* With the byte that slide8 took in the segment has this size: does it end?
Boundary(size) ==
  /\ size >= min_segment_size
  /\ fingerprint' \cap fingerprint_mask = {} \/ size = max_segment_size

\* A byte that ends a segment: the call returns, whatever it has left.
ReadCutting(m) ==
  /\ left > 0
  /\ slide8(m)
  /\ Boundary(cur_seg_size + 1)
  /\ cur_seg_size' = 0
  /\ cuts' = cuts \cup {Len(stream')}
  /\ left' = 0

Read(m) ==
  /\ left > 0
  /\ slide8(m)
  /\ ~Boundary(cur_seg_size + 1)
  /\ cur_seg_size' = cur_seg_size + 1
  /\ left' = left - 1
  /\ UNCHANGED cuts

Next ==
  \/ Reset
  \/ \E bytes \in 1..MaxCall : Call(bytes)
  \/ \E m \in Bytes : ReadCutting(m) \/ Read(m)

Spec == Init /\ [][Next]_vars

(***************************************************************************)
(* Properties.                                                              *)
(***************************************************************************)
\* The last window_size of the first n bytes, as one polynomial.
WindowAt(n) ==
  UNION {{BYTE * (n - i) + e : e \in stream[i]} :
           i \in {j \in 1..n : j > n - window_size}}

\* The remainder modulo POLY by its definition.
Remainder ==
  [p \in SUBSET (0..(BYTE * window_size - 1)) |->
     CHOOSE r \in SUBSET (0..(xshift - 1)) :
       \E q \in SUBSET (0..(BYTE * window_size - xshift)) : polymult(q, POLY) = p (+) r]

\* The tables and the circular buffer compute what they are for: the
\* fingerprint is the remainder of the bytes in the window, whatever was read
\* before them (slide8, append8, calcT).
FingerprintOfWindow == fingerprint = Remainder[WindowAt(Len(stream))]

\* The segments of the first n bytes of the stream, from its contents only.
CutsOfContents ==
  LET before[n \in 0..Len(stream)] ==
        IF n = 0 THEN {}
        ELSE LET earlier == before[n - 1]
                 start   == CHOOSE c \in earlier \cup {0} : \A d \in earlier : d <= c
                 size    == n - start
             IN  IF /\ size >= min_segment_size
                    /\ \/ Remainder[WindowAt(n)] \cap fingerprint_mask = {}
                       \/ size = max_segment_size
                 THEN earlier \cup {n}
                 ELSE earlier
  IN  before[Len(stream)]

\* Equal streams have equal segments: where a stream is cut does not depend on
\* the calls it arrives in, nor on the streams before a reset.
CutsDependOnContents == cuts = CutsOfContents

\* A segment is never longer than max_segment_size nor shorter than
\* min_segment_size; the one that is still open will not have to be
\* (rabin_segment_next, which compares with the maximum by equality).
SegmentSizes ==
  /\ \A c \in cuts : \E b \in cuts \cup {0} :
       /\ c - b \in min_segment_size..max_segment_size
       /\ \A d \in cuts : ~(b < d /\ d < c)
  /\ \E b \in cuts \cup {0} :
       /\ Len(stream) - b < max_segment_size
       /\ \A d \in cuts : d <= b
=============================================================================
