----------------------------- MODULE GrowBuffer -----------------------------
(***************************************************************************)
(* The growbuffer of the s3 tool (s3-client/src/s3.c), which holds what put *)
(* read from standard input: a ring of blocks, filled at its end and        *)
(* emptied at its front.  The operators return the ring and what the code   *)
(* returns through pointers.                                                *)
(***************************************************************************)
EXTENDS Naturals, Sequences, SequencesExt, FiniteSetsExt

CONSTANTS BlockSize, Zero   \* bytes of a block; the byte of fresh memory

ASSUME GrowBufferAssumption == BlockSize \in Nat \ {0}

\* struct growbuffer: size bytes of data are in use, from start on.
EmptyBlock == [size |-> 0, start |-> 0, data |-> [i \in 1..BlockSize |-> Zero]]

\* The last block is filled up first; size is where, whatever start is.
LastWithRoom(gb) == gb # <<>> /\ Last(gb).size # BlockSize

\* growbuffer_append, for one byte of the data that memcpy takes in pieces.
AppendByte(gb, byte) ==
  LET ring == IF LastWithRoom(gb) THEN gb ELSE Append(gb, EmptyBlock)
      at   == Last(ring).size + 1
  IN  [ring EXCEPT ![Len(ring)].data = [i \in 1..BlockSize |-> IF i = at THEN byte ELSE @[i]],
                   ![Len(ring)].size = at]

growbuffer_append(gb, data) == FoldLeft(AppendByte, gb, data)

\* What growbuffer_read copies: bytes of the first block only.
Taken(gb, amt) ==
  LET first == Head(gb)
  IN  SubSeq(first.data, first.start + 1, first.start + Min({first.size, amt}))

\* Mistake: start is forgotten.
ReadInPlace(gb, amt) ==
  LET left == Head(gb).size - Min({Head(gb).size, amt})
  IN  IF left = 0 THEN Tail(gb) ELSE [gb EXCEPT ![1].size = left]

\* Mistake: a block that has nothing left stays.
ReadKeepsBlock(gb, amt) ==
  LET n == Len(Taken(gb, amt))
  IN  [gb EXCEPT ![1].size = @ - n, ![1].start = @ + n]

\* growbuffer_read: a block that has nothing left is freed.
growbuffer_read(gb, amt) ==
  LET n == Len(Taken(gb, amt))
  IN  IF n = Head(gb).size THEN Tail(gb)
      ELSE [gb EXCEPT ![1].size = @ - n, ![1].start = @ + n]

\* All that is still to read.
Unread(gb) ==
  FoldLeft(LAMBDA bytes, block : bytes \o SubSeq(block.data, block.start + 1, block.start + block.size),
           <<>>, gb)
=============================================================================
