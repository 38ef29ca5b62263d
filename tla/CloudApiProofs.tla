--------------------------- MODULE CloudApiProofs ---------------------------
(***************************************************************************)
(* Transfers of any files in buffers of any size: what a put has sent and    *)
(* what a get has received is always the beginning of the file or object,    *)
(* and the lengths add up, which is why a short file never becomes an object *)
(* and a short transfer never a success.                                     *)
(***************************************************************************)
EXTENDS CloudApi, SequenceTheorems, FiniteSetTheorems, TLAPS

Beginning(s, t) == Len(s) <= Len(t) /\ s = SubSeq(t, 1, Len(s))

PutOK(c) ==
  /\ c \in PutCalls
  /\ Beginning(c.sent, c.file)
  /\ Len(c.sent) + c.remainingLength = c.contentLength

GetOK(c) ==
  /\ c \in GetCalls
  /\ IF c.object = None THEN c.file = <<>> ELSE Beginning(c.file, c.object)

Typed ==
  /\ bucket \in [Keys -> Contents \cup {None}]
  /\ running \in BOOLEAN
  /\ statusG \in Statuses
  /\ changes \in Nat

TransferInv ==
  /\ running \/ call # None => "proc" \in DOMAIN call
  /\ Runs("put") => PutOK(call)
  /\ (running \/ call # None) /\ call.proc = "get" =>
       /\ GetOK(call)
       /\ ~running /\ statusG = "OK" =>
            call.object # None /\ (call.full \/ call.file = call.object)

Inv == Typed /\ TransferInv

(***************************************************************************)
(* Sequences.                                                               *)
(***************************************************************************)
\* Contents are sequences of at most MaxLen bytes.
LEMMA ContentsAre ==
  ASSUME NEW s \in Contents
  PROVE  s \in Seq(Data) /\ Len(s) \in 0..MaxLen
<1>1. PICK n \in 0..MaxLen : s \in [1..n -> Data]
  BY DEF Contents
<1>2. n \in Nat
  BY <1>1, CloudApiAssumption
<1>3. s \in Seq(Data)
  BY <1>1, <1>2
<1>4. DOMAIN s = 1..n /\ DOMAIN s = 1..Len(s) /\ Len(s) \in Nat
  BY <1>1, <1>3, LenProperties
<1> QED BY <1>1, <1>2, <1>3, <1>4

\* All of them.
LEMMA ShortIsContents ==
  ASSUME NEW s \in Seq(Data), Len(s) <= MaxLen
  PROVE  s \in Contents
<1>1. Len(s) \in 0..MaxLen /\ s \in [1..Len(s) -> Data]
  BY LenProperties, CloudApiAssumption
<1> QED BY <1>1 DEF Contents

\* A piece is as long as its bounds say.
LEMMA Pieces ==
  ASSUME NEW t \in Seq(Data), NEW a \in Nat, NEW b \in Nat, a <= b, b <= Len(t)
  PROVE  Len(SubSeq(t, a + 1, b)) = b - a
<1>1. a + 1 \in Int /\ b \in Int /\ \A i \in (a + 1)..b : t[i] \in Data
  BY LenProperties
<1>2. Len(SubSeq(t, a + 1, b)) = IF a + 1 <= b THEN b - (a + 1) + 1 ELSE 0
  BY <1>1, SubSeqProperties
<1> QED BY <1>2

\* The smaller of two numbers.
LEMMA MinOfTwo ==
  ASSUME NEW a \in Nat, NEW b \in Nat
  PROVE  Min({a, b}) = IF a <= b THEN a ELSE b
<1> DEFINE m == IF a <= b THEN a ELSE b
<1>1. m \in {a, b} /\ \A y \in {a, b} : m <= y
  OBVIOUS
<1>2. \A x \in {a, b} : (\A y \in {a, b} : x <= y) => x = m
  OBVIOUS
<1> QED BY <1>1, <1>2 DEF Min

\* A beginning is as long as it says.
LEMMA Beginnings ==
  ASSUME NEW t \in Seq(Data), NEW n \in Nat, n <= Len(t)
  PROVE  /\ SubSeq(t, 1, n) \in Seq(Data)
         /\ Len(SubSeq(t, 1, n)) = n
         /\ Beginning(SubSeq(t, 1, n), t)
<1>1. Len(t) \in Nat /\ \A i \in 1..n : t[i] \in Data
  BY LenProperties
<1>2. SubSeq(t, 1, n) \in Seq(Data) /\ Len(SubSeq(t, 1, n)) = IF 1 <= n THEN n - 1 + 1 ELSE 0
  BY <1>1, SubSeqProperties
<1> QED BY <1>1, <1>2 DEF Beginning

\* A beginning is a prefix.
LEMMA BeginningIsPrefix ==
  ASSUME NEW s \in Seq(Data), NEW t \in Seq(Data), Beginning(s, t)
  PROVE  IsPrefix(s, t)
<1>1. SubSeq(s, 1, Len(s)) = s
  BY SubSeqFull
<1> QED BY <1>1 DEF Beginning, IsPrefix

(***************************************************************************)
(* Puts.                                                                    *)
(***************************************************************************)
\* The data callback reads on where it stopped and counts what it read.
LEMMA SendsInOrder ==
  ASSUME NEW c \in PutCalls, PutOK(c), c = call, NEW bufferSize \in Nat, PutSends(bufferSize)
  PROVE  PutOK(call') /\ call'.proc = "put"
<1> DEFINE at == Len(c.sent)
           asked == Min({c.remainingLength, bufferSize})
           end == Min({at + asked, Len(c.file)})
           data == FileRead(asked)
<1>1. /\ c.file \in Contents /\ c.sent \in Contents
      /\ c.file \in Seq(Data) /\ Len(c.file) \in 0..MaxLen
      /\ c.sent \in Seq(Data) /\ at \in 0..MaxLen /\ at <= Len(c.file)
      /\ c.remainingLength \in 0..MaxLen /\ c.contentLength \in 0..MaxLen /\ MaxLen \in Nat
      /\ at + c.remainingLength = c.contentLength
  BY ContentsAre, CloudApiAssumption DEF PutCalls, PutOK, Beginning
<1>2. asked \in Nat /\ asked <= c.remainingLength
  BY <1>1, MinOfTwo
<1>3. end \in Nat /\ at <= end /\ end <= Len(c.file) /\ end - at <= asked
  <2>1. at + asked \in Nat /\ Len(c.file) \in Nat /\ at \in Nat
    BY <1>1, <1>2
  <2>2. end = IF at + asked <= Len(c.file) THEN at + asked ELSE Len(c.file)
    BY <2>1, MinOfTwo
  <2> HIDE DEF end, asked, at
  <2> QED BY <1>1, <1>2, <2>1, <2>2
<1>4. data = SubSeq(c.file, at + 1, end)
  BY DEF FileRead
<1>5. call' = [c EXCEPT !.sent = @ \o data, !.remainingLength = @ - Len(data)]
  BY DEF PutSends
<1> HIDE DEF data, end, asked
<1>6. c.sent \o data = SubSeq(c.file, 1, end)
  <2>1. 1 \in 1..(Len(c.file) + 1) /\ at \in (1 - 1)..Len(c.file) /\ end \in at..Len(c.file)
    BY <1>1, <1>3
  <2>2. SubSeq(c.file, 1, at) \o SubSeq(c.file, at + 1, end) = SubSeq(c.file, 1, end)
    BY <1>1, <2>1, ConcatAdjacentSubSeq
  <2>3. c.sent = SubSeq(c.file, 1, at)
    BY DEF PutOK, Beginning
  <2> QED BY <1>4, <2>2, <2>3
<1>7. Len(data) = end - at
  <2>1. c.file \in Seq(Data) /\ at \in Nat /\ end \in Nat /\ at <= end /\ end <= Len(c.file)
    BY <1>1, <1>3
  <2> HIDE DEF at
  <2> QED BY <1>4, <2>1, Pieces
<1>8. /\ c.sent \o data \in Seq(Data) /\ Len(c.sent \o data) = end
      /\ Beginning(c.sent \o data, c.file)
  BY <1>1, <1>3, <1>6, Beginnings
<1>9. c.remainingLength - Len(data) \in 0..MaxLen
  <2>1. c.remainingLength \in Nat /\ c.remainingLength <= MaxLen /\ MaxLen \in Nat /\ at \in Nat
    BY <1>1
  <2>2. end - at <= c.remainingLength /\ end - at \in Nat
    BY <1>2, <1>3, <2>1
  <2> QED BY <1>7, <2>1, <2>2
<1>10. c.sent \o data \in Contents
  <2>1. c.sent \o data \in Seq(Data) /\ Len(c.sent \o data) <= MaxLen
    BY <1>1, <1>3, <1>8
  <2> QED BY <2>1, ShortIsContents
<1>11. call' \in PutCalls
  BY <1>5, <1>9, <1>10 DEF PutCalls
<1>12. /\ call'.sent = c.sent \o data /\ call'.file = c.file /\ call'.proc = "put"
       /\ call'.remainingLength = c.remainingLength - Len(data)
       /\ call'.contentLength = c.contentLength
  BY <1>5 DEF PutCalls
<1>13. end + (c.remainingLength - (end - at)) = c.contentLength
  BY <1>1, <1>3
<1> QED BY <1>7, <1>8, <1>11, <1>12, <1>13 DEF PutOK

\* A put that the server answers has sent what it announced, from the start.
LEMMA PutWhole ==
  ASSUME Inv, NEW status, PutCompletes(status)
  PROVE  /\ PutOK(call) /\ call' = call /\ ~running'
         /\ bucket' = [bucket EXCEPT ![call.key] = call.sent]
         /\ Len(call.sent) = call.contentLength /\ IsPrefix(call.sent, call.file)
<1>1. PutOK(call) /\ call.remainingLength = 0
  BY DEF Inv, TransferInv, PutCompletes
<1>2. call.sent \in Seq(Data) /\ Len(call.sent) \in Nat /\ call.file \in Seq(Data)
  BY <1>1, ContentsAre, LenProperties DEF PutOK, PutCalls
<1>3. IsPrefix(call.sent, call.file)
  BY <1>1, <1>2, BeginningIsPrefix DEF PutOK
<1>4. Len(call.sent) = call.contentLength
  BY <1>1, <1>2 DEF PutOK
<1> QED BY <1>1, <1>3, <1>4 DEF PutCompletes, Completes

(***************************************************************************)
(* Gets.                                                                    *)
(***************************************************************************)
\* What the data callback or fclose leaves in the file is a beginning of the
\* object, and all of it if the get counts as done.
LEMMA GetsInOrder ==
  ASSUME Inv, \/ \E bufferSize \in 1..BufferSize : GetReceives(bufferSize)
              \/ GetCompletes
  PROVE  /\ GetOK(call') /\ call'.proc = "get" /\ statusG' \in Statuses
         /\ running' \in BOOLEAN
         /\ ~running' /\ statusG' = "OK" =>
              call'.object # None /\ (call'.full \/ call'.file = call'.object)
<1> DEFINE c == call
<1>1. running /\ c.proc = "get"
  BY DEF GetReceives, GetCompletes, Runs
<1>2. GetOK(c)
  BY <1>1 DEF Inv, TransferInv
<1>3. /\ c \in GetCalls /\ c.file \in Contents /\ c.file \in Seq(Data) /\ Len(c.file) \in 0..MaxLen
      /\ c.object \in Contents \cup {None} /\ MaxLen \in Nat
      /\ c.object # None => c.object \in Seq(Data) /\ Len(c.object) \in 0..MaxLen
                              /\ Beginning(c.file, c.object)
  BY <1>2, ContentsAre, CloudApiAssumption DEF GetOK, GetCalls
<1>4. ASSUME NEW n \in Nat, c.object # None, n <= Len(c.object)
      PROVE  GetOK([c EXCEPT !.file = SubSeq(c.object, 1, n)])
  <2>1. /\ SubSeq(c.object, 1, n) \in Seq(Data) /\ Len(SubSeq(c.object, 1, n)) = n
        /\ Beginning(SubSeq(c.object, 1, n), c.object)
    BY <1>3, <1>4, Beginnings
  <2>2. SubSeq(c.object, 1, n) \in Contents
    <3>1. SubSeq(c.object, 1, n) \in Seq(Data) /\ Len(SubSeq(c.object, 1, n)) <= MaxLen
      BY <1>3, <1>4, <2>1
    <3> QED BY <3>1, ShortIsContents
  <2> DEFINE part == SubSeq(c.object, 1, n)
             d == [c EXCEPT !.file = part]
  <2> HIDE DEF part
  <2>3. d \in GetCalls /\ d.file = part /\ d.object = c.object
    BY <1>3, <2>2 DEF GetCalls, part
  <2>4. Beginning(part, c.object)
    BY <2>1 DEF part
  <2> HIDE DEF d
  <2>5. GetOK(d)
    BY <1>4, <2>3, <2>4 DEF GetOK
  <2> QED BY <2>5 DEF d, part
<1>5. ASSUME NEW bufferSize \in 1..BufferSize, GetReceives(bufferSize)
      PROVE  /\ GetOK(call') /\ call'.proc = "get" /\ statusG' \in Statuses
             /\ running' \in BOOLEAN /\ ~(~running' /\ statusG' = "OK")
  <2>1. PICK n \in 0..bufferSize : call' = [c EXCEPT !.file = Received(n)]
    <3>1. bufferSize \in 0..bufferSize /\ 0..(bufferSize - 1) \subseteq 0..bufferSize
      BY CloudApiAssumption
    <3> QED BY <1>5, <3>1 DEF GetReceives
  <2>2. /\ c.object # None /\ Len(c.file) + n \in Nat /\ Len(c.file) + n <= Len(c.object)
        /\ Received(n) = SubSeq(c.object, 1, Len(c.file) + n)
    <3>1. c.object # None /\ Len(c.file) + bufferSize <= Len(c.object)
      BY <1>5 DEF GetReceives
    <3>2. Len(c.file) \in Nat /\ Len(c.object) \in Nat /\ bufferSize \in Nat /\ n \in 0..bufferSize
      BY <1>3, <2>1, <3>1, CloudApiAssumption
    <3>3. Len(c.file) + n \in Nat /\ Len(c.file) + n <= Len(c.object)
      BY <3>1, <3>2
    <3> QED BY <3>1, <3>3 DEF Received
  <2>3. GetOK(call') /\ call'.proc = "get"
    BY <1>1, <1>3, <1>4, <2>1, <2>2 DEF GetCalls
  <2>4. \/ running' = running /\ statusG' = statusG
        \/ running' = FALSE /\ statusG' = "AbortedByCallback"
    BY <1>5 DEF GetReceives, Completes
  <2>5. running = TRUE /\ statusG \in Statuses
    BY <1>1 DEF Inv, Typed
  <2> QED BY <2>3, <2>4, <2>5 DEF Statuses
<1>6. CASE GetCompletes
  <2>1. c.file = c.object /\ c.object # None
    BY <1>3, <1>6, CloudApiAssumption DEF GetCompletes
  <2>2. ~running' /\ statusG' = "OK" /\ running' = FALSE
    BY <1>6 DEF GetCompletes, Completes
  <2>3. CASE call' = c
    BY <1>1, <1>2, <2>1, <2>2, <2>3 DEF Statuses
  <2>4. ASSUME NEW n \in 0..(Len(c.file) - 1),
               call' = [c EXCEPT !.file = SubSeq(@, 1, n), !.full = TRUE]
        PROVE  GetOK(call') /\ call'.proc = "get" /\ call'.object # None /\ call'.full
    <3> DEFINE d == [c EXCEPT !.file = SubSeq(c.object, 1, n)]
    <3>1. n \in Nat /\ n <= Len(c.object)
      BY <1>3, <2>1
    <3>2. GetOK(d)
      BY <1>4, <2>1, <3>1
    <3>3. call' = [d EXCEPT !.full = TRUE]
      BY <1>3, <2>1, <2>4 DEF GetCalls
    <3>4. d \in GetCalls /\ d.object = c.object /\ d.proc = "get"
      BY <1>3, <3>2 DEF GetOK, GetCalls
    <3> HIDE DEF d
    <3>5. /\ call' \in GetCalls /\ call'.object = d.object /\ call'.file = d.file
          /\ call'.full /\ call'.proc = "get"
      BY <3>3, <3>4 DEF GetCalls
    <3> QED BY <2>1, <3>2, <3>4, <3>5 DEF GetOK
  <2>5. call' = c \/ \E n \in 0..(Len(c.file) - 1) :
                       call' = [c EXCEPT !.file = SubSeq(@, 1, n), !.full = TRUE]
    BY <1>6 DEF GetCompletes
  <2> QED BY <2>2, <2>3, <2>4, <2>5 DEF Statuses
<1> QED BY <1>5, <1>6

(***************************************************************************)
(* The invariant.                                                           *)
(***************************************************************************)
\* A call begins with nothing transferred.
LEMMA BeginsInv ==
  ASSUME Inv, \/ \E k \in Keys, data \in Contents, size \in 0..MaxLen : PutBegins(k, data, size)
              \/ \E k \in Keys : GetBegins(k)
              \/ ListBegins \/ ServiceBegins
  PROVE  Inv'
<1>1. /\ running' /\ running' \in BOOLEAN
      /\ UNCHANGED <<exists, bucket, statusG, changes>>
  BY DEF PutBegins, GetBegins, ListBegins, ServiceBegins, Begins
<1>2. <<>> \in Contents /\ <<>> \in Seq(Data) /\ Len(<<>>) = 0
  <2>1. <<>> \in Seq(Data) /\ Len(<<>>) = 0 /\ 0 <= MaxLen
    BY EmptySeq, CloudApiAssumption
  <2>2. Len(<<>>) <= MaxLen
    BY <2>1
  <2> QED BY <2>1, <2>2, ShortIsContents
<1>3. \A t \in Contents : Beginning(<<>>, t)
  <2> TAKE t \in Contents
  <2>1. t \in Seq(Data) /\ Len(t) \in Nat
    BY ContentsAre, LenProperties
  <2>2. SubSeq(t, 1, 0) = <<>>
    BY SubSeqEmpty
  <2> QED BY <1>2, <2>1, <2>2 DEF Beginning
<1>4. ASSUME NEW k \in Keys, NEW data \in Contents, NEW size \in 0..MaxLen, PutBegins(k, data, size)
      PROVE  PutOK(call') /\ call'.proc = "put"
  <2>1. size \in Nat /\ 0 + size = size
    BY CloudApiAssumption
  <2>2. call' = [proc |-> "put", key |-> k, file |-> data, contentLength |-> size,
                 remainingLength |-> size, sent |-> <<>>]
    BY <1>4 DEF PutBegins, Begins
  <2> QED BY <1>2, <1>3, <2>1, <2>2 DEF PutOK, PutCalls
<1>5. ASSUME NEW k \in Keys, GetBegins(k)
      PROVE  GetOK(call') /\ call'.proc = "get"
  <2>1. call' = [proc |-> "get", key |-> k, object |-> bucket[k], file |-> <<>>, full |-> FALSE]
    BY <1>5 DEF GetBegins, Begins
  <2>2. bucket[k] \in Contents \cup {None}
    BY DEF Inv, Typed
  <2> QED BY <1>2, <1>3, <2>1, <2>2 DEF GetOK, GetCalls
<1>6. ASSUME ListBegins \/ ServiceBegins
      PROVE  "proc" \in DOMAIN call' /\ call'.proc \notin {"put", "get"}
  BY <1>6 DEF ListBegins, ServiceBegins, Begins
<1>7. PutOK(call') \/ GetOK(call') => "proc" \in DOMAIN call'
  BY DEF PutOK, GetOK, PutCalls, GetCalls
<1>8. TransferInv'
  BY <1>1, <1>4, <1>5, <1>6, <1>7 DEF TransferInv, Runs
<1> QED BY <1>1, <1>8 DEF Inv, Typed

\* A listing says nothing of puts and gets.
LEMMA ListsInv ==
  ASSUME Inv, \/ \E n \in 1..PageSize : ListPage(n)
              \/ ServiceCompletes
  PROVE  Inv'
<1>1. running /\ call.proc \notin {"put", "get"} /\ "proc" \in DOMAIN call
  BY DEF ListPage, ServiceCompletes, Runs, Inv, TransferInv
<1>2. call'.proc = call.proc /\ "proc" \in DOMAIN call'
  BY <1>1 DEF ListPage, ServiceCompletes
<1>3. UNCHANGED <<bucket, changes>> /\ statusG' = "OK" /\ running' \in BOOLEAN
  BY DEF ListPage, ServiceCompletes, Completes
<1>4. TransferInv'
  BY <1>1, <1>2 DEF TransferInv, Runs
<1> QED BY <1>3, <1>4 DEF Inv, Typed, Statuses

\* Calls that are one step leave no call behind.
LEMMA AtOnceInv ==
  ASSUME Inv, NEW status \in {"OK", "Error"},
         \/ \E k \in Keys : Delete(k, status)
         \/ CreateBucket(status) \/ DeleteBucket(status)
  PROVE  Inv'
<1>1. UNCHANGED <<running, changes>> /\ ~running /\ call' = None /\ statusG' = status
  BY DEF Delete, CreateBucket, DeleteBucket
<1>2. bucket' \in [Keys -> Contents \cup {None}]
  BY DEF Delete, CreateBucket, DeleteBucket, Inv, Typed
<1>3. TransferInv'
  BY <1>1 DEF TransferInv, Runs
<1> QED BY <1>1, <1>2, <1>3 DEF Inv, Typed, Statuses

\* Others change the bucket, not what is under way.
LEMMA OthersInv ==
  ASSUME Inv, NEW k \in Keys, NEW object \in Contents \cup {None}, OthersChange(k, object)
  PROVE  Inv'
<1>1. UNCHANGED <<running, statusG>> /\ changes' = changes + 1
  BY DEF OthersChange
<1>2. bucket' \in [Keys -> Contents \cup {None}]
  BY DEF OthersChange, Inv, Typed
<1>3. \/ call' = call
      \/ running /\ call.proc = "list" /\ call' = [call EXCEPT !.stable = @ \ {k}]
  BY DEF OthersChange
<1>4. TransferInv'
  <2>1. CASE call' = call
    BY <1>1, <2>1 DEF Inv, TransferInv, Runs
  <2>2. CASE running /\ call.proc = "list" /\ call' = [call EXCEPT !.stable = @ \ {k}]
    <3>1. "proc" \in DOMAIN call
      BY <2>2 DEF Inv, TransferInv
    <3>2. "proc" \in DOMAIN call' /\ call'.proc = "list"
      BY <2>2, <3>1
    <3> QED BY <3>2 DEF TransferInv, Runs
  <2> QED BY <1>3, <2>1, <2>2
<1>5. changes' \in Nat
  BY <1>1 DEF Inv, Typed
<1> QED BY <1>1, <1>2, <1>4, <1>5 DEF Inv, Typed

\* At first nothing was called.
LEMMA InitInv == Init => Inv
<1> SUFFICES ASSUME Init PROVE Inv
  OBVIOUS
<1>1. ~running /\ call = None /\ running = FALSE
  BY DEF Init
<1>2. TransferInv
  BY <1>1 DEF TransferInv, Runs
<1> QED BY <1>1, <1>2 DEF Init, Inv, Typed, Statuses

\* Every step keeps the invariant.
LEMMA NextInv == Inv /\ [Next]_vars => Inv'
<1> SUFFICES ASSUME Inv, [Next]_vars PROVE Inv'
  OBVIOUS
<1>1. ASSUME NEW k \in Keys, NEW data \in Contents, NEW size \in 0..MaxLen, PutBegins(k, data, size)
      PROVE  Inv'
  BY <1>1, BeginsInv
<1>2. CASE (\E k \in Keys : GetBegins(k)) \/ ListBegins \/ ServiceBegins
  BY <1>2, BeginsInv
<1>3. ASSUME NEW k \in Keys, NEW status \in {"OK", "Error"}, Delete(k, status) PROVE Inv'
  BY <1>3, AtOnceInv
<1>4. ASSUME NEW status \in {"OK", "Error"}, CreateBucket(status) \/ DeleteBucket(status)
      PROVE  Inv'
  BY <1>4, AtOnceInv
<1>5. ASSUME NEW k \in Keys, NEW object \in Contents \cup {None}, OthersChange(k, object)
      PROVE  Inv'
  BY <1>5, OthersInv
<1>6. ASSUME NEW bufferSize \in 1..BufferSize, PutSends(bufferSize) PROVE Inv'
  <2>1. running /\ PutOK(call) /\ call \in PutCalls /\ bufferSize \in Nat
    BY <1>6, CloudApiAssumption DEF PutSends, Inv, TransferInv, PutOK, Runs
  <2>2. PutOK(call') /\ call'.proc = "put"
    BY <1>6, <2>1, SendsInOrder
  <2>3. "proc" \in DOMAIN call'
    BY <2>2 DEF PutOK, PutCalls
  <2>4. UNCHANGED <<bucket, running, statusG, changes>>
    BY <1>6 DEF PutSends
  <2>5. TransferInv'
    BY <2>2, <2>3, <2>4 DEF TransferInv, Runs
  <2> QED BY <2>4, <2>5 DEF Inv, Typed
<1>7. ASSUME NEW status \in {"OK", "Error"}, PutCompletes(status) PROVE Inv'
  <2>1. /\ PutOK(call) /\ call' = call /\ ~running'
        /\ bucket' = [bucket EXCEPT ![call.key] = call.sent]
    BY <1>7, PutWhole
  <2>2. call.sent \in Contents /\ call.proc = "put" /\ "proc" \in DOMAIN call
    BY <2>1 DEF PutOK, PutCalls
  <2>3. changes' = changes /\ statusG' = status /\ running' = FALSE
    BY <1>7 DEF PutCompletes, Completes
  <2>4. TransferInv'
    BY <2>1, <2>2 DEF TransferInv, Runs
  <2> QED BY <2>1, <2>2, <2>3, <2>4 DEF Inv, Typed, Statuses
<1>8. CASE GetCompletes \/ \E bufferSize \in 1..BufferSize : GetReceives(bufferSize)
  <2>1. /\ GetOK(call') /\ call'.proc = "get" /\ statusG' \in Statuses /\ running' \in BOOLEAN
        /\ ~running' /\ statusG' = "OK" =>
             call'.object # None /\ (call'.full \/ call'.file = call'.object)
    BY <1>8, GetsInOrder
  <2>2. UNCHANGED <<bucket, changes>>
    BY <1>8 DEF GetCompletes, GetReceives
  <2>3. "proc" \in DOMAIN call'
    BY <2>1 DEF GetOK, GetCalls
  <2>4. TransferInv'
    BY <2>1, <2>3 DEF TransferInv, Runs
  <2> QED BY <2>1, <2>2, <2>4 DEF Inv, Typed
<1>9. CASE \E n \in 1..PageSize : ListPage(n)
  BY <1>9, ListsInv
<1>10. CASE ServiceCompletes
  BY <1>10, ListsInv
<1>11. CASE Fails
  <2>1. call' = call /\ running /\ running' = FALSE /\ statusG' = "Error" /\ UNCHANGED <<bucket, changes>>
    BY <1>11 DEF Fails, Completes
  <2>2. TransferInv'
    BY <2>1 DEF Inv, TransferInv, Runs
  <2> QED BY <2>1, <2>2 DEF Inv, Typed, Statuses
<1>12. CASE UNCHANGED vars
  BY <1>12 DEF vars, Inv, Typed, TransferInv, Runs
<1> QED BY <1>1, <1>2, <1>3, <1>4, <1>5, <1>6, <1>7, <1>8, <1>9, <1>10, <1>11, <1>12 DEF Next

(***************************************************************************)
(* Sets of keys.                                                            *)
(***************************************************************************)
\* There is a first key.
LEMMA HasLeast ==
  ASSUME NEW S \in SUBSET Nat, S # {}
  PROVE  \E x \in S : \A y \in S : x <= y
<1> DEFINE R == OpToRel(<, Nat)
<1>1. IsWellFoundedOn(R, Nat)
  BY NatLessThanWellFounded, Zenon
<1>2. \A x, y \in Nat : <<x, y>> \in R <=> x < y
  BY DEF OpToRel
<1> HIDE DEF R
<1>3. PICK x \in S : \A y \in S : ~(<<y, x>> \in R)
  BY <1>1, WFMin, Zenon
<1>4. \A y \in S : ~(y < x)
  BY <1>2, <1>3
<1> QED BY <1>4

\* And a last one, if there are not too many.
LEMMA HasGreatest ==
  ASSUME NEW S \in SUBSET Nat, IsFiniteSet(S), S # {}
  PROVE  \E x \in S : \A y \in S : y <= x
<1> DEFINE Above(x) == {y \in S : y > x}
           Counts == {Cardinality(Above(x)) : x \in S}
<1>1. \A x \in S : IsFiniteSet(Above(x)) /\ Cardinality(Above(x)) \in Nat
  BY FS_Subset, FS_CardinalityType
<1>2. PICK x \in S : \A y \in S : Cardinality(Above(x)) <= Cardinality(Above(y))
  <2>1. Counts \in SUBSET Nat /\ Counts # {}
    BY <1>1
  <2>2. \E n \in Counts : \A m \in Counts : n <= m
    <3> HIDE DEF Counts
    <3> QED BY <2>1, HasLeast, Zenon
  <2> QED BY <2>2
<1>3. ASSUME NEW y \in S, ~(y <= x) PROVE FALSE
  <2>0. x \in Nat /\ y \in Nat /\ x < y
    BY <1>3
  <2>1. Above(y) \in SUBSET Above(x) /\ y \in Above(x) /\ y \notin Above(y)
    <3>1. \A z \in S : z > y => z > x
      BY <2>0
    <3>2. \A z \in Above(y) : z \in Above(x)
      BY <3>1
    <3>3. y > x /\ ~(y > y)
      BY <2>0
    <3> QED BY <3>2, <3>3
  <2>2. Above(y) # Above(x)
    BY <2>1
  <2>3. Cardinality(Above(y)) <= Cardinality(Above(x)) /\ Cardinality(Above(y)) # Cardinality(Above(x))
    <3> HIDE DEF Above
    <3> QED BY <1>1, <2>1, <2>2, FS_Subset
  <2> QED BY <1>1, <1>2, <2>3
<1> QED BY <1>3

\* The marker after a page is its last key (listBucketCallback).
LEMMA LastIsMarker ==
  ASSUME NEW S \in SUBSET Nat, IsFiniteSet(S), S # {}
  PROVE  NextMarker(S) \in S /\ \A k \in S : k <= NextMarker(S)
<1>1. \E x \in S : \A y \in S : x >= y
  <2>1. PICK x \in S : \A y \in S : y <= x
    BY HasGreatest
  <2>2. \A y \in S : x >= y
    BY <2>1
  <2> QED BY <2>2
<1>2. Max(S) \in S /\ \A y \in S : Max(S) >= y
  BY <1>1, Zenon DEF Max
<1>3. NextMarker(S) = Max(S)
  BY DEF NextMarker
<1>4. \A y \in S : y <= Max(S)
  BY <1>2
<1> QED BY <1>2, <1>3, <1>4

\* A page is a beginning of the keys that are left, and not an empty one.
LEMMA PagesBegin ==
  ASSUME NEW S \in SUBSET Nat, IsFiniteSet(S), NEW n \in Nat \ {0}
  PROVE  /\ FirstOf(S, n) \in SUBSET S /\ IsFiniteSet(FirstOf(S, n))
         /\ S # {} => FirstOf(S, n) # {}
         /\ \A k \in FirstOf(S, n), j \in S : j <= k => j \in FirstOf(S, n)
<1> DEFINE Before(k) == {j \in S : j < k}
<1>1. \A k \in S : IsFiniteSet(Before(k)) /\ Cardinality(Before(k)) \in Nat
  BY FS_Subset, FS_CardinalityType
<1>2. FirstOf(S, n) = {k \in S : Cardinality(Before(k)) < n}
  BY DEF FirstOf
<1>3. FirstOf(S, n) \in SUBSET S /\ IsFiniteSet(FirstOf(S, n))
  BY <1>2, FS_Subset
<1>4. ASSUME S # {} PROVE FirstOf(S, n) # {}
  <2>1. PICK x \in S : \A y \in S : x <= y
    BY <1>4, HasLeast
  <2>2. \A y \in S : ~(y < x)
    BY <2>1
  <2>3. Before(x) = {}
    BY <2>2
  <2>4. Cardinality(Before(x)) < n
    BY <2>3, FS_EmptySet
  <2> HIDE DEF Before
  <2> QED BY <1>2, <2>4
<1>5. ASSUME NEW k \in FirstOf(S, n), NEW j \in S, j <= k PROVE j \in FirstOf(S, n)
  <2>1. k \in S /\ Cardinality(Before(k)) < n
    BY <1>2
  <2>2. \A i \in S : i < j => i < k
    BY <1>5, <2>1
  <2>3. Before(j) \in SUBSET Before(k)
    BY <2>2
  <2> HIDE DEF Before
  <2>4. Cardinality(Before(j)) <= Cardinality(Before(k))
    BY <1>1, <2>1, <2>3, FS_Subset
  <2>5. Cardinality(Before(j)) < n
    BY <1>1, <2>1, <2>4
  <2> QED BY <1>2, <2>5
<1> QED BY <1>3, <1>4, <1>5

(***************************************************************************)
(* Listings.                                                                *)
(***************************************************************************)
Calls == PutCalls \cup GetCalls \cup ListCalls \cup ServiceCalls

\* Up to the marker every key that stayed was listed, and nothing behind it.
ListOK ==
  /\ \A k \in Keys : call.listed[k] <= 1
  /\ running =>
       \A k \in Keys :
         /\ call.listed[k] = 1 => k <= call.nextMarker
         /\ k \in call.stable => bucket[k] # None
         /\ k \in call.stable /\ k <= call.nextMarker => call.listed[k] = 1
  /\ ~running /\ statusG = "OK" => \A k \in call.stable : call.listed[k] = 1

CallsInv ==
  /\ exists \in BOOLEAN
  /\ IsFiniteSet(Stored)
  /\ running \/ call # None => call \in Calls
  /\ (running \/ call # None) /\ call.proc = "list" => ListOK

\* Objects come and go one at a time.
LEMMA StoredFinite ==
  ASSUME IsFiniteSet(Stored), bucket \in [Keys -> Contents \cup {None}],
         \/ bucket' = bucket
         \/ \E k, object : bucket' = [bucket EXCEPT ![k] = object]
  PROVE  IsFiniteSet(Stored')
<1>1. PICK k : \A j \in Keys : j # k => bucket'[j] = bucket[j]
  BY Zenon
<1>2. \A j \in Stored' : j \in Stored \cup {k}
  BY <1>1 DEF Stored
<1>3. IsFiniteSet(Stored \cup {k})
  BY FS_AddElement
<1> QED BY <1>2, <1>3, FS_Subset

\* A call is of its kind.
LEMMA KindOf ==
  ASSUME NEW c \in Calls
  PROVE  /\ c.proc = "list" => c \in ListCalls
         /\ c.proc = "service" => c \in ServiceCalls
BY DEF Calls, PutCalls, GetCalls, ListCalls, ServiceCalls

\* The start of a listing (cloud_list_bucket).
LEMMA ListStarts ==
  ASSUME Inv, CallsInv, ListBegins
  PROVE  CallsInv'
<1> DEFINE c == [proc |-> "list", nextMarker |-> NullMarker, listed |-> [k \in Keys |-> 0],
                 stable |-> Stored]
<1>1. call' = c /\ running' = TRUE /\ UNCHANGED <<exists, bucket, statusG>>
  BY DEF ListBegins, Begins
<1>2. Stored \subseteq Keys /\ NullMarker \in Nat /\ [k \in Keys |-> 0] \in [Keys -> 0..2]
  BY CloudApiAssumption DEF Stored
<1>3. c \in ListCalls
  BY <1>2 DEF ListCalls
<1>4. /\ c.proc = "list" /\ c.stable = Stored /\ c.nextMarker = NullMarker
      /\ \A k \in Keys : c.listed[k] = 0
  OBVIOUS
<1> HIDE DEF c
<1>5. \A k \in Keys : ~(k <= NullMarker)
  BY CloudApiAssumption
<1>6. ListOK'
  BY <1>1, <1>4, <1>5 DEF ListOK, Stored
<1>7. IsFiniteSet(Stored')
  BY <1>1 DEF CallsInv, Stored
<1> QED BY <1>1, <1>3, <1>6, <1>7 DEF CallsInv, Calls

\* A page of a listing (listBucketCallback and the loop of cloud_list_bucket).
LEMMA ListGoesOn ==
  ASSUME Inv, CallsInv, NEW n \in 1..PageSize, ListPage(n)
  PROVE  CallsInv'
<1> DEFINE left == Behind(call.nextMarker)
           page == FirstOf(left, n)
           to == [k \in Keys |-> IF k \in page THEN Min({2, call.listed[k] + 1}) ELSE call.listed[k]]
<1>1. running /\ call.proc = "list" /\ call \in ListCalls /\ ListOK
  BY KindOf DEF ListPage, Runs, CallsInv
<1>2. /\ call.nextMarker \in Nat /\ call.listed \in [Keys -> 0..2] /\ call.stable \subseteq Keys
      /\ n \in Nat \ {0} /\ Keys \subseteq Nat
  BY <1>1, CloudApiAssumption DEF ListCalls
<1>3. /\ call' = [call EXCEPT !.nextMarker = NextMarker(page), !.listed = to]
      /\ running' = (page # left) /\ statusG' = "OK" /\ UNCHANGED <<exists, bucket>>
  BY DEF ListPage
<1>4. left \in SUBSET Nat /\ left \in SUBSET Keys /\ IsFiniteSet(left)
  <2>1. left \in SUBSET Stored /\ Stored \subseteq Keys
    BY DEF Behind, Stored
  <2> QED BY <1>2, <2>1, FS_Subset DEF CallsInv
<1>5. \A k \in Keys : k \in left <=> bucket[k] # None /\ k > call.nextMarker
  BY DEF Behind, Stored
<1> HIDE DEF left
<1>6. /\ page \in SUBSET left /\ IsFiniteSet(page) /\ page \in SUBSET Nat
      /\ left # {} => page # {}
      /\ \A k \in page, j \in left : j <= k => j \in page
  <2>1. /\ page \in SUBSET left /\ IsFiniteSet(page)
        /\ left # {} => page # {}
        /\ \A k \in page, j \in left : j <= k => j \in page
    BY <1>2, <1>4, PagesBegin
  <2> QED BY <1>4, <2>1
<1>7. /\ page # {} => NextMarker(page) \in page /\ \A k \in page : k <= NextMarker(page)
      /\ NextMarker(page) \in Nat
  <2>1. page # {} => NextMarker(page) \in page /\ \A k \in page : k <= NextMarker(page)
    BY <1>6, LastIsMarker
  <2>2. page = {} => NextMarker(page) = 0
    BY DEF NextMarker
  <2> QED BY <1>6, <2>1, <2>2
<1> HIDE DEF page
<1>8. /\ to \in [Keys -> 0..2]
      /\ \A k \in Keys : to[k] = IF k \in page THEN 1 ELSE call.listed[k]
  <2>1. ASSUME NEW k \in Keys, k \in page PROVE Min({2, call.listed[k] + 1}) = 1
    <3>1. k > call.nextMarker
      BY <1>5, <1>6, <2>1
    <3>2. call.listed[k] = 0
      BY <1>1, <1>2, <3>1 DEF ListOK
    <3>3. Min({2, 1}) = 1
      BY MinOfTwo
    <3> QED BY <3>2, <3>3
  <2>2. \A k \in Keys : to[k] = IF k \in page THEN 1 ELSE call.listed[k]
    BY <2>1
  <2>3. \A k \in Keys : to[k] \in 0..2
    BY <1>2, <2>2
  <2> QED BY <2>2, <2>3
<1> HIDE DEF to
<1>9. /\ call' \in ListCalls /\ call'.proc = "list" /\ call'.stable = call.stable
      /\ call'.nextMarker = NextMarker(page) /\ call'.listed = to
  BY <1>1, <1>3, <1>7, <1>8 DEF ListCalls
<1>10. \A k \in Keys : call'.listed[k] <= 1
  BY <1>1, <1>2, <1>8, <1>9 DEF ListOK
<1>11. ASSUME running', NEW k \in Keys
       PROVE  /\ call'.listed[k] = 1 => k <= call'.nextMarker
              /\ k \in call'.stable => bucket'[k] # None
              /\ k \in call'.stable /\ k <= call'.nextMarker => call'.listed[k] = 1
  <2>1. page # {} /\ NextMarker(page) \in page /\ NextMarker(page) \in left
    BY <1>3, <1>6, <1>7, <1>11
  <2>2. NextMarker(page) \in Nat /\ NextMarker(page) > call.nextMarker
    BY <1>4, <1>5, <1>7, <2>1
  <2>3. call'.listed[k] = 1 => k <= call'.nextMarker
    <3>1. CASE k \in page
      BY <1>7, <1>9, <2>1, <3>1
    <3>2. CASE k \notin page /\ call.listed[k] = 1
      <4>1. k <= call.nextMarker
        BY <1>1, <3>2 DEF ListOK
      <4> QED BY <1>2, <1>9, <2>2, <4>1
    <3> QED BY <1>8, <1>9, <3>1, <3>2
  <2>4. k \in call'.stable => bucket'[k] # None
    BY <1>1, <1>3, <1>9 DEF ListOK
  <2>5. ASSUME k \in call'.stable, k <= call'.nextMarker PROVE call'.listed[k] = 1
    <3>1. CASE k <= call.nextMarker
      <4>1. call.listed[k] = 1
        BY <1>1, <1>9, <2>5, <3>1 DEF ListOK
      <4> QED BY <1>8, <1>9, <4>1
    <3>2. CASE ~(k <= call.nextMarker)
      <4>1. k > call.nextMarker
        BY <1>2, <3>2
      <4>2. k \in left
        BY <1>1, <1>5, <1>9, <2>5, <4>1 DEF ListOK
      <4>3. k \in page
        BY <1>6, <1>9, <2>1, <2>5, <4>2
      <4> QED BY <1>8, <1>9, <4>3
    <3> QED BY <3>1, <3>2
  <2> QED BY <2>3, <2>4, <2>5
<1>12. ASSUME ~running', NEW k \in call'.stable PROVE call'.listed[k] = 1
  <2>1. page = left /\ k \in Keys /\ k \in call.stable
    BY <1>2, <1>3, <1>9, <1>12
  <2>2. CASE k <= call.nextMarker
    <3>1. call.listed[k] = 1
      BY <1>1, <2>1, <2>2 DEF ListOK
    <3> QED BY <1>8, <1>9, <2>1, <3>1
  <2>3. CASE ~(k <= call.nextMarker)
    <3>1. k > call.nextMarker
      BY <1>2, <2>1, <2>3
    <3>2. k \in page
      BY <1>1, <1>5, <2>1, <3>1 DEF ListOK
    <3> QED BY <1>8, <1>9, <2>1, <3>2
  <2> QED BY <2>2, <2>3
<1>13. ListOK'
  BY <1>10, <1>11, <1>12 DEF ListOK
<1>14. Stored' = Stored
  BY <1>3 DEF Stored
<1> QED BY <1>3, <1>9, <1>13, <1>14 DEF CallsInv, Calls

\* A listing while another machine changes an object.
LEMMA ListDisturbed ==
  ASSUME Inv, CallsInv, NEW k \in Keys, NEW object \in Contents \cup {None}, OthersChange(k, object)
  PROVE  CallsInv'
<1>1. UNCHANGED <<exists, running, statusG>> /\ bucket' = [bucket EXCEPT ![k] = object]
  BY DEF OthersChange
<1>2. bucket \in [Keys -> Contents \cup {None}]
  BY DEF Inv, Typed
<1>3. IsFiniteSet(Stored')
  BY <1>1, <1>2, StoredFinite DEF CallsInv
<1>4. bucket'[k] = object /\ \A j \in Keys : j # k => bucket'[j] = bucket[j]
  BY <1>1, <1>2
<1>5. CASE running /\ call.proc = "list" /\ object = None
  <2>1. call \in ListCalls /\ ListOK
    BY <1>5, KindOf DEF CallsInv
  <2>2. call' = [call EXCEPT !.stable = @ \ {k}]
    BY <1>5 DEF OthersChange
  <2>3. /\ call' \in ListCalls /\ call'.proc = "list" /\ call'.stable = call.stable \ {k}
        /\ call'.nextMarker = call.nextMarker /\ call'.listed = call.listed
    BY <2>1, <2>2 DEF ListCalls
  <2>4. ListOK'
    BY <1>1, <1>4, <1>5, <2>1, <2>3 DEF ListOK
  <2> QED BY <1>1, <1>3, <2>3, <2>4 DEF CallsInv, Calls
<1>6. CASE ~(running /\ call.proc = "list" /\ object = None)
  <2>1. call' = call
    BY <1>6 DEF OthersChange
  <2>2. ASSUME running \/ call # None, call.proc = "list" PROVE ListOK'
    <3>1. ListOK
      BY <2>2 DEF CallsInv
    <3>2. running => object # None
      BY <1>6, <2>2
    <3> QED BY <1>1, <1>4, <2>1, <3>1, <3>2 DEF ListOK
  <2> QED BY <1>1, <1>3, <2>1, <2>2 DEF CallsInv
<1> QED BY <1>5, <1>6

\* Every step keeps calls of their kinds, and listings complete.
LEMMA NextCalls == Inv /\ Inv' /\ CallsInv /\ [Next]_vars => CallsInv'
<1> SUFFICES ASSUME Inv, Inv', CallsInv, [Next]_vars PROVE CallsInv'
  OBVIOUS
<1>0. bucket \in [Keys -> Contents \cup {None}] /\ exists \in BOOLEAN /\ IsFiniteSet(Stored)
  BY DEF Inv, Typed, CallsInv
<1>1. ASSUME call' \in PutCalls \cup GetCalls \cup ServiceCalls, exists' = exists,
             bucket' = bucket \/ \E k, object : bucket' = [bucket EXCEPT ![k] = object]
      PROVE  CallsInv'
  <2>1. IsFiniteSet(Stored')
    BY <1>0, <1>1, StoredFinite
  <2>2. call' \in Calls /\ call'.proc # "list"
    BY <1>1 DEF Calls, PutCalls, GetCalls, ServiceCalls
  <2> QED BY <1>0, <1>1, <2>1, <2>2 DEF CallsInv
<1>2. ASSUME call' = None, ~running', exists' \in BOOLEAN,
             bucket' = bucket \/ \E k, object : bucket' = [bucket EXCEPT ![k] = object]
      PROVE  CallsInv'
  <2>1. IsFiniteSet(Stored')
    BY <1>0, <1>2, StoredFinite
  <2> QED BY <1>2, <2>1 DEF CallsInv
<1>3. ASSUME NEW k \in Keys, NEW data \in Contents, NEW size \in 0..MaxLen, PutBegins(k, data, size)
      PROVE  CallsInv'
  <2>1. running' /\ call'.proc = "put" /\ UNCHANGED <<exists, bucket>>
    BY <1>3 DEF PutBegins, Begins
  <2>2. call' \in PutCalls
    BY <2>1 DEF Inv, TransferInv, Runs, PutOK
  <2> QED BY <1>1, <2>1, <2>2
<1>4. ASSUME NEW k \in Keys, GetBegins(k) PROVE CallsInv'
  <2>1. running' /\ call'.proc = "get" /\ UNCHANGED <<exists, bucket>>
    BY <1>4 DEF GetBegins, Begins
  <2>2. call' \in GetCalls
    BY <2>1 DEF Inv, TransferInv, Runs, GetOK
  <2> QED BY <1>1, <2>1, <2>2
<1>5. CASE ServiceBegins
  <2>1. call' \in ServiceCalls /\ UNCHANGED <<exists, bucket>>
    BY <1>5 DEF ServiceBegins, Begins, ServiceCalls
  <2> QED BY <1>1, <2>1
<1>6. CASE ServiceCompletes
  <2>1. call \in ServiceCalls
    BY <1>6, KindOf DEF ServiceCompletes, Runs, CallsInv
  <2>2. call' \in ServiceCalls /\ UNCHANGED <<exists, bucket>>
    BY <1>0, <1>6, <2>1 DEF ServiceCompletes, ServiceCalls
  <2> QED BY <1>1, <2>2
<1>7. ASSUME NEW k \in Keys, NEW status \in {"OK", "Error"}, Delete(k, status) PROVE CallsInv'
  <2>1. call' = None /\ ~running' /\ exists' = exists
    BY <1>7 DEF Delete
  <2>2. bucket' = bucket \/ bucket' = [bucket EXCEPT ![k] = None]
    BY <1>7 DEF Delete
  <2> QED BY <1>0, <1>2, <2>1, <2>2
<1>8. ASSUME NEW status \in {"OK", "Error"}, CreateBucket(status) \/ DeleteBucket(status)
      PROVE  CallsInv'
  <2>1. call' = None /\ ~running /\ running' = running /\ bucket' = bucket
    BY <1>8 DEF CreateBucket, DeleteBucket
  <2>2. exists' \in {exists, TRUE} \/ exists' \in {exists, FALSE}
    BY <1>8, Zenon DEF CreateBucket, DeleteBucket
  <2>3. exists' \in BOOLEAN
    BY <1>0, <2>2, Zenon
  <2> QED BY <1>2, <2>1, <2>3
<1>9. ASSUME NEW bufferSize \in 1..BufferSize, PutSends(bufferSize) PROVE CallsInv'
  <2>1. running' /\ UNCHANGED <<exists, bucket>>
    BY <1>9 DEF PutSends, Runs
  <2>2. PutOK(call) /\ call \in PutCalls /\ bufferSize \in Nat
    BY <1>9, CloudApiAssumption DEF PutSends, Inv, TransferInv, PutOK, Runs
  <2>3. call' \in PutCalls
    BY <1>9, <2>2, SendsInOrder DEF PutOK
  <2> QED BY <1>1, <2>1, <2>3
<1>10. ASSUME NEW status \in {"OK", "Error"}, PutCompletes(status) PROVE CallsInv'
  <2>1. PutOK(call) /\ call' = call /\ bucket' = [bucket EXCEPT ![call.key] = call.sent]
    BY <1>10, PutWhole
  <2>2. call' \in PutCalls /\ exists' = exists
    BY <1>10, <2>1 DEF PutOK, PutCompletes
  <2> QED BY <1>1, <2>1, <2>2
<1>11. CASE GetCompletes \/ \E bufferSize \in 1..BufferSize : GetReceives(bufferSize)
  <2>1. GetOK(call') /\ UNCHANGED <<exists, bucket>>
    BY <1>11, GetsInOrder DEF GetCompletes, GetReceives
  <2> QED BY <1>1, <2>1 DEF GetOK
<1>12. CASE ListBegins
  BY <1>12, ListStarts
<1>13. ASSUME NEW n \in 1..PageSize, ListPage(n) PROVE CallsInv'
  BY <1>13, ListGoesOn
<1>14. ASSUME NEW k \in Keys, NEW object \in Contents \cup {None}, OthersChange(k, object)
       PROVE  CallsInv'
  BY <1>14, ListDisturbed
<1>15. CASE Fails
  <2>1. call' = call /\ running /\ ~running' /\ statusG' = "Error" /\ UNCHANGED <<exists, bucket>>
    BY <1>15 DEF Fails, Completes
  <2>2. Stored' = Stored
    BY <2>1 DEF Stored
  <2>3. call.proc = "list" => ListOK'
    BY <2>1 DEF CallsInv, ListOK
  <2> QED BY <2>1, <2>2, <2>3 DEF CallsInv
<1>16. CASE UNCHANGED vars
  BY <1>16 DEF vars, CallsInv, Stored, ListOK
<1> QED BY <1>3, <1>4, <1>5, <1>6, <1>7, <1>8, <1>9, <1>10, <1>11, <1>12, <1>13, <1>14, <1>15, <1>16
        DEF Next

(***************************************************************************)
(* Theorems.                                                                *)
(***************************************************************************)
\* The invariant holds in every state.
LEMMA Invariant == Spec => []Inv
BY InitInv, NextInv, PTL DEF Spec

\* The same of the calls.
LEMMA CallsInvariant == Spec => []CallsInv
<1>1. Init => CallsInv
  <2> SUFFICES ASSUME Init PROVE CallsInv
    OBVIOUS
  <2>1. Stored = {}
    BY DEF Init, Stored
  <2> QED BY <2>1, FS_EmptySet DEF Init, CallsInv
<1> QED BY <1>1, NextCalls, Invariant, PTL DEF Spec

\* Types: whatever is called, and whatever libs3 and other machines do meanwhile,
\* calls and objects stay well formed.
THEOREM TypeCorrect == Spec => []TypeOK
<1>1. Inv /\ CallsInv => TypeOK
  BY DEF Inv, Typed, CallsInv, Calls, TypeOK
<1> QED BY <1>1, Invariant, CallsInvariant, PTL

\* A listing names no key twice and, if it ends well, every key that was there all
\* the time (listBucketCallback, cloud_list_bucket), for any keys and pages.
THEOREM ListingsExact == Spec => []ListsExactly
<1>1. CallsInv => ListsExactly
  BY DEF CallsInv, ListOK, ListsExactly
<1> QED BY <1>1, CallsInvariant, PTL

\* A get that reports success has the whole object in its file, unless fclose
\* lost some, and otherwise a beginning of it (getObjectDataCallback,
\* s3_cloudfs_get), for buffers of any size.
THEOREM GetsAreWhole == Spec => []GetsWhole
<1>1. Inv => GetsWhole
  <2> SUFFICES ASSUME Inv, call # None, call.proc = "get", ~running
               PROVE  /\ statusG = "OK" => call.object # None
                      /\ statusG = "OK" /\ ~call.full => call.file = call.object
                      /\ IF call.object = None THEN call.file = <<>> ELSE IsPrefix(call.file, call.object)
    BY DEF GetsWhole
  <2>1. /\ GetOK(call)
        /\ statusG = "OK" => call.object # None /\ (call.full \/ call.file = call.object)
    BY DEF Inv, TransferInv
  <2>2. call.object # None => IsPrefix(call.file, call.object)
    <3>1. call.file \in Seq(Data) /\ (call.object # None => call.object \in Seq(Data))
      BY <2>1, ContentsAre DEF GetOK, GetCalls
    <3> QED BY <2>1, <3>1, BeginningIsPrefix DEF GetOK
  <2> QED BY <2>1, <2>2 DEF GetOK
<1> QED BY <1>1, Invariant, PTL

\* This process only ever puts into the bucket what it announced: as many bytes,
\* from the start of the file, in order (putObjectDataCallback), whatever the
\* size of the buffers and of the file.
THEOREM PutsAreWhole == Spec => PutsWhole
<1>1. Inv /\ [Next]_vars =>
        [changes' = changes =>
           \A k \in Keys : bucket'[k] \notin {bucket[k], None} =>
             /\ Len(bucket'[k]) = call.contentLength
             /\ IsPrefix(bucket'[k], call.file)]_vars
  <2> SUFFICES ASSUME Inv, Next, changes' = changes,
                      NEW k \in Keys, bucket'[k] \notin {bucket[k], None}
               PROVE  /\ Len(bucket'[k]) = call.contentLength
                      /\ IsPrefix(bucket'[k], call.file)
    OBVIOUS
  <2>1. bucket \in [Keys -> Contents \cup {None}] /\ changes \in Nat
    BY DEF Inv, Typed
  <2>2. \A j \in Keys, object \in Contents \cup {None} : ~OthersChange(j, object)
    BY <2>1 DEF OthersChange
  <2>3. \A j \in Keys, status \in {"OK", "Error"} : ~Delete(j, status)
    BY <2>1 DEF Delete
  <2>4. bucket' # bucket
    OBVIOUS
  <2>5. PICK status \in {"OK", "Error"} : PutCompletes(status)
    BY <2>2, <2>3, <2>4
    DEF Next, PutBegins, GetBegins, ListBegins, ServiceBegins, Begins, PutSends, GetReceives,
        GetCompletes, ServiceCompletes, CreateBucket, DeleteBucket, ListPage, Fails
  <2>6. /\ bucket' = [bucket EXCEPT ![call.key] = call.sent]
        /\ Len(call.sent) = call.contentLength /\ IsPrefix(call.sent, call.file)
    BY <2>5, PutWhole
  <2>7. bucket'[k] = call.sent
    BY <2>1, <2>6
  <2> QED BY <2>6, <2>7
<1> QED BY <1>1, Invariant, PTL DEF Spec, PutsWhole
=============================================================================
