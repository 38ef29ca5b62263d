--------------------------- MODULE S3ClientProofs ---------------------------
(***************************************************************************)
(* The commands of the s3 tool implement an object store, for any keys,     *)
(* inputs and bounds: what a put has handed to libs3 in a request is always *)
(* the bytes of its input just before the place it has read up to, so a     *)
(* request made again can only be answered if the failed one sent nothing.  *)
(* What a get has received in a request is always just before the position  *)
(* of its stream, and the file is the old one behind it. What a listing has *)
(* printed, with what is still to come, is every key once.                  *)
(***************************************************************************)
EXTENDS S3Client, SequenceTheorems, FiniteSetTheorems, TLAPS

Fields == {"proc", "served", "done"}

DeleteCommands == [proc : {"delete"}, key : Keys, served : BOOLEAN, done : BOOLEAN]

CopyCommands ==
  [proc : {"copy"}, from : Keys, key : Keys, properties : Properties \cup {None},
   served : BOOLEAN, done : BOOLEAN]

\* The account that a put keeps of its input, whatever requests were made.
SentInOrder(c) ==
  /\ c.contentLength = c.originalContentLength - c.at
  /\ c.at <= Len(c.input)
  /\ Len(c.sent) <= c.at
  /\ c.sent = SubSeq(c.input, c.at - Len(c.sent) + 1, c.at)

\* What has to be known of a command: a put in full, the others as far as they
\* change objects.
CommandOK(c) ==
  /\ Fields \subseteq DOMAIN c
  /\ c.served \in BOOLEAN /\ c.done \in BOOLEAN
  /\ c.served => c.done
  /\ c.proc = "put" => c \in PutCommands /\ SentInOrder(c)
  /\ c.proc = "delete" => c \in DeleteCommands
  /\ c.proc = "copy" => c \in CopyCommands
  /\ c.proc = "list" => "page" \in DOMAIN c /\ (c.page # {} => c.done)

StoreInv ==
  /\ bucket \in [Keys -> Objects \cup {None}]
  /\ running \in BOOLEAN
  /\ commands \in Nat
  /\ running => commands > 0
  /\ commands > 0 => CommandOK(cmd)

\* A request that goes on with what was not sent yet hands over the bytes that
\* follow (putObjectDataCallback).
LEMMA NextBytes ==
  ASSUME NEW input \in Seq(Bytes), NEW at \in Nat, NEW m \in Nat, NEW n \in Nat,
         m <= at, at + n <= Len(input)
  PROVE  /\ SubSeq(input, at - m + 1, at) \o SubSeq(input, at + 1, at + n)
              = SubSeq(input, at + n - (m + n) + 1, at + n)
         /\ SubSeq(input, at + 1, at + n) \in Seq(Bytes)
         /\ Len(SubSeq(input, at + 1, at + n)) = n
<1>1. Len(input) \in Nat /\ \A i \in 1..Len(input) : input[i] \in Bytes
  BY LenProperties
<1>2. at - m + 1 \in 1..(Len(input) + 1) /\ at \in (at - m + 1 - 1)..Len(input) /\ at + n \in at..Len(input)
  BY <1>1
<1>3. SubSeq(input, at - m + 1, at) \o SubSeq(input, at + 1, at + n) = SubSeq(input, at - m + 1, at + n)
  BY <1>2, ConcatAdjacentSubSeq
<1>4. at + n - (m + n) + 1 = at - m + 1
  OBVIOUS
<1>5. \A i \in (at + 1)..(at + n) : input[i] \in Bytes
  BY <1>1
<1>6. /\ SubSeq(input, at + 1, at + n) \in Seq(Bytes)
      /\ Len(SubSeq(input, at + 1, at + n)) = IF at + 1 <= at + n THEN at + n - (at + 1) + 1 ELSE 0
  BY <1>5, SubSeqProperties
<1> QED BY <1>3, <1>4, <1>6

\* What a put announces of its input is contents an object can have.
LEMMA AnnouncedIsContents ==
  ASSUME NEW c \in PutCommands
  PROVE  Announced(c) \in Contents
<1>1. c.input \in Files /\ c.input \in Seq(Bytes) /\ Len(c.input) \in Nat
  BY S3ClientAssumption, LenProperties DEF PutCommands
<1>2. c.originalContentLength \in Nat
  BY DEF PutCommands
<1>3. PICK n \in 0..Len(c.input) : Announced(c) = SubSeq(c.input, 1, n)
  BY <1>1, <1>2 DEF Announced
<1> QED BY <1>1, <1>3 DEF Contents

\* The server only answers a put that sent what it announced, from the start.
LEMMA ServedAsAnnounced ==
  ASSUME NEW c \in PutCommands, SentInOrder(c), Len(c.sent) = c.originalContentLength
  PROVE  c.sent = Announced(c)
<1>1. /\ c.originalContentLength \in Nat /\ c.contentLength \in Nat /\ c.at \in Nat
      /\ c.input \in Seq(Bytes) /\ Len(c.input) \in Nat
  BY S3ClientAssumption, LenProperties DEF PutCommands
<1>2. c.at = c.originalContentLength
  BY <1>1 DEF SentInOrder
<1>3. c.at - Len(c.sent) + 1 = 1 /\ c.originalContentLength <= Len(c.input)
  BY <1>1, <1>2 DEF SentInOrder
<1>4. c.sent = SubSeq(c.input, 1, c.originalContentLength)
  BY <1>2, <1>3 DEF SentInOrder
<1>5. c.originalContentLength = IF c.originalContentLength < Len(c.input)
                                THEN c.originalContentLength ELSE Len(c.input)
  BY <1>1, <1>3
<1> QED BY <1>4, <1>5 DEF Announced

(***************************************************************************)
(* How a command looks to the store while it runs.                          *)
(***************************************************************************)
IntentOf(c) ==
  CASE c.proc = "put" ->
         [kind |-> "put", key |-> c.key,
          object |-> [data |-> Announced(c), properties |-> c.properties]]
    [] c.proc = "delete" -> [kind |-> "delete", key |-> c.key]
    [] c.proc = "copy" -> [kind |-> "copy", from |-> c.from, key |-> c.key,
                           properties |-> c.properties]
    [] OTHER -> [kind |-> "look"]

\* While a command runs, what it is to do is told by its fields.
LEMMA IntentWhileRunning ==
  ASSUME running \in BOOLEAN
  PROVE  Intent = IF running THEN IntentOf(cmd) ELSE None
BY DEF Intent, IntentOf, Runs

\* What a well-formed command is to do is something the abstract store knows.
LEMMA IntentsOfCommands ==
  ASSUME NEW c, CommandOK(c)
  PROVE  IntentOf(c) \in Store!Intents /\ IntentOf(c) # None
<1>1. CASE c.proc = "put"
  <2>1. c.key \in Keys /\ c.properties \in Properties /\ Announced(c) \in Contents
    BY <1>1, AnnouncedIsContents DEF CommandOK, PutCommands
  <2> QED BY <1>1, <2>1, IntentAssumption DEF IntentOf, Store!Intents, Store!Objects
<1>2. CASE c.proc = "delete"
  BY <1>2, IntentAssumption DEF CommandOK, DeleteCommands, IntentOf, Store!Intents
<1>3. CASE c.proc = "copy"
  BY <1>3, IntentAssumption DEF CommandOK, CopyCommands, IntentOf, Store!Intents
<1>4. CASE c.proc \notin {"put", "delete", "copy"}
  BY <1>4, IntentAssumption DEF IntentOf, Store!Intents
<1> QED BY <1>1, <1>2, <1>3, <1>4

\* A step in which a command goes on as c.
Stays(c) == running /\ running' /\ commands' = commands /\ cmd' = c

\* A step that goes on with a well-formed command keeps the invariant.
LEMMA StaysWell ==
  ASSUME NEW c, StoreInv, Stays(c), CommandOK(c), bucket' \in [Keys -> Objects \cup {None}]
  PROVE  StoreInv' /\ Intent = IntentOf(cmd) /\ Intent' = IntentOf(c)
<1>1. StoreInv'
  BY DEF StoreInv, Stays
<1>2. Intent' = IntentOf(cmd')
  BY <1>1 DEF StoreInv, Stays, Intent, IntentOf, Runs
<1> QED BY <1>1, <1>2, IntentWhileRunning DEF StoreInv, Stays

\* A step that the store does not see.
LEMMA InvisibleStep ==
  ASSUME NEW c, StoreInv, Stays(c), CommandOK(c), UNCHANGED <<bucket, changes>>,
         c.done = cmd.done, IntentOf(c) = IntentOf(cmd)
  PROVE  StoreInv' /\ UNCHANGED Store!storeVars
<1>1. StoreInv' /\ Intent' = Intent
  BY StaysWell DEF StoreInv
<1> QED BY <1>1 DEF StoreInv, Stays, Store!storeVars

\* A step of a command that only looks.
LEMMA LookStep ==
  ASSUME NEW c, StoreInv, Stays(c), CommandOK(c), UNCHANGED <<bucket, changes>>,
         cmd.done => c.done, c.proc = cmd.proc, c.proc \notin {"put", "delete", "copy"}
  PROVE  StoreInv' /\ [Store!StoreNext]_(Store!storeVars)
<1>1. StoreInv' /\ Intent = IntentOf(cmd) /\ Intent' = IntentOf(c)
  BY StaysWell DEF StoreInv
<1>2. Intent = [kind |-> "look"] /\ Intent' = Intent /\ Intent # None
  BY <1>1, IntentsOfCommands DEF IntentOf
<1>3. CASE c.done
  BY <1>1, <1>2, <1>3 DEF StoreInv, Stays, Store!StoreNext, Store!Effect, Store!Look
<1>4. CASE ~c.done
  BY <1>1, <1>2, <1>4 DEF StoreInv, Stays, CommandOK, Store!storeVars
<1> QED BY <1>3, <1>4 DEF CommandOK

\* A command starts.
LEMMA StartStep ==
  ASSUME NEW c, StoreInv, Starts(c), CommandOK(c), ~c.done, UNCHANGED <<bucket, changes>>
  PROVE  StoreInv' /\ Store!Begin
<1>1. StoreInv'
  BY DEF StoreInv, Starts
<1>2. Intent = None
  BY IntentWhileRunning DEF StoreInv, Starts
<1>3. Intent' = IntentOf(c)
  BY DEF Starts, Intent, IntentOf, Runs
<1> QED BY <1>1, <1>2, <1>3, IntentsOfCommands DEF StoreInv, Starts, Store!Begin

\* A command ends.
LEMMA EndStep ==
  ASSUME NEW c, NEW status, StoreInv, running, Ends(status, c), CommandOK(c), UNCHANGED <<bucket, changes>>,
         c.done = cmd.done, status = "OK" => c.done
  PROVE  StoreInv' /\ Store!Finish
<1>1. StoreInv'
  BY DEF StoreInv, Ends
<1>2. Intent # None
  BY IntentWhileRunning, IntentsOfCommands DEF StoreInv
<1>3. Intent' = None
  BY DEF Ends, Intent, Runs
<1> QED BY <1>1, <1>2, <1>3 DEF StoreInv, Ends, CommandOK, Store!Finish

(***************************************************************************)
(* Every step is one of the store's or leaves it alone.                     *)
(***************************************************************************)
StoreStep == StoreInv' /\ [Store!StoreNext]_(Store!storeVars)

\* The start of any command (main, and put_object to list_service up to their
\* first request) is a step of the store.
LEMMA BeginsStep ==
  ASSUME StoreInv, Begins
  PROVE  StoreStep
<1> USE DEF StoreStep, Store!StoreNext, Fields, CommandOK, clientVars
<1>1. ASSUME NEW key \in Keys, NEW properties \in Properties, NEW input \in Files,
             NEW given \in 0..(Len(input) + 1), PutBegins(key, properties, input, given)
      PROVE  StoreStep
  <2> DEFINE length == PutLength(input, given)
             c == [proc |-> "put", key |-> key, properties |-> properties, input |-> input,
                   originalContentLength |-> length, contentLength |-> length, at |-> 0,
                   sent |-> <<>>, served |-> FALSE, done |-> FALSE]
  <2>1. input \in Seq(Bytes) /\ Len(input) \in Nat /\ length \in Nat
    BY S3ClientAssumption, LenProperties DEF PutLength
  <2>2. c \in PutCommands
    BY <2>1 DEF PutCommands
  <2>3. SubSeq(input, 0 - Len(<<>>) + 1, 0) = <<>> /\ Len(<<>>) = 0
    BY SubSeqEmpty
  <2>4. SentInOrder(c)
    BY <2>1, <2>3 DEF SentInOrder
  <2>5. Starts(c) /\ UNCHANGED <<bucket, changes>>
    BY <1>1 DEF PutBegins
  <2> HIDE DEF length
  <2> QED BY <2>2, <2>4, <2>5, StartStep
<1>2. ASSUME NEW key \in Keys, NEW startByte, NEW byteCount, GetBegins(key, startByte, byteCount)
      PROVE  StoreStep
  BY <1>2, StartStep DEF GetBegins
<1>3. ASSUME NEW key \in Keys, DeleteBegins(key)
      PROVE  StoreStep
  BY <1>3, StartStep DEF DeleteBegins, DeleteCommands
<1>4. ASSUME NEW from \in Keys, NEW key \in Keys, NEW properties \in Properties \cup {None},
             CopyBegins(from, key, properties)
      PROVE  StoreStep
  BY <1>4, StartStep DEF CopyBegins, CopyCommands
<1>5. ASSUME NEW key \in Keys, HeadBegins(key)
      PROVE  StoreStep
  BY <1>5, StartStep DEF HeadBegins
<1>6. CASE TestBegins \/ CreateBegins \/ RemoveBegins
  BY <1>6, StartStep DEF TestBegins, CreateBegins, RemoveBegins
<1>7. ASSUME NEW maxkeys, NEW marker, ListBegins(maxkeys, marker)
      PROVE  StoreStep
  BY <1>7, StartStep DEF ListBegins
<1>8. CASE ServiceBegins
  BY <1>8, StartStep DEF ServiceBegins
<1> QED BY <1>1, <1>2, <1>3, <1>4, <1>5, <1>6, <1>7, <1>8 DEF Begins

\* putObjectDataCallback.
LEMMA PutSendsStep ==
  ASSUME StoreInv, NEW n \in 1..BufferSize, PutSends(n)
  PROVE  StoreStep
<1> DEFINE sent == cmd.sent \o Read(n)
           c == [cmd EXCEPT !.contentLength = @ - n, !.at = @ + n, !.sent = sent]
<1>1. running /\ cmd.proc = "put" /\ cmd \in PutCommands /\ SentInOrder(cmd) /\ CommandOK(cmd)
  BY DEF StoreInv, CommandOK, PutSends, Runs
<1>2. /\ n \in Nat /\ cmd.at \in Nat /\ cmd.contentLength \in Nat /\ cmd.originalContentLength \in Nat
      /\ cmd.input \in Seq(Bytes) /\ Len(cmd.input) \in Nat
      /\ cmd.sent \in Seq(Bytes) /\ Len(cmd.sent) \in Nat
  BY <1>1, S3ClientAssumption, LenProperties DEF PutCommands
<1>3. n <= cmd.contentLength /\ cmd.at + n <= Len(cmd.input) /\ Len(cmd.sent) <= cmd.at
  BY <1>1, <1>2 DEF PutSends, SentInOrder
<1>4. /\ Read(n) \in Seq(Bytes) /\ Len(Read(n)) = n
      /\ sent = SubSeq(cmd.input, cmd.at + n - (Len(cmd.sent) + n) + 1, cmd.at + n)
  <2> DEFINE input == cmd.input
             at == cmd.at
             m == Len(cmd.sent)
  <2>1. cmd.sent = SubSeq(input, at - m + 1, at)
    BY <1>1 DEF SentInOrder
  <2>2. Read(n) = SubSeq(input, at + 1, at + n)
    BY DEF Read
  <2>3. input \in Seq(Bytes) /\ at \in Nat /\ m \in Nat /\ n \in Nat /\ m <= at /\ at + n <= Len(input)
    BY <1>2, <1>3
  <2> HIDE DEF input, at, m
  <2>4. /\ SubSeq(input, at - m + 1, at) \o SubSeq(input, at + 1, at + n)
              = SubSeq(input, at + n - (m + n) + 1, at + n)
        /\ SubSeq(input, at + 1, at + n) \in Seq(Bytes)
        /\ Len(SubSeq(input, at + 1, at + n)) = n
    BY <2>3, NextBytes
  <2>5. sent = SubSeq(input, at + n - (m + n) + 1, at + n)
    BY <2>1, <2>2, <2>4 DEF sent
  <2> QED BY <2>2, <2>4, <2>5 DEF input, at, m
<1>6. sent \in Seq(Bytes) /\ Len(sent) = Len(cmd.sent) + n
  <2>1. /\ cmd.sent \o Read(n) \in Seq(Bytes)
        /\ Len(cmd.sent \o Read(n)) = Len(cmd.sent) + Len(Read(n))
    <3> HIDE DEF sent
    <3>1. cmd.sent \in Seq(Bytes) /\ Read(n) \in Seq(Bytes)
      BY <1>2, <1>4
    <3> QED BY <3>1, ConcatProperties
  <2> QED BY <2>1, <1>4
<1>7. Stays(c) /\ UNCHANGED <<bucket, changes>>
  BY <1>1 DEF PutSends, Continues, Stays, clientVars
<1> HIDE DEF sent
<1>8. /\ c \in PutCommands
      /\ c.input = cmd.input /\ c.at = cmd.at + n /\ c.contentLength = cmd.contentLength - n
      /\ c.originalContentLength = cmd.originalContentLength /\ c.sent = sent
      /\ c.proc = cmd.proc /\ c.key = cmd.key /\ c.properties = cmd.properties
      /\ c.served = cmd.served /\ c.done = cmd.done
  <2>1. cmd.contentLength - n \in Nat /\ cmd.at + n \in Nat
    BY <1>2, <1>3
  <2> DEFINE left == cmd.contentLength - n
             next == cmd.at + n
  <2> HIDE DEF left, next
  <2>2. c = [cmd EXCEPT !.contentLength = left, !.at = next, !.sent = sent]
    BY DEF c, left, next
  <2>3. left \in Nat /\ next \in Nat /\ sent \in Seq(Bytes)
    BY <2>1, <1>6 DEF left, next
  <2>4. c \in PutCommands
    BY <1>1, <2>2, <2>3 DEF PutCommands
  <2>5. /\ c.input = cmd.input /\ c.at = next /\ c.contentLength = left /\ c.sent = sent
        /\ c.originalContentLength = cmd.originalContentLength
        /\ c.proc = cmd.proc /\ c.key = cmd.key /\ c.properties = cmd.properties
        /\ c.served = cmd.served /\ c.done = cmd.done
    BY <1>1, <2>2 DEF PutCommands
  <2> QED BY <2>4, <2>5 DEF left, next
<1> HIDE DEF c
<1>9. SentInOrder(c)
  <2>1. c.contentLength = c.originalContentLength - c.at
    BY <1>1, <1>2, <1>8 DEF SentInOrder
  <2>2. c.at <= Len(c.input) /\ Len(c.sent) = Len(cmd.sent) + n /\ Len(c.sent) <= c.at
    BY <1>2, <1>3, <1>6, <1>8
  <2>3. c.sent = SubSeq(c.input, c.at - Len(c.sent) + 1, c.at)
    <3>1. c.at = cmd.at + n /\ c.input = cmd.input /\ c.sent = sent
      BY <1>8
    <3>2. c.at - Len(c.sent) + 1 = cmd.at + n - (Len(cmd.sent) + n) + 1
      BY <1>2, <2>2, <3>1
    <3> QED BY <1>4, <3>1, <3>2
  <2> QED BY <2>1, <2>2, <2>3 DEF SentInOrder
<1>10. CommandOK(c)
  BY <1>1, <1>8, <1>9 DEF CommandOK, PutCommands, Fields
<1>11. IntentOf(c) = IntentOf(cmd)
  BY <1>1, <1>8 DEF IntentOf, Announced
<1> QED BY <1>7, <1>8, <1>10, <1>11, InvisibleStep DEF StoreStep

\* The server carries out what changes objects.
LEMMA ServesStep ==
  ASSUME StoreInv, PutServes \/ DeleteServes \/ CopyServes
  PROVE  StoreStep
<1> DEFINE c == Answered(cmd)
<1>1. running /\ CommandOK(cmd) /\ Stays(c)
  BY DEF StoreInv, PutServes, DeleteServes, CopyServes, Serving, Runs, Continues, Stays
<1>2. cmd.proc \in {"put", "delete", "copy"}
  BY DEF PutServes, DeleteServes, CopyServes, Serving, Runs
<1>3. c.done /\ CommandOK(c) /\ IntentOf(c) = IntentOf(cmd)
  <2>1. CASE cmd.proc = "put"
    <3>1. c \in PutCommands /\ c.served /\ c.done /\ c.proc = "put"
      BY <1>1, <2>1 DEF Answered, CommandOK, PutCommands
    <3>2. /\ c.input = cmd.input /\ c.at = cmd.at /\ c.contentLength = cmd.contentLength /\ c.sent = cmd.sent
          /\ c.originalContentLength = cmd.originalContentLength
          /\ c.key = cmd.key /\ c.properties = cmd.properties
      BY <1>1, <2>1 DEF Answered, CommandOK, PutCommands
    <3> HIDE DEF c
    <3>3. SentInOrder(c)
      BY <1>1, <2>1, <3>2 DEF CommandOK, SentInOrder
    <3>4. Fields \subseteq DOMAIN c
      BY <3>1 DEF PutCommands, Fields
    <3> QED BY <2>1, <3>1, <3>2, <3>3, <3>4 DEF CommandOK, IntentOf, Announced
  <2>2. CASE cmd.proc = "delete"
    BY <1>1, <2>2 DEF Answered, CommandOK, DeleteCommands, IntentOf, Fields
  <2>3. CASE cmd.proc = "copy"
    BY <1>1, <2>3 DEF Answered, CommandOK, CopyCommands, IntentOf, Fields
  <2> QED BY <1>2, <2>1, <2>2, <2>3
<1> HIDE DEF c
<1>4. bucket' \in [Keys -> Objects \cup {None}] /\ (Intent = IntentOf(cmd) => Store!Put \/ Store!Delete \/ Store!Copy)
  <2> DEFINE i == IntentOf(cmd)
  <2>1. CASE PutServes
    <3>1. cmd \in PutCommands /\ cmd.proc = "put" /\ cmd.sent = Announced(cmd) /\ Announced(cmd) \in Contents
      BY <1>1, <2>1, ServedAsAnnounced, AnnouncedIsContents DEF PutServes, Serving, Runs, CommandOK
    <3> DEFINE o == [data |-> cmd.sent, properties |-> cmd.properties]
    <3>2. o \in Objects /\ cmd.key \in Keys
      BY <3>1 DEF PutCommands, Objects
    <3>3. bucket' = [bucket EXCEPT ![cmd.key] = o]
      BY <2>1 DEF PutServes
    <3>4. i.kind = "put" /\ i.key = cmd.key /\ i.object = o
      BY <3>1 DEF IntentOf
    <3> HIDE DEF i, o
    <3>5. bucket' \in [Keys -> Objects \cup {None}]
      BY <3>2, <3>3 DEF StoreInv
    <3>6. Intent = i => Store!Put
      BY <3>3, <3>4 DEF Store!Put
    <3> QED BY <3>5, <3>6 DEF i
  <2>2. CASE DeleteServes
    <3>1. cmd \in DeleteCommands /\ cmd.proc = "delete"
      BY <1>1, <2>2 DEF DeleteServes, Serving, Runs, CommandOK
    <3>2. bucket' = [bucket EXCEPT ![cmd.key] = None] /\ cmd.key \in Keys
      BY <2>2, <3>1 DEF DeleteServes, DeleteCommands
    <3>3. i.kind = "delete" /\ i.key = cmd.key
      BY <3>1 DEF IntentOf
    <3> HIDE DEF i
    <3>4. bucket' \in [Keys -> Objects \cup {None}]
      BY <3>2 DEF StoreInv
    <3>5. Intent = i => Store!Delete
      BY <3>2, <3>3 DEF Store!Delete
    <3> QED BY <3>4, <3>5 DEF i
  <2>3. CASE CopyServes
    <3>1. cmd \in CopyCommands /\ cmd.proc = "copy"
      BY <1>1, <2>3 DEF CopyServes, Serving, Runs, CommandOK
    <3>2. cmd.key \in Keys /\ bucket[cmd.from] \in Objects /\ bucket[cmd.from] # None
      BY <2>3, <3>1 DEF CopyServes, CopyCommands, StoreInv
    <3> DEFINE o == Store!Copied(bucket[cmd.from], cmd.properties)
    <3>3. o \in Objects
      BY <3>1, <3>2 DEF Store!Copied, Objects, CopyCommands
    <3>4. bucket' = [bucket EXCEPT ![cmd.key] = o]
      BY <2>3 DEF CopyServes, Store!Copied
    <3>5. i.kind = "copy" /\ i.from = cmd.from /\ i.key = cmd.key /\ i.properties = cmd.properties
      BY <3>1 DEF IntentOf
    <3>6. Intent = i => o = Store!Copied(bucket[Intent.from], Intent.properties)
      BY <3>5
    <3> HIDE DEF i, o
    <3>7. bucket' \in [Keys -> Objects \cup {None}]
      BY <3>2, <3>3, <3>4 DEF StoreInv
    <3>8. Intent = i => Store!Copy
      BY <3>2, <3>4, <3>5, <3>6 DEF Store!Copy
    <3> QED BY <3>7, <3>8 DEF i
  <2> QED BY <2>1, <2>2, <2>3
<1>5. StoreInv' /\ Intent = IntentOf(cmd) /\ Intent' = IntentOf(c)
  BY <1>1, <1>3, <1>4, StaysWell
<1>6. Intent # None
  BY <1>1, <1>5, IntentsOfCommands
<1>7. changes' = changes
  BY DEF PutServes, DeleteServes, CopyServes
<1>8. Store!Effect
  BY <1>1, <1>3, <1>4, <1>5, <1>6, <1>7 DEF Store!Effect, Stays, StoreInv
<1> QED BY <1>5, <1>8 DEF StoreStep, Store!StoreNext

\* The requests that look at objects, buckets and listings.
LEMMA LooksStep ==
  ASSUME StoreInv,
         \/ GetServes \/ HeadServes \/ TestServes \/ CreateServes \/ RemoveServes
         \/ ListServes \/ (\E n \in 1..PageSize : ListCallback(n)) \/ ListNextPage
         \/ ServiceServes
  PROVE  StoreStep
<1>1. running /\ running' /\ CommandOK(cmd) /\ UNCHANGED <<bucket, commands, changes>>
  BY DEF StoreInv, GetServes, HeadServes, TestServes, CreateServes, RemoveServes, ListServes,
         ListCallback, ListNextPage, ServiceServes, Continues, Serving, Runs, clientVars
<1>2. CASE GetServes
  <2> DEFINE c == LET body == Part(bucket[cmd.key].data, cmd.startByte, cmd.byteCount)
                  IN  [cmd EXCEPT !.body = body, !.served = (body = <<>>), !.done = @ \/ body = <<>>]
  <2>1. Stays(c) /\ cmd.proc \notin {"put", "delete", "copy"}
    BY <1>1, <1>2 DEF GetServes, Serving, Runs, Continues, Stays
  <2>2. CommandOK(c) /\ c.proc = cmd.proc /\ (cmd.done => c.done)
    BY <1>1, <1>2 DEF GetServes, Serving, Runs, Answered, CommandOK, Fields
  <2> HIDE DEF c
  <2> QED BY <1>1, <2>1, <2>2, LookStep DEF StoreStep
<1>3. CASE HeadServes \/ TestServes \/ CreateServes \/ RemoveServes
  <2> DEFINE c == Answered(cmd)
  <2>1. Stays(c) /\ cmd.proc \notin {"put", "delete", "copy"}
    BY <1>1, <1>3 DEF HeadServes, TestServes, CreateServes, RemoveServes, Serving, Runs, Continues, Stays
  <2>2. CommandOK(c) /\ c.proc = cmd.proc /\ (cmd.done => c.done)
    BY <1>1, <1>3 DEF HeadServes, TestServes, CreateServes, RemoveServes, Serving, Runs, Answered, CommandOK, Fields
  <2> HIDE DEF c
  <2> QED BY <1>1, <2>1, <2>2, LookStep DEF StoreStep
<1>4. CASE ListServes
  <2> DEFINE c == LET page == FirstOf(Behind(cmd.nextMarker), Limit(cmd.maxkeys))
                  IN  [cmd EXCEPT !.page = page, !.truncated = (page # Behind(cmd.nextMarker)),
                                  !.served = (page = {}), !.done = TRUE]
  <2>1. Stays(c) /\ cmd.proc \notin {"put", "delete", "copy"}
    BY <1>1, <1>4 DEF ListServes, Serving, Runs, Continues, Stays
  <2>2. CommandOK(c) /\ c.proc = cmd.proc /\ (cmd.done => c.done)
    BY <1>1, <1>4 DEF ListServes, Serving, Runs, Answered, CommandOK, Fields
  <2> HIDE DEF c
  <2> QED BY <1>1, <2>1, <2>2, LookStep DEF StoreStep
<1>5. ASSUME NEW n \in 1..PageSize, ListCallback(n)
      PROVE  StoreStep
  <2> DEFINE c == LET contents == FirstOf(cmd.page, n)
                      header == IF cmd.keyCount = 0 THEN ListHeader ELSE <<>>
                  IN  [cmd EXCEPT
                         !.isTruncated = cmd.truncated,
                         !.nextMarker = LastOf(contents),
                         !.keyCount = @ + Cardinality(contents),
                         !.printed = @ \o header \o Lines(contents),
                         !.page = @ \ contents,
                         !.served = (contents = cmd.page)]
  <2>1. Stays(c) /\ cmd.proc \notin {"put", "delete", "copy"}
    BY <1>1, <1>5 DEF ListCallback, Serving, Runs, Continues, Stays
  <2>2. CommandOK(c) /\ c.proc = cmd.proc /\ (cmd.done => c.done)
    BY <1>1, <1>5 DEF ListCallback, Serving, Runs, Answered, CommandOK, Fields
  <2> HIDE DEF c
  <2> QED BY <1>1, <2>1, <2>2, LookStep DEF StoreStep
<1>6. CASE ListNextPage
  <2> DEFINE c == [cmd EXCEPT !.isTruncated = FALSE, !.served = FALSE]
  <2>1. Stays(c) /\ cmd.proc \notin {"put", "delete", "copy"}
    BY <1>1, <1>6 DEF ListNextPage, Serving, Runs, Continues, Stays
  <2>2. CommandOK(c) /\ c.proc = cmd.proc /\ (cmd.done => c.done)
    BY <1>1, <1>6 DEF ListNextPage, Serving, Runs, Answered, CommandOK, Fields
  <2> HIDE DEF c
  <2> QED BY <1>1, <2>1, <2>2, LookStep DEF StoreStep
<1>7. CASE ServiceServes
  <2> DEFINE c == LET header == IF cmd.headerPrinted THEN <<>> ELSE ServiceHeader
                  IN  IF exists THEN [Answered(cmd) EXCEPT !.headerPrinted = TRUE,
                                                           !.printed = @ \o header \o <<1>>]
                                ELSE Answered(cmd)
  <2>1. Stays(c) /\ cmd.proc \notin {"put", "delete", "copy"}
    BY <1>1, <1>7 DEF ServiceServes, Serving, Runs, Continues, Stays
  <2>2. CommandOK(c) /\ c.proc = cmd.proc /\ (cmd.done => c.done)
    BY <1>1, <1>7 DEF ServiceServes, Serving, Runs, Answered, CommandOK, Fields
  <2> HIDE DEF c
  <2> QED BY <1>1, <2>1, <2>2, LookStep DEF StoreStep
<1> QED BY <1>2, <1>3, <1>4, <1>5, <1>6, <1>7

\* getObjectDataCallback.
LEMMA GetReceivesStep ==
  ASSUME StoreInv, NEW n \in 1..BufferSize, NEW wrote \in 0..BufferSize, GetReceives(n, wrote)
  PROVE  StoreStep
<1> DEFINE all == wrote = n /\ cmd.got + n = Len(cmd.body)
           c == [cmd EXCEPT !.got = @ + n, !.position = @ + wrote, !.served = all, !.done = @ \/ all]
<1>1. running /\ cmd.proc = "get" /\ CommandOK(cmd) /\ UNCHANGED <<bucket, changes>>
  BY DEF StoreInv, GetReceives, Runs
<1>2. CommandOK(c) /\ c.proc = cmd.proc /\ c.done = (cmd.done \/ all)
  BY <1>1 DEF CommandOK, Fields
<1>3. CASE wrote < n
  <2>1. Ends("AbortedByCallback", c) /\ ~all
    <3>1. n \in Nat /\ wrote \in Nat
      BY S3ClientAssumption
    <3>2. wrote # n
      BY <1>3, <3>1
    <3> QED BY <1>3, <3>2 DEF GetReceives
  <2>2. c.done = cmd.done
    BY <1>1, <1>2, <2>1 DEF CommandOK
  <2> HIDE DEF c, all
  <2> QED BY <1>1, <1>2, <2>1, <2>2, EndStep DEF StoreStep, Store!StoreNext
<1>4. CASE ~(wrote < n)
  <2>1. Stays(c)
    BY <1>1, <1>4 DEF GetReceives, Continues, Stays
  <2> HIDE DEF c, all
  <2> QED BY <1>1, <1>2, <2>1, LookStep DEF StoreStep
<1> QED BY <1>3, <1>4

\* Requests fail, and commands end.
LEMMA FailsStep ==
  ASSUME StoreInv, Fails
  PROVE  StoreStep
<1>1. running /\ CommandOK(cmd) /\ UNCHANGED <<bucket, changes>>
  BY DEF StoreInv, Fails, clientVars
<1>2. PICK status \in {"ConnectionFailed", "Error"} : Retries(status, Again(cmd)) \/ Ends(status, cmd)
  BY DEF Fails
<1>3. CASE Ends(status, cmd)
  BY <1>1, <1>2, <1>3, EndStep DEF StoreStep, Store!StoreNext
<1>4. CASE Retries(status, Again(cmd))
  <2> DEFINE c == Again(cmd)
  <2>1. Stays(c)
    BY <1>1, <1>4 DEF Retries, Stays
  <2>2. CommandOK(c) /\ c.done = cmd.done /\ IntentOf(c) = IntentOf(cmd)
    <3>1. CASE cmd.proc = "put"
      <4>1. /\ c \in PutCommands /\ ~c.served /\ c.done = cmd.done /\ c.proc = "put" /\ c.sent = <<>>
            /\ c.input = cmd.input /\ c.at = cmd.at /\ c.contentLength = cmd.contentLength
            /\ c.originalContentLength = cmd.originalContentLength
            /\ c.key = cmd.key /\ c.properties = cmd.properties
        <5>1. c = [cmd EXCEPT !.sent = <<>>, !.served = FALSE]
          BY <3>1 DEF Again
        <5>2. cmd \in PutCommands /\ <<>> \in Seq(Bytes)
          BY <1>1, <3>1, EmptySeq DEF CommandOK
        <5> HIDE DEF c
        <5> QED BY <3>1, <5>1, <5>2 DEF PutCommands
      <4> HIDE DEF c
      <4>2. c.at \in Nat /\ Len(<<>>) = 0
        BY <4>1 DEF PutCommands
      <4>3. SubSeq(c.input, c.at - Len(<<>>) + 1, c.at) = <<>>
        BY <4>2, SubSeqEmpty
      <4>4. SentInOrder(c)
        BY <1>1, <3>1, <4>1, <4>2, <4>3 DEF CommandOK, SentInOrder
      <4>5. Fields \subseteq DOMAIN c
        BY <4>1 DEF PutCommands, Fields
      <4>6. CommandOK(c)
        BY <4>1, <4>4, <4>5 DEF CommandOK, PutCommands
      <4>7. IntentOf(c) = IntentOf(cmd)
        BY <3>1, <4>1 DEF IntentOf, Announced
      <4> QED BY <4>1, <4>6, <4>7
    <3>2. CASE cmd.proc = "delete"
      BY <1>1, <3>2 DEF Again, CommandOK, DeleteCommands, IntentOf, Fields
    <3>3. CASE cmd.proc = "copy"
      BY <1>1, <3>3 DEF Again, CommandOK, CopyCommands, IntentOf, Fields
    <3>4. CASE cmd.proc \notin {"put", "delete", "copy"}
      BY <1>1, <3>4 DEF Again, CommandOK, IntentOf, Fields
    <3> QED BY <3>1, <3>2, <3>3, <3>4
  <2> HIDE DEF c
  <2> QED BY <1>1, <2>1, <2>2, InvisibleStep DEF StoreStep
<1> QED BY <1>2, <1>3, <1>4

\* The end of a command after its last request is a step of the store.
LEMMA EndsStep ==
  ASSUME StoreInv, Succeeds \/ ListEnds \/ ServiceEnds
  PROVE  StoreStep
<1>1. running /\ CommandOK(cmd) /\ cmd.served /\ UNCHANGED <<bucket, changes>>
  BY DEF StoreInv, Succeeds, ListEnds, ServiceEnds, Runs, clientVars
<1>2. ASSUME NEW c, Ends("OK", c), CommandOK(c), c.done = cmd.done
      PROVE  StoreStep
  BY <1>1, <1>2, EndStep DEF StoreStep, Store!StoreNext, CommandOK
<1>3. CASE Succeeds
  BY <1>1, <1>2, <1>3 DEF Succeeds
<1>4. ASSUME NEW printed, NEW c, c = [cmd EXCEPT !.printed = printed],
             cmd.proc \in {"list", "service"}
      PROVE  CommandOK(c) /\ c.done = cmd.done
  BY <1>1, <1>4 DEF CommandOK, Fields
<1>5. CASE ListEnds \/ ServiceEnds
  BY <1>2, <1>4, <1>5 DEF ListEnds, ServiceEnds, Runs
<1> QED BY <1>3, <1>5

\* What other users do to the bucket (OthersChange) is a step of the store.
LEMMA OthersStep ==
  ASSUME StoreInv, NEW k \in Keys, NEW object \in Stock \cup {None}, OthersChange(k, object)
  PROVE  StoreStep
<1>1. object \in Objects \cup {None}
  BY S3ClientAssumption
<1>2. /\ bucket' = [bucket EXCEPT ![k] = object] /\ changes' = changes + 1
      /\ UNCHANGED <<running, statusG, commands>>
  BY DEF OthersChange
<1>3. CASE cmd' = cmd
  <2>1. StoreInv'
    BY <1>1, <1>2, <1>3 DEF StoreInv
  <2>2. Store!Others
    BY <1>1, <1>2, <1>3 DEF Store!Others, Store!Objects, Objects, Intent, Runs, Announced
  <2> QED BY <2>1, <2>2 DEF StoreStep, Store!StoreNext
<1>4. CASE Runs("list") /\ cmd' = [cmd EXCEPT !.stable = @ \ {k}]
  <2>1. running /\ CommandOK(cmd) /\ cmd.proc = "list"
    BY <1>4 DEF StoreInv, Runs
  <2>2. CommandOK(cmd') /\ cmd'.proc = "list" /\ cmd'.done = cmd.done
    BY <1>4, <2>1 DEF CommandOK, Fields
  <2>3. StoreInv'
    BY <1>1, <1>2, <2>2 DEF StoreInv
  <2>4. Intent = [kind |-> "look"] /\ Intent' = [kind |-> "look"]
    BY <1>2, <2>1, <2>2 DEF Intent, Runs
  <2>5. Store!Others
    BY <1>1, <1>2, <2>1, <2>2, <2>4 DEF Store!Others, Store!Objects, Objects
  <2> QED BY <2>3, <2>5 DEF StoreStep, Store!StoreNext
<1> QED BY <1>3, <1>4 DEF OthersChange

\* Every step of the tool is a step of the store or none, and keeps the invariant.
LEMMA NextStep ==
  ASSUME StoreInv, [Next]_vars
  PROVE  StoreStep
<1>1. CASE UNCHANGED vars
  BY <1>1 DEF vars, requestVars, clientVars, StoreStep, StoreInv, Store!storeVars, Intent, Runs, Announced
<1>2. CASE Begins
  BY <1>2, BeginsStep
<1>3. CASE GoesOn
  BY <1>3, PutSendsStep, GetReceivesStep, ServesStep, LooksStep, FailsStep, EndsStep DEF GoesOn
<1>4. CASE Others
  BY <1>4, OthersStep DEF Others
<1> QED BY <1>1, <1>2, <1>3, <1>4 DEF Next

\* Before the first command.
LEMMA InitHolds ==
  ASSUME Init
  PROVE  StoreInv /\ Store!StoreInit
<1>1. bucket \in [Keys -> Objects \cup {None}]
  <2>1. bucket \in [Keys -> Stock \cup {None}]
    BY Zenon DEF Init
  <2>2. Stock \subseteq Objects
    BY S3ClientAssumption
  <2> QED BY <2>1, <2>2
<1>2. running = FALSE /\ commands = 0
  BY Zenon DEF Init, RequestsInit
<1>3. ~running /\ running \in BOOLEAN
  BY <1>2, Zenon
<1>4. commands \in Nat /\ ~(commands > 0)
  BY <1>2
<1>5. StoreInv
  BY <1>1, <1>3, <1>4 DEF StoreInv
<1>6. Intent = None
  BY <1>3, IntentWhileRunning
<1>7. changes = 0
  BY Zenon DEF Init
<1> QED BY <1>1, <1>3, <1>4, <1>5, <1>6, <1>7 DEF Store!StoreInit, Store!Objects, Objects

\* Whatever keys, inputs and retries there are, and whichever requests fail
\* before or after the server carried them out, the commands implement the
\* object store: no object becomes the rest or the beginning of what a put
\* announced (putObjectDataCallback and the loop of put_object), and a command
\* reports success only for what was done.
THEOREM ObjectStoreImplemented == Spec => ImplementsObjectStore
<1>1. Init => StoreInv /\ Store!StoreInit
  BY InitHolds
<1>2. StoreInv /\ [Next]_vars => StoreInv' /\ [Store!StoreNext]_(Store!storeVars)
  BY NextStep DEF StoreStep
<1> QED BY <1>1, <1>2, PTL DEF Spec, ImplementsObjectStore, Store!StoreSpec

(***************************************************************************)
(* get: the file that it writes.                                            *)
(***************************************************************************)
\* The file is as it was behind the position of the stream, and reaches so far.
FileKept(c, file) ==
  /\ file \in Seq(Bytes)
  /\ Len(file) = IF c.position < Len(c.before) THEN Len(c.before) ELSE c.position
  /\ \A i \in 1..Len(file) : i > c.position => file[i] = c.before[i]

\* What the latest request has brought is just before that position.
Arrived(c, file) ==
  /\ c.got <= c.position
  /\ IF c.body = None THEN c.got = 0
     ELSE /\ c.got <= Len(c.body)
          /\ \A i \in 1..c.got : file[c.position - c.got + i] = c.body[i]
  /\ c.served => c.body # None /\ c.got = Len(c.body)

GetInv ==
  /\ cmd # None => commands > 0
  /\ out \in Seq(Bytes) \cup {None}
  /\ commands > 0 /\ cmd.proc = "get" =>
       /\ cmd \in GetCommands /\ FileKept(cmd, out)
       /\ running \/ statusG = "OK" => Arrived(cmd, out)
       /\ ~running /\ statusG = "OK" => cmd.served

\* Objects are made of bytes.
LEMMA ContentsAreBytes ==
  ASSUME NEW data \in Contents
  PROVE  data \in Seq(Bytes)
<1>1. PICK f \in Files : \E n \in 0..Len(f) : data = SubSeq(f, 1, n)
  BY DEF Contents
<1>2. f \in Seq(Bytes) /\ Len(f) \in Nat /\ \A i \in 1..Len(f) : f[i] \in Bytes
  BY S3ClientAssumption, LenProperties
<1>3. PICK n \in 0..Len(f) : data = SubSeq(f, 1, n)
  BY <1>1
<1>4. n \in Int /\ \A i \in 1..n : f[i] \in Bytes
  BY <1>2
<1> QED BY <1>3, <1>4, SubSeqProperties

\* The bytes behind a place.
LEMMA PieceOf ==
  ASSUME NEW s \in Seq(Bytes), NEW at \in Nat, NEW n \in Nat, at + n <= Len(s)
  PROVE  LET piece == SubSeq(s, at + 1, at + n)
         IN  piece \in Seq(Bytes) /\ Len(piece) = n /\ \A i \in 1..n : piece[i] = s[at + i]
<1> DEFINE a == at + 1
           b == at + n
<1>1. a \in Int /\ b \in Int
  OBVIOUS
<1>2. \A i \in a..b : s[i] \in Bytes
  <2>1. Len(s) \in Nat /\ \A i \in 1..Len(s) : s[i] \in Bytes
    BY LenProperties
  <2>2. \A i \in a..b : i \in 1..Len(s)
    BY <2>1
  <2> QED BY <2>1, <2>2
<1>3. /\ (IF a <= b THEN b - a + 1 ELSE 0) = n /\ b - a + 1 = n
      /\ \A i \in 1..n : a + i - 1 = at + i
  OBVIOUS
<1> HIDE DEF a, b
<1>4. /\ SubSeq(s, a, b) \in Seq(Bytes)
      /\ Len(SubSeq(s, a, b)) = IF a <= b THEN b - a + 1 ELSE 0
      /\ \A i \in 1..(b - a + 1) : SubSeq(s, a, b)[i] = s[a + i - 1]
  BY <1>1, <1>2, SubSeqProperties
<1> QED BY <1>3, <1>4 DEF a, b

\* fwrite at a place in the file or at its end.
LEMMA Overwritten ==
  ASSUME NEW file \in Seq(Bytes), NEW at \in Nat, at <= Len(file), NEW data \in Seq(Bytes)
  PROVE  LET end == at + Len(data)
             new == Overwrite(file, at, data)
         IN  /\ new \in Seq(Bytes)
             /\ Len(new) = IF end < Len(file) THEN Len(file) ELSE end
             /\ \A i \in 1..Len(new) :
                  new[i] = IF at < i /\ i <= end THEN data[i - at] ELSE file[i]
<1> DEFINE end == at + Len(data)
           n == IF end < Len(file) THEN Len(file) ELSE end
           new == Overwrite(file, at, data)
<1>1. /\ Len(file) \in Nat /\ \A i \in 1..Len(file) : file[i] \in Bytes
      /\ Len(data) \in Nat /\ \A i \in 1..Len(data) : data[i] \in Bytes
  BY LenProperties
<1>2. n \in Nat /\ end \in Nat
  BY <1>1
<1>3. \A i \in 1..n : (IF at < i /\ i <= end THEN data[i - at] ELSE file[i]) \in Bytes
  <2> TAKE i \in 1..n
  <2>1. CASE at < i /\ i <= end
    <3>1. i - at \in 1..Len(data)
      BY <1>1, <2>1
    <3> QED BY <1>1, <2>1, <3>1
  <2>2. CASE ~(at < i /\ i <= end)
    <3>1. i \in 1..Len(file)
      BY <1>1, <2>2
    <3> QED BY <1>1, <2>2, <3>1
  <2> QED BY <2>1, <2>2
<1>4. new = [i \in 1..n |-> IF at < i /\ i <= end THEN data[i - at] ELSE file[i]]
  BY DEF Overwrite
<1> HIDE DEF n, end, new
<1>5. new \in [1..n -> Bytes]
  BY <1>3, <1>4
<1>6. new \in Seq(Bytes)
  BY <1>2, <1>5, SeqDef
<1>7. Len(new) = n
  BY <1>2, <1>5, <1>6, LenProperties
<1>8. \A i \in 1..Len(new) : new[i] = IF at < i /\ i <= end THEN data[i - at] ELSE file[i]
  BY <1>4, <1>7
<1> QED BY <1>6, <1>7, <1>8 DEF n, end, new

\* getObjectDataCallback writes on where the stream is.
LEMMA ReceivesKeeps ==
  ASSUME StoreInv, GetInv, NEW n \in 1..BufferSize, NEW wrote \in 0..BufferSize,
         GetReceives(n, wrote)
  PROVE  GetInv'
<1> DEFINE all == wrote = n /\ cmd.got + n = Len(cmd.body)
           c == [cmd EXCEPT !.got = @ + n, !.position = @ + wrote, !.served = all, !.done = @ \/ all]
           data == SubSeq(cmd.body, cmd.got + 1, cmd.got + wrote)
<1>1. /\ running /\ cmd.proc = "get" /\ commands > 0 /\ commands' = commands
      /\ cmd \in GetCommands /\ FileKept(cmd, out) /\ Arrived(cmd, out) /\ ~cmd.served
      /\ cmd.body # None /\ cmd.got + n <= Len(cmd.body) /\ wrote <= n
      /\ out' = Overwrite(out, cmd.position, data)
  BY DEF StoreInv, GetInv, GetReceives, Runs, Continues, Ends
<1>2. /\ cmd' = c
      /\ IF wrote < n THEN ~running' /\ statusG' # "OK" ELSE running' = running
  <2>1. IF wrote < n THEN Ends("AbortedByCallback", c) ELSE Continues(c)
    BY DEF GetReceives
  <2> HIDE DEF c
  <2> QED BY <2>1 DEF Ends, Continues
<1>3. /\ n \in Nat /\ n > 0 /\ wrote \in Nat
      /\ cmd.got \in Nat /\ cmd.position \in Nat /\ cmd.before \in Seq(Bytes)
      /\ cmd.body \in Seq(Bytes) /\ Len(cmd.body) \in Nat /\ Len(cmd.before) \in Nat
      /\ Len(out) \in Nat /\ out \in Seq(Bytes)
  BY <1>1, S3ClientAssumption, LenProperties DEF GetCommands, FileKept
<1>4. data \in Seq(Bytes) /\ Len(data) = wrote /\ \A i \in 1..wrote : data[i] = cmd.body[cmd.got + i]
  <2> DEFINE body == cmd.body
             got == cmd.got
  <2>1. body \in Seq(Bytes) /\ got \in Nat /\ wrote \in Nat /\ got + wrote <= Len(body)
    BY <1>1, <1>3
  <2>2. data = SubSeq(body, got + 1, got + wrote)
    OBVIOUS
  <2> HIDE DEF body, got, data
  <2>3. data \in Seq(Bytes) /\ Len(data) = wrote /\ \A i \in 1..wrote : data[i] = body[got + i]
    BY <2>1, <2>2, PieceOf
  <2> QED BY <2>3 DEF body, got
<1>5. c \in GetCommands /\ c.got = cmd.got + n /\ c.position = cmd.position + wrote
      /\ c.before = cmd.before /\ c.body = cmd.body /\ c.served = all /\ c.proc = "get"
  <2> DEFINE got == cmd.got + n
             position == cmd.position + wrote
             done == cmd.done \/ all
  <2>1. got \in Nat /\ position \in Nat /\ all \in BOOLEAN /\ done \in BOOLEAN
    <3>1. got \in Nat /\ position \in Nat
      BY <1>3
    <3>2. all \in BOOLEAN /\ done \in BOOLEAN
      BY Zenon DEF all, done
    <3> QED BY <3>1, <3>2
  <2>2. c = [cmd EXCEPT !.got = got, !.position = position, !.served = all, !.done = done]
    BY <1>1 DEF GetCommands
  <2> HIDE DEF got, position, all, done, c
  <2>3. /\ c \in GetCommands /\ c.got = got /\ c.position = position /\ c.before = cmd.before
        /\ c.body = cmd.body /\ c.served = all /\ c.proc = "get"
    BY <1>1, <2>1, <2>2 DEF GetCommands
  <2> QED BY <2>3 DEF got, position
<1>6. cmd.position <= Len(out)
  BY <1>1, <1>3 DEF FileKept
<1> HIDE DEF data
<1>7. /\ out' \in Seq(Bytes)
      /\ Len(out') = IF cmd.position + wrote < Len(out) THEN Len(out) ELSE cmd.position + wrote
      /\ \A i \in 1..Len(out') :
           out'[i] = IF cmd.position < i /\ i <= cmd.position + wrote THEN data[i - cmd.position] ELSE out[i]
  <2> DEFINE at == cmd.position
  <2>1. at \in Nat /\ at <= Len(out) /\ out \in Seq(Bytes) /\ data \in Seq(Bytes) /\ Len(data) = wrote
    BY <1>3, <1>4, <1>6
  <2>2. out' = Overwrite(out, at, data)
    BY <1>1
  <2> HIDE DEF at
  <2>3. /\ out' \in Seq(Bytes)
        /\ Len(out') = IF at + wrote < Len(out) THEN Len(out) ELSE at + wrote
        /\ \A i \in 1..Len(out') :
             out'[i] = IF at < i /\ i <= at + wrote THEN data[i - at] ELSE out[i]
    BY <2>1, <2>2, Overwritten
  <2> QED BY <2>3 DEF at
<1> HIDE DEF c, all
<1>8. FileKept(c, out')
  <2>1. Len(out') = IF c.position < Len(c.before) THEN Len(c.before) ELSE c.position
    BY <1>1, <1>3, <1>5, <1>7 DEF FileKept
  <2>2. ASSUME NEW i \in 1..Len(out'), i > c.position PROVE out'[i] = c.before[i]
    <3>1. i \in 1..Len(out) /\ i > cmd.position /\ ~(i <= cmd.position + wrote)
      BY <1>3, <1>5, <1>7, <2>1, <2>2
    <3> QED BY <1>1, <1>5, <1>7, <3>1 DEF FileKept
  <2> QED BY <1>7, <2>1, <2>2 DEF FileKept
<1>9. ASSUME ~(wrote < n) PROVE Arrived(c, out')
  <2>1. wrote = n /\ c.got <= c.position /\ c.got <= Len(c.body)
    BY <1>1, <1>3, <1>5, <1>9 DEF Arrived
  <2>2. ASSUME NEW i \in 1..c.got PROVE out'[c.position - c.got + i] = c.body[i]
    <3> DEFINE j == c.position - c.got + i
    <3>0. /\ i \in 1..(cmd.got + n) /\ cmd.got <= cmd.position /\ wrote = n
          /\ c.position = cmd.position + n /\ c.got = cmd.got + n
      BY <1>1, <1>5, <2>1 DEF Arrived
    <3>1. j = cmd.position - cmd.got + i /\ j \in 1..Len(out') /\ j \in 1..(cmd.position + n)
      <4>1. j = cmd.position - cmd.got + i /\ j \in 1..(cmd.position + n)
        BY <1>3, <3>0
      <4>2. cmd.position + n <= Len(out') /\ Len(out') \in Nat
        BY <1>3, <1>7, <3>0
      <4> HIDE DEF j
      <4> QED BY <1>3, <4>1, <4>2
    <3> HIDE DEF j
    <3>2. CASE i <= cmd.got
      <4>1. i \in 1..cmd.got /\ ~(cmd.position < j)
        BY <1>3, <3>0, <3>1, <3>2
      <4>2. out'[j] = out[j]
        BY <1>7, <3>1, <4>1
      <4>3. out[cmd.position - cmd.got + i] = cmd.body[i]
        BY <1>1, <4>1 DEF Arrived
      <4> QED BY <1>5, <3>1, <4>2, <4>3 DEF j
    <3>3. CASE ~(i <= cmd.got)
      <4>1. cmd.position < j /\ j <= cmd.position + wrote /\ j - cmd.position \in 1..wrote
            /\ cmd.got + (j - cmd.position) = i
        <5> DEFINE p == cmd.position
                   g == cmd.got
        <5>1. p \in Nat /\ g \in Nat /\ n \in Nat /\ i \in 1..(g + n) /\ g <= p /\ wrote = n /\ j = p - g + i
              /\ ~(i <= g)
          BY <1>3, <3>0, <3>1, <3>3
        <5> HIDE DEF p, g
        <5>2. p < j /\ j <= p + n /\ j - p \in 1..n /\ g + (j - p) = i
          BY <5>1
        <5> QED BY <5>1, <5>2 DEF p, g
      <4>2. out'[j] = data[j - cmd.position]
        BY <1>7, <3>1, <4>1
      <4>3. out'[j] = cmd.body[i]
        BY <1>4, <4>1, <4>2
      <4> QED BY <1>5, <4>3 DEF j
    <3> QED BY <3>2, <3>3
  <2>3. c.served => c.body # None /\ c.got = Len(c.body)
    BY <1>1, <1>5 DEF all
  <2>4. c.body # None
    BY <1>1, <1>5
  <2> QED BY <2>1, <2>2, <2>3, <2>4 DEF Arrived
<1>10. (commands > 0)' /\ (out \in Seq(Bytes) \cup {None})'
  BY <1>1, <1>7
<1>11. CASE wrote < n
  BY <1>2, <1>5, <1>8, <1>10, <1>11 DEF GetInv
<1>12. CASE ~(wrote < n)
  BY <1>1, <1>2, <1>5, <1>8, <1>9, <1>10, <1>12 DEF GetInv
<1> QED BY <1>11, <1>12

\* A get begins with the old file or an empty one, and the stream at its start.
LEMMA GetStarts ==
  ASSUME StoreInv, GetInv, NEW key \in Keys, NEW startByte \in Nat, NEW byteCount \in Nat,
         GetBegins(key, startByte, byteCount)
  PROVE  GetInv'
<1> DEFINE before == IF out = None THEN <<>> ELSE out
<1>1. before \in Seq(Bytes) /\ Len(before) \in Nat
  <2>1. before \in Seq(Bytes)
    BY EmptySeq DEF GetInv
  <2> QED BY <2>1, LenProperties
<1>2. /\ cmd' = [proc |-> "get", key |-> key, startByte |-> startByte, byteCount |-> byteCount,
                 body |-> None, got |-> 0, position |-> 0, before |-> before,
                 served |-> FALSE, done |-> FALSE]
      /\ out' = before /\ running' = TRUE /\ commands' = commands + 1
  BY DEF GetBegins, Starts
<1> HIDE DEF before
<1>3. cmd' \in GetCommands
  BY <1>1, <1>2 DEF GetCommands
<1>4. FileKept(cmd', out')
  BY <1>1, <1>2 DEF FileKept
<1>5. Arrived(cmd', out')
  BY <1>1, <1>2 DEF Arrived
<1>6. commands' > 0 /\ running'
  BY <1>2 DEF StoreInv
<1> QED BY <1>1, <1>2, <1>3, <1>4, <1>5, <1>6 DEF GetInv

\* A request that begins again leaves file and stream alone (get_object), and
\* so does the server when it begins to send.
LEMMA GetGoesOn ==
  ASSUME StoreInv, GetInv, running, cmd.proc = "get", UNCHANGED <<out, commands>>,
         NEW body \in Seq(Bytes) \cup {None}, NEW served \in BOOLEAN, NEW done \in BOOLEAN,
         cmd' = [cmd EXCEPT !.body = body, !.got = 0, !.served = served, !.done = done],
         served => body = <<>>, running'
  PROVE  GetInv'
<1>1. commands > 0 /\ cmd \in GetCommands /\ FileKept(cmd, out) /\ Arrived(cmd, out)
  BY DEF StoreInv, GetInv
<1>2. /\ cmd' \in GetCommands /\ cmd'.body = body /\ cmd'.got = 0 /\ cmd'.served = served
      /\ cmd'.position = cmd.position /\ cmd'.before = cmd.before /\ cmd.position \in Nat
  BY <1>1 DEF GetCommands
<1>3. FileKept(cmd', out')
  BY <1>1, <1>2 DEF FileKept
<1>4. Arrived(cmd', out')
  <2>1. body # None => Len(body) \in Nat
    BY LenProperties
  <2>2. served => body # None /\ Len(body) = 0
    <3>1. <<>> \in Seq(Bytes) /\ Len(<<>>) = 0
      BY EmptySeq
    <3> QED BY <3>1, S3ClientAssumption
  <2> QED BY <1>1, <1>2, <2>1, <2>2 DEF Arrived
<1>5. (commands > 0)' /\ (out \in Seq(Bytes) \cup {None})'
  BY <1>1 DEF GetInv
<1> QED BY <1>2, <1>3, <1>4, <1>5 DEF GetInv

\* The part of an object is made of bytes.
LEMMA PartIsBytes ==
  ASSUME NEW data \in Seq(Bytes), NEW startByte \in Nat, NEW byteCount \in Nat,
         startByte = 0 \/ startByte < Len(data)
  PROVE  Part(data, startByte, byteCount) \in Seq(Bytes)
<1> DEFINE rest == Len(data) - startByte
           n == IF byteCount = 0 \/ byteCount > rest THEN rest ELSE byteCount
<1>1. Len(data) \in Nat
  BY LenProperties
<1>2. n \in Nat /\ startByte + n <= Len(data)
  BY <1>1
<1>3. Part(data, startByte, byteCount) = SubSeq(data, startByte + 1, startByte + n)
  BY DEF Part
<1> HIDE DEF n
<1> QED BY <1>2, <1>3, PieceOf

\* The server begins to send.
LEMMA GetServesKeeps ==
  ASSUME StoreInv, GetInv, GetServes
  PROVE  GetInv'
<1> DEFINE data == bucket[cmd.key].data
           body == Part(data, cmd.startByte, cmd.byteCount)
           served == body = <<>>
           done == cmd.done \/ served
<1>1. /\ running /\ running' /\ cmd.proc = "get" /\ UNCHANGED <<out, commands>>
      /\ bucket[cmd.key] # None
      /\ cmd.startByte = 0 \/ cmd.startByte < Len(data)
  BY DEF GetServes, Serving, Runs, Continues, clientVars
<1>2. cmd \in GetCommands /\ cmd.got = 0
  BY <1>1 DEF GetServes, StoreInv, GetInv, Arrived
<1>3. body \in Seq(Bytes)
  <2>1. data \in Contents
    BY <1>1, <1>2 DEF StoreInv, GetCommands, Objects
  <2>2. data \in Seq(Bytes) /\ cmd.startByte \in Nat /\ cmd.byteCount \in Nat
    BY <1>2, <2>1, ContentsAreBytes DEF GetCommands
  <2> DEFINE s == cmd.startByte
             b == cmd.byteCount
  <2>3. s = 0 \/ s < Len(data)
    BY <1>1
  <2> HIDE DEF data, s, b
  <2>4. Part(data, s, b) \in Seq(Bytes)
    BY <2>2, <2>3, PartIsBytes DEF s, b
  <2> QED BY <2>4 DEF s, b
<1>4. cmd' = [cmd EXCEPT !.body = body, !.got = 0, !.served = served, !.done = done]
  <2>1. cmd' = [cmd EXCEPT !.body = body, !.served = served, !.done = done]
    BY <1>2 DEF GetServes, Continues, GetCommands
  <2> HIDE DEF body, served, done
  <2>2. [cmd EXCEPT !.body = body, !.served = served, !.done = done]
          = [cmd EXCEPT !.body = body, !.got = 0, !.served = served, !.done = done]
    BY <1>2 DEF GetCommands
  <2> QED BY <2>1, <2>2
<1>5. served \in BOOLEAN /\ done \in BOOLEAN /\ (served => body = <<>>)
  BY Zenon DEF served, done
<1> HIDE DEF body, served, done
<1> QED BY <1>1, <1>3, <1>4, <1>5, GetGoesOn

\* A command keeps its kind, and only get writes the file.
LEMMA KindKept ==
  ASSUME StoreInv, GoesOn
  PROVE  /\ running /\ commands > 0 /\ commands' = commands
         /\ cmd'.proc = cmd.proc
         /\ cmd.proc # "get" => out' = out
<1>1. ASSUME running PROVE commands > 0 /\ CommandOK(cmd) /\ "proc" \in DOMAIN cmd
  BY <1>1 DEF StoreInv, CommandOK, Fields
<1> USE DEF Runs, Serving, Continues, Ends, Answered, clientVars
<1>2. ASSUME NEW n \in 1..BufferSize, PutSends(n)
      PROVE  /\ running /\ commands' = commands /\ out' = out /\ cmd'.proc = cmd.proc
  BY <1>1, <1>2 DEF PutSends
<1>3. ASSUME NEW n \in 1..BufferSize, NEW wrote \in 0..BufferSize, GetReceives(n, wrote)
      PROVE  /\ running /\ commands' = commands /\ cmd'.proc = cmd.proc /\ cmd.proc = "get"
  <2> DEFINE all == wrote = n /\ cmd.got + n = Len(cmd.body)
             c == [cmd EXCEPT !.got = @ + n, !.position = @ + wrote, !.served = all, !.done = @ \/ all]
  <2>1. running /\ cmd.proc = "get" /\ cmd' = c /\ commands' = commands
    BY <1>3 DEF GetReceives
  <2>2. c.proc = cmd.proc
    BY <1>1, <2>1
  <2> HIDE DEF c
  <2> QED BY <2>1, <2>2
<1>4. CASE PutServes \/ DeleteServes \/ CopyServes
  BY <1>1, <1>4 DEF PutServes, DeleteServes, CopyServes
<1>5. CASE HeadServes \/ TestServes \/ CreateServes \/ RemoveServes
  BY <1>1, <1>5 DEF HeadServes, TestServes, CreateServes, RemoveServes
<1>6. CASE GetServes
  <2> DEFINE c == LET body == Part(bucket[cmd.key].data, cmd.startByte, cmd.byteCount)
                  IN  [cmd EXCEPT !.body = body, !.served = (body = <<>>), !.done = @ \/ body = <<>>]
  <2>1. running /\ commands' = commands /\ out' = out /\ cmd' = c
    BY <1>6 DEF GetServes
  <2>2. c.proc = cmd.proc
    BY <1>1, <2>1
  <2> HIDE DEF c
  <2> QED BY <1>1, <2>1, <2>2
<1>7. CASE ListServes
  <2> DEFINE c == LET page == FirstOf(Behind(cmd.nextMarker), Limit(cmd.maxkeys))
                  IN  [cmd EXCEPT !.page = page, !.truncated = (page # Behind(cmd.nextMarker)),
                                  !.served = (page = {}), !.done = TRUE]
  <2>1. running /\ commands' = commands /\ out' = out /\ cmd' = c
    BY <1>7 DEF ListServes
  <2>2. c.proc = cmd.proc
    BY <1>1, <2>1
  <2> HIDE DEF c
  <2> QED BY <1>1, <2>1, <2>2
<1>13. ASSUME NEW n \in 1..PageSize, ListCallback(n)
      PROVE  /\ running /\ commands' = commands /\ out' = out /\ cmd'.proc = cmd.proc
  <2> DEFINE c == LET contents == FirstOf(cmd.page, n)
                      header == IF cmd.keyCount = 0 THEN ListHeader ELSE <<>>
                  IN  [cmd EXCEPT
                         !.isTruncated = cmd.truncated,
                         !.nextMarker = LastOf(contents),
                         !.keyCount = @ + Cardinality(contents),
                         !.printed = @ \o header \o Lines(contents),
                         !.page = @ \ contents,
                         !.served = (contents = cmd.page)]
  <2>1. running /\ commands' = commands /\ out' = out /\ cmd' = c
    BY <1>13 DEF ListCallback
  <2>2. c.proc = cmd.proc
    BY <1>1, <2>1
  <2> HIDE DEF c
  <2> QED BY <1>1, <2>1, <2>2
<1>8. CASE ListNextPage
  BY <1>1, <1>8 DEF ListNextPage
<1>9. CASE ListEnds \/ ServiceEnds
  <2>1. /\ running /\ commands' = commands /\ out' = out
        /\ \E printed : cmd' = [cmd EXCEPT !.printed = printed]
    BY <1>9, Zenon DEF ListEnds, ServiceEnds
  <2> QED BY <1>1, <2>1
<1>10. CASE ServiceServes
  <2> DEFINE c == LET header == IF cmd.headerPrinted THEN <<>> ELSE ServiceHeader
                  IN  IF exists THEN [Answered(cmd) EXCEPT !.headerPrinted = TRUE,
                                                           !.printed = @ \o header \o <<1>>]
                                ELSE Answered(cmd)
  <2>1. running /\ commands' = commands /\ out' = out /\ cmd' = c
    BY <1>10 DEF ServiceServes
  <2>2. c.proc = cmd.proc
    BY <1>1, <2>1
  <2> HIDE DEF c
  <2> QED BY <1>1, <2>1, <2>2
<1>11. CASE Succeeds
  BY <1>1, <1>11 DEF Succeeds
<1>12. CASE Fails
  <2>1. running /\ commands' = commands /\ out' = out /\ cmd' \in {cmd, Again(cmd)}
    BY <1>12 DEF Fails, Retries
  <2>2. Again(cmd).proc = cmd.proc
    BY <1>1, <2>1 DEF Again
  <2> QED BY <1>1, <2>1, <2>2
<1> HIDE DEF Runs, Serving, Continues, Ends, Answered, clientVars
<1> QED BY <1>1, <1>2, <1>3, <1>4, <1>5, <1>6, <1>7, <1>8, <1>9, <1>10, <1>11, <1>12, <1>13 DEF GoesOn

\* A new command is of some kind.
LEMMA KindChosen ==
  ASSUME StoreInv, Begins
  PROVE  /\ ~running /\ running' /\ commands' = commands + 1
         /\ \/ \E key \in Keys, startByte, byteCount \in 0..1 : GetBegins(key, startByte, byteCount)
            \/ /\ out' = out /\ cmd'.proc # "get"
               /\ \/ \E maxkeys \in 0..MaxKeys, marker \in Keys \cup {NullMarker} : ListBegins(maxkeys, marker)
                  \/ cmd'.proc # "list"
<1> USE DEF Starts, clientVars
<1>1. ASSUME NEW key \in Keys, NEW properties \in Properties, NEW input \in Files,
             NEW given \in 0..(Len(input) + 1), PutBegins(key, properties, input, given)
      PROVE  /\ ~running /\ running' /\ commands' = commands + 1
             /\ out' = out /\ cmd'.proc = "put"
  BY <1>1 DEF PutBegins
<1>2. ASSUME NEW key \in Keys, NEW startByte \in 0..1, NEW byteCount \in 0..1, GetBegins(key, startByte, byteCount)
      PROVE  ~running /\ running' /\ commands' = commands + 1
  BY <1>2 DEF GetBegins
<1>3. ASSUME NEW maxkeys \in 0..MaxKeys, NEW marker \in Keys \cup {NullMarker}, ListBegins(maxkeys, marker)
      PROVE  ~running /\ running' /\ commands' = commands + 1 /\ out' = out /\ cmd'.proc = "list"
  BY <1>3 DEF ListBegins
<1>4. ASSUME \/ \E key \in Keys :
                   \/ DeleteBegins(key) \/ HeadBegins(key)
                   \/ \E from \in Keys, properties \in Properties \cup {None} :
                        CopyBegins(from, key, properties)
             \/ TestBegins \/ CreateBegins \/ RemoveBegins \/ ServiceBegins
      PROVE  /\ ~running /\ running' /\ commands' = commands + 1
             /\ out' = out /\ cmd'.proc \notin {"get", "list"}
  BY <1>4 DEF DeleteBegins, HeadBegins, CopyBegins, TestBegins, CreateBegins, RemoveBegins, ServiceBegins
<1> HIDE DEF Starts, clientVars
<1> QED BY <1>1, <1>2, <1>3, <1>4 DEF Begins

\* What GetInv says of a get survives every step of the tool, the server and the others.
LEMMA GetNext ==
  ASSUME StoreInv, GetInv, [Next]_vars
  PROVE  GetInv'
<1>1. CASE UNCHANGED vars
  BY <1>1 DEF vars, requestVars, clientVars, GetInv, FileKept, Arrived
<1>2. ASSUME out' = out, commands' > 0, cmd'.proc # "get"
      PROVE  GetInv'
  BY <1>2 DEF GetInv
<1>3. CASE Begins
  <2>1. commands' > 0
    BY <1>3, KindChosen DEF StoreInv
  <2>2. 0..1 \subseteq Nat
    OBVIOUS
  <2> QED BY <1>2, <1>3, <2>1, <2>2, KindChosen, GetStarts
<1>4. CASE GoesOn
  <2>1. running /\ commands > 0 /\ commands' = commands /\ cmd'.proc = cmd.proc
    BY <1>4, KindKept
  <2>2. CASE cmd.proc # "get"
    BY <1>2, <1>4, <2>1, <2>2, KindKept
  <2>3. ASSUME cmd.proc = "get", Succeeds \/ Fails
        PROVE  GetInv'
    <3>1. /\ UNCHANGED out /\ cmd \in GetCommands /\ FileKept(cmd, out) /\ Arrived(cmd, out)
      BY <2>1, <2>3 DEF Succeeds, Fails, clientVars, GetInv
    <3>2. CASE Succeeds
      BY <2>1, <3>1, <3>2 DEF Succeeds, Ends, GetInv, FileKept, Arrived
    <3>3. ASSUME NEW status \in {"ConnectionFailed", "Error"}, Ends(status, cmd)
          PROVE  GetInv'
      BY <2>1, <3>1, <3>3 DEF Ends, GetInv, FileKept
    <3>4. ASSUME NEW status \in {"ConnectionFailed", "Error"}, Retries(status, Again(cmd))
          PROVE  GetInv'
      <4>1. cmd' = [cmd EXCEPT !.body = None, !.got = 0, !.served = FALSE, !.done = cmd.done]
        BY <2>3, <3>1, <3>4 DEF Retries, Again, GetCommands
      <4>2. running' /\ cmd.done \in BOOLEAN
        BY <2>1, <3>1, <3>4 DEF Retries, GetCommands
      <4> QED BY <2>1, <2>3, <3>1, <4>1, <4>2, GetGoesOn
    <3> QED BY <2>3, <3>2, <3>3, <3>4 DEF Fails
  <2>4. CASE cmd.proc = "get"
    <3>1. \/ \E n \in 1..BufferSize, wrote \in 0..BufferSize : GetReceives(n, wrote)
          \/ GetServes \/ Succeeds \/ Fails
      BY <1>4, <2>4 DEF GoesOn, PutSends, PutServes, DeleteServes, CopyServes, HeadServes,
         TestServes, CreateServes, RemoveServes, ListServes, ListCallback, ListNextPage,
         ListEnds, ServiceServes, ServiceEnds, Serving, Runs
    <3> QED BY <2>3, <2>4, <3>1, GetServesKeeps, ReceivesKeeps
  <2> QED BY <2>2, <2>4
<1>5. CASE Others
  <2>1. /\ UNCHANGED <<running, statusG, commands, out>>
        /\ cmd' = cmd \/ (Runs("list") /\ \E k : cmd' = [cmd EXCEPT !.stable = @ \ {k}])
    BY <1>5 DEF Others, OthersChange
  <2>2. CASE cmd' = cmd
    BY <2>1, <2>2 DEF GetInv, FileKept, Arrived
  <2>3. CASE Runs("list") /\ \E k : cmd' = [cmd EXCEPT !.stable = @ \ {k}]
    <3>1. commands > 0 /\ "proc" \in DOMAIN cmd /\ cmd.proc = "list"
      BY <2>3 DEF StoreInv, CommandOK, Fields, Runs
    <3> QED BY <1>2, <2>1, <2>3, <3>1
  <2> QED BY <2>1, <2>2, <2>3
<1> QED BY <1>1, <1>3, <1>4, <1>5 DEF Next

\* Before the first command nothing was got.
LEMMA GetInit ==
  ASSUME Init
  PROVE  GetInv
<1>1. commands = 0 /\ cmd = None /\ out \in OldFiles \cup {None}
  BY Zenon DEF Init, RequestsInit
<1>2. ~(commands > 0)
  BY <1>1
<1>3. out \in Seq(Bytes) \cup {None}
  BY <1>1, S3ClientAssumption
<1> QED BY <1>1, <1>2, <1>3 DEF GetInv

\* The parts of the invariant tell the whole.
LEMMA GetTold ==
  ASSUME GetInv
  PROVE  GetDelivers
<1>1. SUFFICES ASSUME cmd # None, cmd.proc = "get"
               PROVE  /\ SubSeq(out, cmd.position + 1, Len(out))
                           = SubSeq(cmd.before, cmd.position + 1, Len(cmd.before))
                      /\ ~running /\ statusG = "OK" =>
                           LET n == Len(cmd.body)
                           IN  /\ n <= cmd.position
                               /\ SubSeq(out, cmd.position - n + 1, cmd.position) = cmd.body
                               /\ cmd.position = n /\ Len(cmd.before) <= n => out = cmd.body
  BY DEF GetDelivers
<1> DEFINE p == cmd.position
           before == cmd.before
<1>2. /\ cmd \in GetCommands /\ FileKept(cmd, out) /\ p \in Nat /\ before \in Seq(Bytes)
      /\ ~running /\ statusG = "OK" => Arrived(cmd, out) /\ cmd.served
  BY <1>1 DEF GetInv, GetCommands
<1>3. /\ out \in Seq(Bytes) /\ Len(out) = IF p < Len(before) THEN Len(before) ELSE p
      /\ \A i \in 1..Len(out) : i > p => out[i] = before[i]
  BY <1>2 DEF FileKept
<1>4. Len(before) \in Nat /\ Len(out) \in Nat
  BY <1>2, <1>3, LenProperties
<1>5. SubSeq(out, p + 1, Len(out)) = SubSeq(before, p + 1, Len(before))
  <2> HIDE DEF p, before
  <2>1. CASE ~(p < Len(before))
    <3>1. Len(out) < p + 1 /\ Len(before) < p + 1 /\ p + 1 \in Int /\ Len(out) \in Int /\ Len(before) \in Int
      BY <1>2, <1>3, <1>4, <2>1
    <3> QED BY <3>1, SubSeqEmpty
  <2>2. CASE p < Len(before)
    <3> DEFINE n == Len(before) - p
               s == SubSeq(out, p + 1, p + n)
               t == SubSeq(before, p + 1, p + n)
    <3>1. n \in Nat /\ p + n = Len(before) /\ Len(out) = Len(before)
      BY <1>2, <1>3, <1>4, <2>2
    <3> HIDE DEF n
    <3>2. /\ s \in Seq(Bytes) /\ Len(s) = n /\ \A i \in 1..n : s[i] = out[p + i]
          /\ t \in Seq(Bytes) /\ Len(t) = n /\ \A i \in 1..n : t[i] = before[p + i]
      <4>1. p + n <= Len(out) /\ p + n <= Len(before)
        BY <1>4, <3>1
      <4> QED BY <1>2, <1>3, <3>1, <4>1, PieceOf
    <3>3. \A i \in 1..n : out[p + i] = before[p + i]
      <4> TAKE i \in 1..n
      <4>1. p + i \in 1..Len(out) /\ p + i > p
        BY <1>2, <1>4, <3>1
      <4> QED BY <1>3, <4>1
    <3> HIDE DEF s, t
    <3>4. s = t
      BY <3>2, <3>3, SeqEqual
    <3> QED BY <3>1, <3>4 DEF s, t
  <2> QED BY <2>1, <2>2
<1>6. ASSUME ~running, statusG = "OK"
      PROVE  LET n == Len(cmd.body)
             IN  /\ n <= p
                 /\ SubSeq(out, p - n + 1, p) = cmd.body
                 /\ p = n /\ Len(before) <= n => out = cmd.body
  <2> DEFINE body == cmd.body
             n == Len(body)
             s == SubSeq(out, (p - n) + 1, (p - n) + n)
  <2>1. /\ body \in Seq(Bytes) /\ cmd.got = n /\ n <= p
        /\ \A i \in 1..n : out[p - n + i] = body[i]
    BY <1>2, <1>6 DEF Arrived, GetCommands
  <2>2. n \in Nat
    BY <2>1, LenProperties
  <2> HIDE DEF body, n, p, before
  <2>3. p - n \in Nat /\ (p - n) + n = p /\ p <= Len(out)
    BY <1>2, <1>3, <1>4, <2>1, <2>2
  <2>4. s \in Seq(Bytes) /\ Len(s) = n /\ \A i \in 1..n : s[i] = out[p - n + i]
    <3> DEFINE at == p - n
    <3>1. at \in Nat /\ at + n <= Len(out)
      BY <2>3
    <3> HIDE DEF at
    <3>2. LET piece == SubSeq(out, at + 1, at + n)
          IN  piece \in Seq(Bytes) /\ Len(piece) = n /\ \A i \in 1..n : piece[i] = out[at + i]
      BY <1>3, <2>2, <3>1, PieceOf
    <3> QED BY <3>2 DEF at
  <2> HIDE DEF s
  <2>5. Len(body) = n
    BY DEF n
  <2>6. s = body
    BY <2>1, <2>4, <2>5, SeqEqual
  <2>7. ASSUME p = n, Len(before) <= n PROVE out = body
    <3>1. Len(out) = n
      BY <1>2, <1>3, <1>4, <2>7
    <3>2. \A i \in 1..n : p - n + i = i
      BY <1>2, <2>2, <2>7
    <3>3. \A i \in 1..n : out[i] = body[i]
      BY <2>1, <3>2
    <3> QED BY <1>3, <2>1, <2>5, <3>1, <3>3, SeqEqual
  <2> QED BY <2>1, <2>3, <2>6, <2>7 DEF s, n, body
<1> QED BY <1>5, <1>6

\* Whatever the server sends, however it is cut into callbacks, and whichever
\* requests fail and are made again into the same stream, a get that ends well has
\* the part in the file in one piece, and no get changes what it did not reach
\* (get_object, getObjectDataCallback).
THEOREM GetsDeliver == Spec => []GetDelivers
<1>1. Init => StoreInv /\ GetInv
  BY InitHolds, GetInit
<1>2. StoreInv /\ GetInv /\ [Next]_vars => StoreInv' /\ GetInv'
  BY NextStep, GetNext DEF StoreStep
<1>3. GetInv => GetDelivers
  BY GetTold
<1> QED BY <1>1, <1>2, <1>3, PTL DEF Spec

(***************************************************************************)
(* Listings: the lines that are printed, the page that is still to come and *)
(* what is behind it follow each other in the order of keys, and together   *)
(* they have all keys that stayed in the bucket.                            *)
(***************************************************************************)

(***************************************************************************)
(* Keys in the order of a listing.                                          *)
(***************************************************************************)
\* How many keys of S are listed before k.
Rank(S, k) == Cardinality({j \in S : j < k})

\* There are not many before any key, and more before a later one.
LEMMA RanksGrow ==
  ASSUME NEW S \in SUBSET Nat
  PROVE  /\ \A k \in Nat : Rank(S, k) \in Nat
         /\ \A j \in S, k \in Nat : j < k => Rank(S, j) < Rank(S, k)
<1> DEFINE Before(k) == {j \in S : j < k}
<1>1. ASSUME NEW k \in Nat PROVE IsFiniteSet(Before(k)) /\ Cardinality(Before(k)) \in Nat
  <2>1. Before(k) \in SUBSET Nat /\ \A j \in Before(k) : j <= k
    <3>1. \A j \in S : j < k => j <= k
      OBVIOUS
    <3> QED BY <3>1
  <2> HIDE DEF Before
  <2> QED BY <2>1, FS_BoundedSetOfNaturals, FS_CardinalityType
<1>2. ASSUME NEW j \in S, NEW k \in Nat, j < k
      PROVE  Cardinality(Before(j)) < Cardinality(Before(k))
  <2>1. \A i \in S : i < j => i < k
    BY <1>2
  <2>2. j \in Before(k) /\ j \notin Before(j) /\ Before(j) \in SUBSET Before(k)
    <3>1. ~(j < j)
      OBVIOUS
    <3>2. \A i \in Before(j) : i \in Before(k)
      BY <2>1
    <3> QED BY <1>2, <3>1, <3>2
  <2> HIDE DEF Before
  <2>3. /\ Cardinality(Before(j)) <= Cardinality(Before(k))
        /\ Cardinality(Before(j)) # Cardinality(Before(k))
    BY <1>1, <2>2, FS_Subset
  <2> QED BY <1>1, <2>3
<1> QED BY <1>1, <1>2 DEF Rank

\* So they tell the order.
LEMMA RanksOrder ==
  ASSUME NEW S \in SUBSET Nat, NEW j \in S, NEW k \in S, Rank(S, j) <= Rank(S, k)
  PROVE  j <= k
<1>1. Rank(S, j) \in Nat /\ Rank(S, k) \in Nat /\ (k < j => Rank(S, k) < Rank(S, j))
  BY RanksGrow
<1>2. ~(k < j)
  BY <1>1
<1> QED BY <1>2

\* No two keys have the same number of keys before them.
LEMMA RanksDiffer ==
  ASSUME NEW S \in SUBSET Nat, NEW j \in S, NEW k \in S, Rank(S, j) = Rank(S, k)
  PROVE  j = k
<1>1. Rank(S, j) \in Nat /\ Rank(S, k) \in Nat
  BY RanksGrow
<1>2. Rank(S, j) <= Rank(S, k) /\ Rank(S, k) <= Rank(S, j)
  BY <1>1
<1>3. j <= k /\ k <= j
  BY <1>2, RanksOrder
<1> QED BY <1>3

\* The ranks of a finite set are all the numbers below its size.
LEMMA RanksTaken ==
  ASSUME NEW S \in SUBSET Nat, IsFiniteSet(S)
  PROVE  /\ Cardinality(S) \in Nat
         /\ \A k \in S : Rank(S, k) < Cardinality(S)
         /\ \A i \in 0..(Cardinality(S) - 1) : \E k \in S : Rank(S, k) = i
<1> DEFINE n == Cardinality(S)
           T == 0..(n - 1)
           r == [k \in S |-> Rank(S, k)]
<1>1. n \in Nat
  BY FS_CardinalityType
<1>2. ASSUME NEW k \in S PROVE Rank(S, k) < n
  <2> DEFINE B == {j \in S : j < k}
  <2>1. B \in SUBSET S /\ B # S
    <3>1. k \notin B
      OBVIOUS
    <3> QED BY <3>1
  <2>2. Rank(S, k) = Cardinality(B)
    BY DEF Rank
  <2> HIDE DEF B
  <2>3. Cardinality(B) <= n /\ Cardinality(B) # n
    BY <2>1, FS_Subset
  <2>4. Rank(S, k) \in Nat
    BY RanksGrow
  <2> QED BY <1>1, <2>2, <2>3, <2>4
<1>3. r \in Injection(S, T)
  <2>1. \A k \in S : Rank(S, k) \in T
    <3> TAKE k \in S
    <3>1. Rank(S, k) \in Nat /\ Rank(S, k) < n
      BY <1>2, RanksGrow
    <3> HIDE DEF n
    <3> QED BY <1>1, <3>1
  <2>2. r \in [S -> T]
    BY <2>1
  <2>3. \A j, k \in S : r[j] = r[k] => j = k
    BY RanksDiffer
  <2> HIDE DEF T
  <2> QED BY <2>2, <2>3 DEF Injection, IsInjective
<1>4. IsFiniteSet(T) /\ Cardinality(T) = n
  <2> HIDE DEF n
  <2>1. 0 \in Int /\ n - 1 \in Int /\ (IF 0 > n - 1 THEN 0 ELSE n - 1 - 0 + 1) = n
    BY <1>1
  <2> QED BY <2>1, FS_Interval
<1>5. r \in Surjection(S, T)
  <2> HIDE DEF T, r
  <2> QED BY <1>3, <1>4, FS_Injection DEF n
<1>6. \A i \in T : \E k \in S : r[k] = i
  BY <1>5 DEF Surjection
<1> QED BY <1>1, <1>2, <1>6

\* A page has no more keys than asked for, and none is left out before one of them.
LEMMA PagesAre ==
  ASSUME NEW S \in SUBSET Nat, NEW n \in Nat
  PROVE  /\ FirstOf(S, n) \in SUBSET S
         /\ IsFiniteSet(FirstOf(S, n)) /\ Cardinality(FirstOf(S, n)) <= n
         /\ \A k \in FirstOf(S, n), j \in S : j <= k => j \in FirstOf(S, n)
         /\ S # {} /\ n > 0 => FirstOf(S, n) # {}
<1> DEFINE F == FirstOf(S, n)
           T == 0..(n - 1)
           r == [k \in F |-> Rank(S, k)]
<1>1. F = {k \in S : Rank(S, k) < n}
  BY DEF FirstOf, Rank
<1>2. F \in SUBSET S
  BY <1>1
<1>3. r \in Injection(F, T)
  <2> HIDE DEF F
  <2>1. \A k \in F : Rank(S, k) \in T
    <3> TAKE k \in F
    <3>1. Rank(S, k) \in Nat /\ Rank(S, k) < n
      BY <1>1, RanksGrow
    <3> QED BY <3>1
  <2>2. r \in [F -> T]
    BY <2>1
  <2>3. \A j, k \in F : r[j] = r[k] => j = k
    BY <1>2, RanksDiffer
  <2> HIDE DEF T
  <2> QED BY <2>2, <2>3 DEF Injection, IsInjective
<1>4. IsFiniteSet(T) /\ Cardinality(T) = n
  <2>1. 0 \in Int /\ n - 1 \in Int /\ (IF 0 > n - 1 THEN 0 ELSE n - 1 - 0 + 1) = n
    OBVIOUS
  <2> QED BY <2>1, FS_Interval
<1>5. IsFiniteSet(F) /\ Cardinality(F) <= n
  <2> HIDE DEF T, r, F
  <2> QED BY <1>3, <1>4, FS_Injection
<1>6. ASSUME NEW k \in F, NEW j \in S, j <= k PROVE j \in F
  <2> HIDE DEF F
  <2>1. k \in S /\ Rank(S, k) < n /\ Rank(S, k) \in Nat /\ Rank(S, j) \in Nat
    BY <1>1, RanksGrow
  <2>2. j = k \/ Rank(S, j) < Rank(S, k)
    BY <1>6, <2>1, RanksGrow
  <2>3. Rank(S, j) < n
    BY <2>1, <2>2
  <2> QED BY <1>1, <2>3
<1>7. ASSUME S # {}, n > 0 PROVE F # {}
  <2>1. PICK k \in S : TRUE
    BY <1>7
  <2> DEFINE U == {j \in S : j <= k}
  <2>2. U \in SUBSET Nat /\ (\A j \in U : j <= k) /\ k \in U
    <3>1. k <= k /\ k \in Nat
      BY <2>1
    <3> QED BY <2>1, <3>1
  <2> HIDE DEF U
  <2>3. IsFiniteSet(U)
    BY <2>1, <2>2, FS_BoundedSetOfNaturals
  <2>4. Cardinality(U) \in Nat /\ Cardinality(U) # 0
    BY <2>2, <2>3, FS_EmptySet, FS_CardinalityType
  <2>5. 0 \in 0..(Cardinality(U) - 1)
    BY <2>4
  <2>6. PICK x \in U : Rank(U, x) = 0
    BY <2>2, <2>3, <2>5, RanksTaken
  <2>7. x \in S /\ x <= k
    BY <2>6 DEF U
  <2>8. \A j \in S : j < x <=> j \in U /\ j < x
    BY <2>1, <2>7 DEF U
  <2>9. {j \in S : j < x} = {j \in U : j < x}
    BY <2>8 DEF U
  <2>10. Rank(S, x) = 0
    BY <2>6, <2>9 DEF Rank
  <2> QED BY <1>1, <1>7, <2>7, <2>10
<1> QED BY <1>2, <1>5, <1>6, <1>7

\* The last key.
LEMMA LastIs ==
  ASSUME NEW S \in SUBSET Nat, IsFiniteSet(S), S # {}
  PROVE  LastOf(S) \in S /\ \A j \in S : j <= LastOf(S)
<1>1. Cardinality(S) \in Nat /\ Cardinality(S) # 0
  BY FS_EmptySet, FS_CardinalityType
<1>2. Cardinality(S) - 1 \in 0..(Cardinality(S) - 1)
  BY <1>1
<1>3. PICK x \in S : Rank(S, x) = Cardinality(S) - 1
  BY <1>2, RanksTaken
<1>4. ASSUME NEW j \in S PROVE j <= x
  <2>1. Rank(S, j) \in Nat /\ Rank(S, j) < Cardinality(S)
    BY RanksTaken, RanksGrow
  <2>2. Rank(S, j) <= Rank(S, x)
    BY <1>1, <1>3, <2>1
  <2> QED BY <2>2, RanksOrder
<1> QED BY <1>4, Zenon DEF LastOf

\* The lines of a page are its keys in order.
LEMMA LinesAre ==
  ASSUME NEW S \in SUBSET Nat, IsFiniteSet(S)
  PROVE  /\ Cardinality(S) \in Nat
         /\ Lines(S) \in Seq(Nat) /\ Len(Lines(S)) = Cardinality(S)
         /\ \A i \in 1..Cardinality(S) : Lines(S)[i] \in S
         /\ \A i \in 1..(Cardinality(S) - 1) : Lines(S)[i] < Lines(S)[i + 1]
         /\ \A k \in S : \E i \in 1..Cardinality(S) : Lines(S)[i] = k
<1> DEFINE n == Cardinality(S)
           l == Lines(S)
<1>1. /\ n \in Nat /\ \A k \in S : Rank(S, k) < n /\ Rank(S, k) \in Nat
      /\ \A i \in 0..(n - 1) : \E k \in S : Rank(S, k) = i
  BY RanksTaken, RanksGrow
<1>2. l = [i \in 1..n |-> LastOf(FirstOf(S, i))]
  BY DEF Lines
<1> HIDE DEF n, l
<1>3. ASSUME NEW i \in 1..n PROVE l[i] \in S /\ Rank(S, l[i]) = i - 1
  <2> DEFINE F == FirstOf(S, i)
  <2>1. i \in Nat /\ i > 0 /\ i - 1 \in 0..(n - 1)
    BY <1>1
  <2>2. PICK x \in S : Rank(S, x) = i - 1
    BY <1>1, <2>1
  <2>3. F = {k \in S : Rank(S, k) < i}
    BY DEF FirstOf, Rank
  <2>4. x \in F
    BY <2>1, <2>2, <2>3
  <2>5. F \in SUBSET S /\ IsFiniteSet(F)
    BY <2>1, PagesAre
  <2> HIDE DEF F
  <2>6. LastOf(F) \in F /\ x <= LastOf(F)
    BY <2>4, <2>5, LastIs
  <2>7. LastOf(F) \in S /\ Rank(S, LastOf(F)) < i /\ Rank(S, LastOf(F)) \in Nat
    BY <1>1, <2>3, <2>6
  <2>8. Rank(S, LastOf(F)) <= Rank(S, x)
    BY <2>1, <2>2, <2>7
  <2>9. LastOf(F) <= x
    BY <2>7, <2>8, RanksOrder
  <2>10. LastOf(F) = x
    <3>1. LastOf(F) \in Nat /\ x \in Nat
      BY <2>2, <2>7
    <3> QED BY <2>6, <2>9, <3>1
  <2> QED BY <1>2, <2>2, <2>10 DEF F
<1>4. l \in Seq(Nat) /\ Len(l) = n
  <2>1. l \in [1..n -> Nat]
    BY <1>2, <1>3
  <2>2. l \in Seq(Nat)
    BY <1>1, <2>1, SeqDef
  <2> QED BY <1>1, <2>1, <2>2, LenProperties
<1>5. ASSUME NEW i \in 1..(n - 1) PROVE l[i] < l[i + 1]
  <2>1. i \in 1..n /\ i + 1 \in 1..n /\ i - 1 \in Int /\ (i + 1) - 1 = i
    BY <1>1
  <2>2. l[i] \in S /\ l[i + 1] \in S /\ Rank(S, l[i]) = i - 1 /\ Rank(S, l[i + 1]) = i
    BY <1>3, <2>1
  <2>3. Rank(S, l[i]) <= Rank(S, l[i + 1]) /\ Rank(S, l[i]) # Rank(S, l[i + 1])
    BY <2>1, <2>2
  <2>4. l[i] <= l[i + 1] /\ l[i] # l[i + 1]
    BY <2>2, <2>3, RanksOrder
  <2>5. l[i] \in Nat /\ l[i + 1] \in Nat
    BY <2>2
  <2> QED BY <2>4, <2>5
<1>6. ASSUME NEW k \in S PROVE \E i \in 1..n : l[i] = k
  <2> DEFINE i == Rank(S, k) + 1
  <2>1. i \in 1..n /\ i - 1 = Rank(S, k)
    BY <1>1
  <2> HIDE DEF i
  <2>2. l[i] \in S /\ Rank(S, l[i]) = Rank(S, k)
    BY <1>3, <2>1
  <2>3. l[i] = k
    <3> DEFINE j == l[i]
    <3>1. j \in S /\ Rank(S, j) = Rank(S, k)
      BY <2>2
    <3> HIDE DEF j
    <3>2. j = k
      BY <3>1, RanksDiffer
    <3> QED BY <3>2 DEF j
  <2> QED BY <2>1, <2>3
<1> QED BY <1>1, <1>3, <1>4, <1>5, <1>6 DEF n, l

(***************************************************************************)
(* list: lines, pages and counts.                                           *)
(***************************************************************************)
Listings ==
  [proc : {"list"}, maxkeys : Nat, nextMarker : Nat, keyCount : Nat, isTruncated : BOOLEAN,
   page : SUBSET Keys, truncated : BOOLEAN, printed : Seq(Nat), stable : SUBSET Keys,
   served : BOOLEAN, done : BOOLEAN]

\* Lines as they should be, and a line for k.
InOrder(lines) ==
  /\ \A i \in 1..Len(lines) : lines[i] = 0 <=> i = 1
  /\ \A i \in 2..(Len(lines) - 1) : lines[i] < lines[i + 1]

HasLine(lines, k) == \E i \in 1..Len(lines) : lines[i] = k

\* A listing that goes on, over these objects: up to the marker it has printed
\* what stayed there; what stayed behind it is in the page, or behind a page
\* that says that there is more.
ListingOK(c, objects) ==
  /\ c.keyCount = 0 => c.printed = <<>>
  /\ c.keyCount > 0 => Len(c.printed) > 0
  /\ \A i \in 2..Len(c.printed) : c.printed[i] <= c.nextMarker
  /\ \A k \in c.page : k > c.nextMarker
  /\ \A k \in c.stable :
       /\ objects[k] # None
       /\ k <= c.nextMarker => HasLine(c.printed, k)
       /\ k > c.nextMarker /\ c.page # {} => k \in c.page \/ (c.truncated /\ \A j \in c.page : j < k)
       /\ k > c.nextMarker /\ c.served => c.isTruncated
  /\ c.served => c.page = {}

\* A request adds at most one answer to a count that was below maxkeys before
\* the first of the requests for it; retries are those used up.
CountOK(c, retries) ==
  c.maxkeys > 0 =>
    IF c.page = {} /\ ~c.served
    THEN c.keyCount < c.maxkeys + retries * Limit(c.maxkeys)
    ELSE c.keyCount + Cardinality(c.page) < c.maxkeys + (1 + retries) * Limit(c.maxkeys)

Used == MaxRetries - retriesG

ListInv ==
  /\ retriesG \in Int /\ Used \in Nat
  /\ cmd # None => commands > 0
  /\ commands > 0 /\ cmd.proc = "list" =>
       /\ cmd \in Listings /\ IsFiniteSet(cmd.page) /\ InOrder(cmd.printed)
       /\ CountOK(cmd, Used)
       /\ running => ListingOK(cmd, bucket)
       /\ ~running /\ statusG = "OK" /\ cmd.maxkeys = 0 =>
            \A k \in cmd.stable : HasLine(cmd.printed, k)

\* An answer has room for a key.
LEMMA Limits ==
  ASSUME NEW maxkeys \in Nat
  PROVE  Limit(maxkeys) \in Nat /\ Limit(maxkeys) > 0
BY S3ClientAssumption DEF Limit

\* Every retry makes room for one answer.
LEMMA Room ==
  ASSUME NEW u \in Nat, NEW l \in Nat
  PROVE  /\ u * l \in Nat /\ (1 + u) * l \in Nat
         /\ (1 + u) * l = u * l + l
         /\ u * l <= (1 + u) * l
<1>1. u * l \in Nat /\ (1 + u) * l = u * l + l
  OBVIOUS
<1> DEFINE p == u * l
<1> HIDE DEF p
<1>2. p \in Nat /\ (1 + u) * l = p + l
  BY <1>1 DEF p
<1>3. p + l \in Nat /\ p <= p + l
  BY <1>2
<1> QED BY <1>2, <1>3 DEF p

\* Lines that a page adds.
LEMMA MoreLines ==
  ASSUME NEW lines \in Seq(Nat), Len(lines) > 0, InOrder(lines), NEW marker \in Nat,
         \A i \in 2..Len(lines) : lines[i] <= marker,
         NEW S \in SUBSET Nat, IsFiniteSet(S), \A k \in S : k > marker
  PROVE  LET new == lines \o Lines(S)
         IN  /\ new \in Seq(Nat) /\ Len(new) = Len(lines) + Cardinality(S)
             /\ InOrder(new)
             /\ \A i \in 1..Len(lines) : new[i] = lines[i]
             /\ \A i \in (Len(lines) + 1)..Len(new) : new[i] \in S
             /\ \A k \in S : HasLine(new, k)
<1> DEFINE m == Len(lines)
           n == Cardinality(S)
           l == Lines(S)
           new == lines \o l
<1>1. m \in Nat /\ m > 0 /\ DOMAIN lines = 1..m /\ \A i \in 1..m : lines[i] \in Nat
  BY LenProperties
<1>2. /\ n \in Nat /\ l \in Seq(Nat) /\ Len(l) = n
      /\ \A i \in 1..n : l[i] \in S
      /\ \A i \in 1..(n - 1) : l[i] < l[i + 1]
      /\ \A k \in S : \E i \in 1..n : l[i] = k
  BY LinesAre
<1>3. /\ (\A i \in 1..m : lines[i] = 0 <=> i = 1) /\ (\A i \in 2..(m - 1) : lines[i] < lines[i + 1])
      /\ \A i \in 2..m : lines[i] <= marker
  BY DEF InOrder
<1> HIDE DEF m, n, l
<1>4. /\ new \in Seq(Nat) /\ Len(new) = m + n
      /\ \A i \in 1..(m + n) : new[i] = IF i <= m THEN lines[i] ELSE l[i - m]
  <2>1. /\ lines \o l \in Seq(Nat) /\ Len(lines \o l) = Len(lines) + Len(l)
        /\ \A i \in 1..(Len(lines) + Len(l)) :
             (lines \o l)[i] = IF i <= Len(lines) THEN lines[i] ELSE l[i - Len(lines)]
    <3>1. lines \in Seq(Nat) /\ l \in Seq(Nat)
      BY <1>2
    <3> QED BY <3>1, ConcatProperties
  <2> QED BY <1>2, <2>1 DEF m
<1> HIDE DEF new
<1>5. \A i \in 1..m : new[i] = lines[i]
  BY <1>1, <1>2, <1>4
<1>6. ASSUME NEW i \in (m + 1)..(m + n) PROVE new[i] = l[i - m] /\ i - m \in 1..n /\ new[i] \in S /\ new[i] > marker
  <2>1. i \in 1..(m + n) /\ ~(i <= m) /\ i - m \in 1..n
    BY <1>1, <1>2
  <2>2. new[i] = l[i - m]
    BY <1>4, <2>1
  <2> QED BY <1>2, <2>1, <2>2
<1>7. \A i \in 1..Len(new) : new[i] = 0 <=> i = 1
  <2> TAKE i \in 1..Len(new)
  <2>1. CASE i <= m
    <3>1. i \in 1..m
      BY <1>1, <1>2, <1>4, <2>1
    <3> QED BY <1>3, <1>5, <3>1
  <2>2. CASE ~(i <= m)
    <3>1. i \in (m + 1)..(m + n) /\ i # 1
      BY <1>1, <1>2, <1>4, <2>2
    <3>2. new[i] \in Nat /\ new[i] > marker
      BY <1>6, <3>1
    <3>3. new[i] # 0
      BY <3>2
    <3> QED BY <3>1, <3>3
  <2> QED BY <2>1, <2>2
<1>8. \A i \in 2..(Len(new) - 1) : new[i] < new[i + 1]
  <2> TAKE i \in 2..(Len(new) - 1)
  <2>0. i \in Nat /\ i >= 2 /\ i + 1 <= m + n
    BY <1>1, <1>2, <1>4
  <2>1. CASE i < m
    <3>1. i \in 2..(m - 1) /\ i \in 1..m /\ i + 1 \in 1..m
      BY <1>1, <2>0, <2>1
    <3> QED BY <1>3, <1>5, <3>1
  <2>2. CASE i = m
    <3>1. i \in 2..m /\ i \in 1..m /\ i + 1 \in (m + 1)..(m + n)
      BY <1>1, <1>2, <2>0, <2>2
    <3>2. new[i] \in Nat /\ new[i] <= marker /\ new[i + 1] \in Nat /\ new[i + 1] > marker
      BY <1>1, <1>3, <1>5, <1>6, <3>1
    <3> QED BY <3>2
  <2>3. CASE i > m
    <3>1. i \in (m + 1)..(m + n) /\ i + 1 \in (m + 1)..(m + n) /\ i - m \in 1..(n - 1) /\ (i + 1) - m = (i - m) + 1
      BY <1>1, <1>2, <2>0, <2>3
    <3>2. new[i] = l[i - m] /\ new[i + 1] = l[(i + 1) - m]
      BY <1>6, <3>1
    <3> QED BY <1>2, <3>1, <3>2
  <2> QED BY <1>1, <2>0, <2>1, <2>2, <2>3
<1>9. ASSUME NEW k \in S PROVE HasLine(new, k)
  <2>1. PICK i \in 1..n : l[i] = k
    BY <1>2
  <2> DEFINE j == m + i
  <2>2. j \in 1..(m + n) /\ ~(j <= m) /\ j - m = i
    BY <1>1, <1>2
  <2> HIDE DEF j
  <2>3. new[j] = k
    BY <1>4, <2>1, <2>2
  <2> QED BY <1>4, <2>2, <2>3 DEF HasLine
<1> QED BY <1>4, <1>5, <1>6, <1>7, <1>8, <1>9 DEF InOrder, m, n, l, new

\* A listing begins with nothing printed and nothing to come.
LEMMA ListStarts ==
  ASSUME StoreInv, ListInv, NEW maxkeys \in Nat, NEW marker \in Keys \cup {NullMarker},
         ListBegins(maxkeys, marker)
  PROVE  ListInv'
<1>1. /\ cmd' = [proc |-> "list", maxkeys |-> maxkeys, nextMarker |-> marker, keyCount |-> 0,
                 isTruncated |-> FALSE, page |-> {}, truncated |-> FALSE, printed |-> <<>>,
                 stable |-> Behind(marker), served |-> FALSE, done |-> FALSE]
      /\ retriesG' \in 0..MaxRetries /\ running' = TRUE /\ commands' = commands + 1 /\ bucket' = bucket
  BY DEF ListBegins, Starts, clientVars
<1>2. retriesG' \in Int /\ Used' \in Nat
  <2>1. retriesG' \in 0..MaxRetries
    BY <1>1
  <2>2. retriesG' \in Int /\ MaxRetries - retriesG' \in Nat
    <3>1. PICK r \in 0..MaxRetries : retriesG' = r
      BY <2>1
    <3>2. r \in Int /\ MaxRetries - r \in Nat
      BY S3RequestsAssumption
    <3> QED BY <3>1, <3>2
  <2> QED BY <2>2 DEF Used
<1>3. marker \in Nat /\ Keys \subseteq Nat /\ <<>> \in Seq(Nat) /\ Len(<<>>) = 0
  BY S3ClientAssumption, EmptySeq
<1>4. Behind(marker) \in SUBSET Keys
  BY DEF Behind
<1>5. /\ cmd' \in Listings /\ cmd'.maxkeys = maxkeys /\ cmd'.nextMarker = marker /\ cmd'.keyCount = 0
      /\ cmd'.page = {} /\ ~cmd'.served /\ cmd'.printed = <<>> /\ cmd'.stable = Behind(marker)
  BY <1>1, <1>3, <1>4 DEF Listings
<1>6. IsFiniteSet({})
  BY FS_EmptySet
<1>7. InOrder(<<>>)
  BY <1>3 DEF InOrder
<1>8. CountOK(cmd', Used')
  <2>1. maxkeys > 0 => 0 < maxkeys + Used' * Limit(maxkeys)
    <3> DEFINE u == Used'
               room == u * Limit(maxkeys)
    <3>1. Limit(maxkeys) \in Nat /\ u \in Nat
      BY <1>2, Limits
    <3> HIDE DEF u
    <3>2. room \in Nat
      BY <3>1, Room
    <3> HIDE DEF room
    <3>3. maxkeys > 0 => 0 < maxkeys + room
      BY <3>2
    <3> QED BY <3>3 DEF room, u
  <2> QED BY <1>5, <2>1 DEF CountOK
<1>9. ListingOK(cmd', bucket')
  <2>1. \A k \in Behind(marker) : bucket[k] # None /\ k > marker /\ ~(k <= marker)
    BY <1>3 DEF Behind
  <2> QED BY <1>1, <1>3, <1>5, <2>1 DEF ListingOK
<1>10. commands' > 0 /\ running'
  BY <1>1 DEF StoreInv
<1> QED BY <1>2, <1>5, <1>6, <1>7, <1>8, <1>9, <1>10 DEF ListInv

\* What a step of a listing has to bring about.
LEMMA ListGoesOn ==
  ASSUME ListInv, running, commands > 0, cmd.proc = "list", UNCHANGED <<retriesG, commands>>,
         cmd' \in Listings, IsFiniteSet(cmd'.page), InOrder(cmd'.printed),
         CountOK(cmd', Used), running', ListingOK(cmd', bucket')
  PROVE  ListInv'
BY DEF ListInv, Used

\* The server answers with the next keys.
LEMMA ListServesKeeps ==
  ASSUME StoreInv, ListInv, ListServes
  PROVE  ListInv'
<1> DEFINE c == cmd
           limit == Limit(c.maxkeys)
           left == Behind(c.nextMarker)
           page == FirstOf(left, limit)
           truncated == page # left
           served == page = {}
           d == [c EXCEPT !.page = page, !.truncated = truncated, !.served = served, !.done = TRUE]
<1>1. /\ running /\ running' /\ c.proc = "list" /\ c.page = {} /\ ~c.served /\ cmd' = d
      /\ UNCHANGED <<bucket, retriesG, commands>>
  BY DEF ListServes, Serving, Runs, Continues, clientVars
<1>2. /\ commands > 0 /\ c \in Listings /\ InOrder(c.printed) /\ CountOK(c, Used) /\ ListingOK(c, bucket)
      /\ Used \in Nat
  BY <1>1 DEF StoreInv, ListInv
<1>3. /\ c.maxkeys \in Nat /\ c.nextMarker \in Nat /\ c.keyCount \in Nat /\ c.stable \in SUBSET Keys
      /\ Keys \subseteq Nat
  BY <1>2, S3ClientAssumption DEF Listings
<1>4. limit \in Nat /\ limit > 0
  BY <1>3, Limits
<1>5. left \in SUBSET Keys /\ \A k \in Keys : k \in left <=> bucket[k] # None /\ k > c.nextMarker
  BY DEF Behind
<1>6. /\ page \in SUBSET left /\ IsFiniteSet(page) /\ Cardinality(page) <= limit
      /\ \A k \in page, j \in left : j <= k => j \in page
      /\ left # {} => page # {}
  <2> HIDE DEF limit, left
  <2>1. left \in SUBSET Nat
    BY <1>3, <1>5
  <2> QED BY <1>4, <2>1, PagesAre
<1>7. truncated \in BOOLEAN /\ served \in BOOLEAN
  BY Zenon DEF truncated, served
<1> HIDE DEF left, page, limit, truncated, served
<1>8. /\ d \in Listings /\ d.page = page /\ d.truncated = truncated /\ d.served = served
      /\ d.maxkeys = c.maxkeys /\ d.nextMarker = c.nextMarker /\ d.keyCount = c.keyCount
      /\ d.printed = c.printed /\ d.stable = c.stable
  BY <1>2, <1>5, <1>6, <1>7 DEF Listings
<1> HIDE DEF d
<1>9. CountOK(d, Used)
  <2>1. SUFFICES ASSUME c.maxkeys > 0
                 PROVE  IF page = {} /\ ~served
                        THEN c.keyCount < c.maxkeys + Used * limit
                        ELSE c.keyCount + Cardinality(page) < c.maxkeys + (1 + Used) * limit
    BY <1>8 DEF CountOK, limit
  <2>2. c.keyCount < c.maxkeys + Used * limit
    BY <1>1, <1>2, <2>1 DEF CountOK, limit
  <2>3. Cardinality(page) \in Nat
    BY <1>6, FS_CardinalityType
  <2>4. Used * limit \in Nat /\ (1 + Used) * limit = Used * limit + limit
    BY <1>2, <1>4, Room
  <2> DEFINE room == Used * limit
  <2> HIDE DEF room
  <2>5. c.keyCount + Cardinality(page) < c.maxkeys + (room + limit)
    BY <1>3, <1>4, <1>6, <2>2, <2>3, <2>4 DEF room
  <2> QED BY <2>2, <2>4, <2>5 DEF room
<1>10. ListingOK(d, bucket)
  <2>1. \A k \in page : k > c.nextMarker
    BY <1>5, <1>6
  <2>2. ASSUME NEW k \in c.stable, k > c.nextMarker
        PROVE  page # {} /\ (k \in page \/ (truncated /\ \A j \in page : j < k))
    <3>1. k \in left
      BY <1>2, <1>3, <1>5, <2>2 DEF ListingOK
    <3>2. CASE k \in page
      BY <3>2
    <3>3. CASE k \notin page
      <4>1. truncated
        BY <3>1, <3>3 DEF truncated
      <4>2. ASSUME NEW j \in page PROVE j < k
        <5>1. j \in Nat /\ k \in Nat
          BY <1>3, <1>5, <1>6
        <5>2. ~(k <= j)
          BY <1>6, <3>1, <3>3
        <5> QED BY <5>1, <5>2
      <4> QED BY <1>6, <3>1, <4>1, <4>2
    <3> QED BY <3>2, <3>3
  <2>3. \A k \in c.stable : bucket[k] # None /\ (k <= c.nextMarker => HasLine(c.printed, k))
    BY <1>2 DEF ListingOK
  <2> QED BY <1>2, <1>8, <2>1, <2>2, <2>3 DEF ListingOK, served
<1> QED BY <1>1, <1>2, <1>6, <1>8, <1>9, <1>10, ListGoesOn

\* listBucketCallback prints the next keys of the page and keeps the last.
LEMMA ListCallbackKeeps ==
  ASSUME StoreInv, ListInv, NEW n \in 1..PageSize, ListCallback(n)
  PROVE  ListInv'
<1> DEFINE c == cmd
           contents == FirstOf(c.page, n)
           marker == LastOf(contents)
           count == c.keyCount + Cardinality(contents)
           header == IF c.keyCount = 0 THEN ListHeader ELSE <<>>
           printed == c.printed \o header \o Lines(contents)
           rest == c.page \ contents
           served == contents = c.page
           d == [c EXCEPT !.isTruncated = c.truncated, !.nextMarker = marker, !.keyCount = count,
                          !.printed = printed, !.page = rest, !.served = served]
<1>1. /\ running /\ running' /\ c.proc = "list" /\ c.page # {} /\ cmd' = d
      /\ UNCHANGED <<bucket, retriesG, commands>>
  BY DEF ListCallback, Serving, Runs, Continues, clientVars
<1>2. /\ commands > 0 /\ c \in Listings /\ InOrder(c.printed) /\ CountOK(c, Used) /\ ListingOK(c, bucket)
      /\ Used \in Nat /\ IsFiniteSet(c.page)
  BY <1>1 DEF StoreInv, ListInv
<1>3. /\ c.maxkeys \in Nat /\ c.nextMarker \in Nat /\ c.keyCount \in Nat /\ c.stable \in SUBSET Keys
      /\ c.page \in SUBSET Keys /\ Keys \subseteq Nat /\ c.page \in SUBSET Nat /\ c.printed \in Seq(Nat)
      /\ c.truncated \in BOOLEAN /\ ~c.served
      /\ n \in Nat /\ n > 0
  BY <1>1, <1>2, S3ClientAssumption DEF Listings, ListingOK
<1>4. /\ contents \in SUBSET c.page /\ contents \in SUBSET Nat /\ IsFiniteSet(contents) /\ contents # {}
      /\ \A k \in contents, j \in c.page : j <= k => j \in contents
  <2> DEFINE page == c.page
  <2>1. page \in SUBSET Nat /\ page # {}
    BY <1>1, <1>3
  <2> HIDE DEF page
  <2>2. /\ FirstOf(page, n) \in SUBSET page /\ IsFiniteSet(FirstOf(page, n)) /\ FirstOf(page, n) # {}
        /\ \A k \in FirstOf(page, n), j \in page : j <= k => j \in FirstOf(page, n)
    BY <1>3, <2>1, PagesAre
  <2> QED BY <1>3, <2>2 DEF page
<1> HIDE DEF contents
<1>5. marker \in contents /\ marker \in Nat /\ \A k \in contents : k <= marker
  BY <1>4, LastIs
<1>6. \A k \in c.page : k > c.nextMarker
  BY <1>2 DEF ListingOK
<1>7. \A k \in c.page : k \in contents <=> k <= marker
  BY <1>4, <1>5
<1> HIDE DEF marker
<1>8. PICK lines \in Seq(Nat) :
        /\ c.printed \o header = lines /\ Len(lines) > 0 /\ InOrder(lines)
        /\ \A i \in 2..Len(lines) : lines[i] <= c.nextMarker
        /\ \A k : HasLine(c.printed, k) => HasLine(lines, k)
  <2>1. CASE c.keyCount = 0
    <3>1. c.printed = <<>> /\ header = <<0>>
      BY <1>2, <2>1 DEF ListingOK, ListHeader
    <3>2. <<0>> \in Seq(Nat) /\ <<>> \o <<0>> = <<0>> /\ Len(<<0>>) = 1 /\ Len(<<>>) = 0
      <4>1. <<0>> \in Seq(Nat)
        OBVIOUS
      <4> QED BY <4>1, ConcatEmptySeq, EmptySeq
    <3>3. InOrder(<<0>>) /\ (\A i \in 2..Len(<<0>>) : <<0>>[i] <= c.nextMarker)
      BY <3>2 DEF InOrder
    <3>4. \A k : ~HasLine(<<>>, k)
      BY <3>2 DEF HasLine
    <3> QED BY <3>1, <3>2, <3>3, <3>4
  <2>2. CASE c.keyCount # 0
    <3>1. header = <<>> /\ c.printed \o header = c.printed
      BY <1>3, <2>2, ConcatEmptySeq
    <3> QED BY <1>2, <1>3, <2>2, <3>1 DEF ListingOK
  <2> QED BY <2>1, <2>2
<1>9. printed = lines \o Lines(contents)
  BY <1>8
<1> HIDE DEF printed, header
<1>10. /\ printed \in Seq(Nat) /\ Len(printed) = Len(lines) + Cardinality(contents) /\ InOrder(printed)
       /\ \A i \in 1..Len(lines) : printed[i] = lines[i]
       /\ \A i \in (Len(lines) + 1)..Len(printed) : printed[i] \in contents
       /\ \A k \in contents : HasLine(printed, k)
  <2> DEFINE m == c.nextMarker
  <2>1. m \in Nat /\ (\A i \in 2..Len(lines) : lines[i] <= m) /\ \A k \in contents : k > m
    BY <1>3, <1>4, <1>6, <1>8
  <2> HIDE DEF m
  <2> DEFINE new == lines \o Lines(contents)
  <2>2. /\ new \in Seq(Nat) /\ Len(new) = Len(lines) + Cardinality(contents)
        /\ InOrder(new)
        /\ \A i \in 1..Len(lines) : new[i] = lines[i]
        /\ \A i \in (Len(lines) + 1)..Len(new) : new[i] \in contents
        /\ \A k \in contents : HasLine(new, k)
    BY <1>4, <1>8, <2>1, MoreLines
  <2> HIDE DEF new
  <2>3. printed = new
    BY <1>9 DEF new
  <2> QED BY <2>2, <2>3
<1>11. Cardinality(contents) \in Nat /\ Cardinality(contents) > 0
  <2>1. Cardinality(contents) \in Nat /\ Cardinality(contents) # 0
    BY <1>4, FS_CardinalityType, FS_EmptySet
  <2> QED BY <2>1
<1>12. IsFiniteSet(rest) /\ Cardinality(c.page) = Cardinality(rest) + Cardinality(contents)
  <2>1. IsFiniteSet(rest)
    BY <1>2, FS_Subset
  <2>2. rest \cup contents = c.page /\ rest \cap contents = {}
    BY <1>4
  <2>3. Cardinality(c.page) = Cardinality(rest) + Cardinality(contents) - Cardinality({})
    <3> HIDE DEF rest
    <3>1. Cardinality(rest \cup contents) = Cardinality(rest) + Cardinality(contents) - Cardinality(rest \cap contents)
      BY <1>4, <2>1, FS_Union
    <3> QED BY <2>2, <3>1, Zenon
  <2>4. Cardinality({}) = 0 /\ Cardinality(rest) \in Nat
    BY <2>1, FS_EmptySet, FS_CardinalityType
  <2> HIDE DEF rest
  <2> QED BY <1>11, <2>1, <2>2, <2>3, <2>4
<1>13. served \in BOOLEAN /\ (served <=> rest = {}) /\ count \in Nat /\ count > 0
  <2>1. served \in BOOLEAN /\ (served <=> rest = {})
    BY <1>4, Zenon
  <2>2. count \in Nat /\ count > 0
    BY <1>3, <1>11
  <2> QED BY <2>1, <2>2
<1>14. rest \in SUBSET Keys /\ \A k \in rest : k \in c.page /\ k > marker
  <2>1. \A k \in rest : k \in c.page /\ k \in Nat /\ ~(k <= marker)
    BY <1>3, <1>7
  <2> QED BY <1>3, <1>5, <2>1
<1> DEFINE truncated == c.truncated
<1>15. /\ d \in Listings /\ d.page = rest /\ d.truncated = c.truncated /\ d.isTruncated = c.truncated
       /\ d.served = served /\ d.maxkeys = c.maxkeys /\ d.nextMarker = marker /\ d.keyCount = count
       /\ d.printed = printed /\ d.stable = c.stable
  <2> HIDE DEF served, rest, count, truncated
  <2>1. d = [c EXCEPT !.isTruncated = truncated, !.nextMarker = marker, !.keyCount = count,
                      !.printed = printed, !.page = rest, !.served = served]
    BY DEF truncated
  <2>2. truncated \in BOOLEAN
    BY <1>3 DEF truncated
  <2> HIDE DEF d
  <2>3. d \in Listings /\ d.page = rest /\ d.truncated = c.truncated /\ d.isTruncated = truncated
        /\ d.served = served /\ d.maxkeys = c.maxkeys /\ d.nextMarker = marker /\ d.keyCount = count
        /\ d.printed = printed /\ d.stable = c.stable
    BY <1>2, <1>5, <1>10, <1>13, <1>14, <2>1, <2>2 DEF Listings
  <2> QED BY <2>3 DEF truncated
<1> HIDE DEF d
<1>16. CountOK(d, Used)
  <2>1. SUFFICES ASSUME c.maxkeys > 0
                 PROVE  count + Cardinality(rest) < c.maxkeys + (1 + Used) * Limit(c.maxkeys)
    BY <1>13, <1>15 DEF CountOK
  <2>2. c.keyCount + Cardinality(c.page) < c.maxkeys + (1 + Used) * Limit(c.maxkeys)
    BY <1>1, <1>2, <2>1 DEF CountOK
  <2>3. count + Cardinality(rest) = c.keyCount + Cardinality(c.page)
    <3>1. Cardinality(rest) \in Nat
      BY <1>12, FS_CardinalityType
    <3> HIDE DEF rest
    <3> QED BY <1>3, <1>11, <1>12, <3>1
  <2> QED BY <2>2, <2>3
<1>17. ListingOK(d, bucket)
  <2>1. \A i \in 2..Len(printed) : printed[i] <= marker
    <3> TAKE i \in 2..Len(printed)
    <3>0. Len(lines) \in Nat /\ Len(printed) \in Nat /\ c.nextMarker < marker
      BY <1>4, <1>5, <1>6, <1>8, <1>10, LenProperties
    <3>1. CASE i <= Len(lines)
      <4>1. i \in 2..Len(lines) /\ i \in 1..Len(lines)
        BY <3>0, <3>1
      <4>2. printed[i] = lines[i] /\ lines[i] <= c.nextMarker /\ lines[i] \in Nat
        BY <1>8, <1>10, <4>1, ElementOfSeq
      <4> QED BY <1>3, <1>5, <3>0, <4>2
    <3>2. CASE ~(i <= Len(lines))
      <4>1. i \in (Len(lines) + 1)..Len(printed)
        BY <3>0, <3>2
      <4> QED BY <1>5, <1>10, <4>1
    <3> QED BY <3>1, <3>2
  <2>2. Len(printed) > 0
    <3>1. Len(lines) \in Nat
      BY <1>8, LenProperties
    <3> QED BY <1>8, <1>10, <1>11, <3>1
  <2>3. ASSUME NEW k \in c.stable
        PROVE  /\ bucket[k] # None
               /\ k <= marker => HasLine(printed, k)
               /\ k > marker /\ rest # {} => k \in rest \/ (c.truncated /\ \A j \in rest : j < k)
               /\ k > marker /\ served => c.truncated
    <3>1. /\ bucket[k] # None /\ k \in Nat
          /\ k <= c.nextMarker => HasLine(c.printed, k)
          /\ k > c.nextMarker => k \in c.page \/ (c.truncated /\ \A j \in c.page : j < k)
      BY <1>1, <1>2, <1>3 DEF ListingOK
    <3>2. ASSUME k <= marker PROVE HasLine(printed, k)
      <4>1. CASE k <= c.nextMarker
        <5>1. PICK i \in 1..Len(lines) : lines[i] = k
          BY <1>8, <3>1, <4>1 DEF HasLine
        <5>2. i \in 1..Len(printed) /\ printed[i] = k
          <6>1. Len(lines) \in Nat
            BY <1>8, LenProperties
          <6> QED BY <1>10, <1>11, <5>1, <6>1
        <5> QED BY <5>2 DEF HasLine
      <4>2. CASE k > c.nextMarker
        <5>1. marker \in c.page /\ ~(marker < k)
          BY <1>4, <1>5, <3>1, <3>2
        <5>2. k \in c.page
          BY <3>1, <4>2, <5>1
        <5> QED BY <1>7, <1>10, <3>2, <5>2
      <4> QED BY <1>3, <3>1, <4>1, <4>2
    <3>3. ASSUME k > marker
          PROVE  k \in rest \/ (c.truncated /\ \A j \in rest : j < k)
      <4>1. k > c.nextMarker
        <5>1. marker > c.nextMarker
          BY <1>4, <1>5, <1>6
        <5> QED BY <1>3, <1>5, <3>1, <3>3, <5>1
      <4>2. ~(k <= marker)
        BY <1>5, <3>1, <3>3
      <4> QED BY <1>7, <3>1, <4>1, <4>2
    <3>4. ASSUME k > marker, served PROVE c.truncated
      <4>1. k \notin rest
        BY <1>13, <3>4
      <4> QED BY <3>3, <3>4, <4>1
    <3> QED BY <3>1, <3>2, <3>3, <3>4
  <2> HIDE DEF rest, count, served
  <2>4. ~(count = 0)
    BY <1>13
  <2> QED BY <1>13, <1>14, <1>15, <2>1, <2>2, <2>3, <2>4 DEF ListingOK
<1>18. InOrder(d.printed) /\ IsFiniteSet(d.page)
  BY <1>10, <1>12, <1>15
<1> QED BY <1>1, <1>2, <1>15, <1>16, <1>17, <1>18, ListGoesOn

\* A request that begins again has the listing where it stopped (list_bucket).
LEMMA ListAgain ==
  ASSUME StoreInv, ListInv, running, cmd.proc = "list", NEW status, Retries(status, Again(cmd)),
         UNCHANGED bucket
  PROVE  ListInv'
<1> DEFINE c == cmd
           d == [c EXCEPT !.page = {}, !.served = FALSE]
<1>1. /\ cmd' = d /\ running' /\ commands' = commands /\ retriesG' = retriesG - 1
  BY DEF Retries, Again
<1>2. /\ commands > 0 /\ c \in Listings /\ InOrder(c.printed) /\ CountOK(c, Used) /\ ListingOK(c, bucket)
      /\ IsFiniteSet(c.page) /\ Used \in Nat
  BY DEF StoreInv, ListInv
<1>3. Used' = Used + 1 /\ Used' \in Nat /\ retriesG' \in Int
  <2>1. retriesG \in Int
    BY DEF ListInv
  <2>2. MaxRetries - (retriesG - 1) = (MaxRetries - retriesG) + 1 /\ retriesG - 1 \in Int
    BY <2>1, S3RequestsAssumption
  <2>3. Used' = MaxRetries - (retriesG - 1)
    BY <1>1 DEF Used
  <2>4. Used' = Used + 1
    BY <2>2, <2>3 DEF Used
  <2> QED BY <1>1, <1>2, <2>2, <2>4
<1>4. /\ d \in Listings /\ d.page = {} /\ ~d.served
      /\ d.truncated = c.truncated /\ d.isTruncated = c.isTruncated
      /\ d.maxkeys = c.maxkeys /\ d.nextMarker = c.nextMarker /\ d.keyCount = c.keyCount
      /\ d.printed = c.printed /\ d.stable = c.stable
  BY <1>2 DEF Listings
<1> HIDE DEF d
<1>5. CountOK(d, Used')
  <2>1. SUFFICES ASSUME c.maxkeys > 0
                 PROVE  c.keyCount < c.maxkeys + (Used + 1) * Limit(c.maxkeys)
    BY <1>3, <1>4 DEF CountOK
  <2>2. c.maxkeys \in Nat /\ c.keyCount \in Nat
    BY <1>2 DEF Listings
  <2>3. Cardinality(c.page) \in Nat
    BY <1>2, FS_CardinalityType
  <2> DEFINE l == Limit(c.maxkeys)
             u == Used
             used == u * l
             room == (1 + u) * l
  <2>4. l \in Nat /\ u \in Nat /\ u + 1 = 1 + u
    BY <1>2, <2>2, Limits
  <2>5. \/ c.keyCount < c.maxkeys + used
        \/ c.keyCount + Cardinality(c.page) < c.maxkeys + room
    BY <1>2, <2>1 DEF CountOK
  <2> HIDE DEF l, u
  <2>6. used \in Nat /\ room \in Nat /\ used <= room
    BY <2>4, Room
  <2> HIDE DEF used, room
  <2>7. c.keyCount < c.maxkeys + room
    BY <2>2, <2>3, <2>5, <2>6
  <2> QED BY <2>4, <2>7 DEF room, u, l
<1>6. ListingOK(d, bucket)
  BY <1>2, <1>4 DEF ListingOK
<1>7. IsFiniteSet({})
  BY FS_EmptySet
<1> QED BY <1>1, <1>2, <1>3, <1>4, <1>5, <1>6, <1>7 DEF ListInv

\* The next page is only asked for if the count is below maxkeys.
LEMMA ListNextPageKeeps ==
  ASSUME StoreInv, ListInv, ListNextPage
  PROVE  ListInv'
<1> DEFINE c == cmd
           d == [c EXCEPT !.isTruncated = FALSE, !.served = FALSE]
<1>1. /\ running /\ running' /\ c.proc = "list" /\ cmd' = d /\ c.served /\ MorePages
      /\ UNCHANGED <<bucket, retriesG, commands>>
  BY DEF ListNextPage, Runs, clientVars
<1>2. /\ commands > 0 /\ c \in Listings /\ InOrder(c.printed) /\ CountOK(c, Used) /\ ListingOK(c, bucket)
      /\ IsFiniteSet(c.page) /\ Used \in Nat
  BY <1>1 DEF StoreInv, ListInv
<1>3. /\ d \in Listings /\ d.page = c.page /\ ~d.served /\ c.page = {}
      /\ d.truncated = c.truncated
      /\ d.maxkeys = c.maxkeys /\ d.nextMarker = c.nextMarker /\ d.keyCount = c.keyCount
      /\ d.printed = c.printed /\ d.stable = c.stable
  BY <1>1, <1>2 DEF Listings, ListingOK
<1> HIDE DEF d
<1>4. CountOK(d, Used)
  <2>1. SUFFICES ASSUME c.maxkeys > 0
                 PROVE  c.keyCount < c.maxkeys + Used * Limit(c.maxkeys)
    BY <1>3 DEF CountOK
  <2>2. c.maxkeys \in Nat /\ c.keyCount \in Nat /\ c.keyCount < c.maxkeys
    <3>1. c.maxkeys \in Nat /\ c.keyCount \in Nat
      BY <1>2 DEF Listings
    <3>2. c.maxkeys # 0
      BY <2>1, <3>1
    <3> QED BY <1>1, <3>1, <3>2 DEF MorePages
  <2> DEFINE room == Used * Limit(c.maxkeys)
  <2>3. room \in Nat
    BY <1>2, <2>2, Limits, Room
  <2> HIDE DEF room
  <2>4. c.keyCount < c.maxkeys + room
    BY <2>2, <2>3
  <2> QED BY <2>4 DEF room
<1>5. ListingOK(d, bucket)
  BY <1>2, <1>3 DEF ListingOK
<1> QED BY <1>1, <1>2, <1>3, <1>4, <1>5, ListGoesOn

\* The end of a listing whose lines and count stay, but for a header.
LEMMA ListStops ==
  ASSUME StoreInv, ListInv, running, cmd.proc = "list", NEW status, NEW lines,
         lines = cmd.printed \/ (cmd.printed = <<>> /\ lines = ListHeader),
         Ends(status, [cmd EXCEPT !.printed = lines]),
         status = "OK" /\ cmd.maxkeys = 0 => cmd.served /\ ~cmd.isTruncated
  PROVE  ListInv'
<1> DEFINE c == cmd
           d == [c EXCEPT !.printed = lines]
<1>1. /\ cmd' = d /\ ~running' /\ commands' = commands /\ statusG' = status
      /\ retriesG' = retriesG \/ retriesG' = retriesG - 1
  BY DEF Ends
<1>2. /\ commands > 0 /\ c \in Listings /\ InOrder(c.printed) /\ CountOK(c, Used) /\ ListingOK(c, bucket)
      /\ IsFiniteSet(c.page) /\ Used \in Nat
  BY DEF StoreInv, ListInv
<1>3. retriesG' \in Int /\ Used' \in Nat /\ (Used' = Used \/ Used' = Used + 1)
  <2>1. retriesG \in Int
    BY DEF ListInv
  <2>2. CASE retriesG' = retriesG
    BY <1>2, <2>1, <2>2 DEF Used
  <2>3. CASE retriesG' = retriesG - 1
    <3>1. MaxRetries - (retriesG - 1) = (MaxRetries - retriesG) + 1 /\ retriesG - 1 \in Int
      BY <2>1, S3RequestsAssumption
    <3>2. Used' = MaxRetries - (retriesG - 1)
      BY <2>3 DEF Used
    <3>3. Used' = Used + 1
      BY <3>1, <3>2 DEF Used
    <3> QED BY <1>2, <2>3, <3>1, <3>3
  <2> QED BY <1>1, <2>2, <2>3
<1>4. <<0>> \in Seq(Nat) /\ Len(<<0>>) = 1 /\ InOrder(<<0>>) /\ <<>> \in Seq(Nat) /\ Len(<<>>) = 0
  <2>1. <<0>> \in Seq(Nat) /\ Len(<<0>>) = 1
    OBVIOUS
  <2> QED BY <2>1, EmptySeq DEF InOrder
<1>5. lines \in Seq(Nat) /\ InOrder(lines) /\ \A k : HasLine(c.printed, k) => HasLine(lines, k)
  <2>1. CASE lines = c.printed
    BY <1>2, <2>1 DEF Listings
  <2>2. CASE c.printed = <<>> /\ lines = <<0>>
    BY <1>4, <2>2 DEF HasLine
  <2> QED BY <2>1, <2>2 DEF ListHeader
<1>6. /\ d \in Listings /\ d.page = c.page /\ d.served = c.served
      /\ d.maxkeys = c.maxkeys /\ d.keyCount = c.keyCount
      /\ d.printed = lines /\ d.stable = c.stable
  BY <1>2, <1>5 DEF Listings
<1> HIDE DEF d
<1>7. CountOK(d, Used')
  <2> DEFINE l == Limit(c.maxkeys)
             u == Used
             v == Used'
             used == u * l
             room == (1 + u) * l
  <2>1. c.maxkeys \in Nat /\ c.keyCount \in Nat /\ Cardinality(c.page) \in Nat
    BY <1>2, FS_CardinalityType DEF Listings
  <2>2. l \in Nat /\ u \in Nat
    BY <1>2, <2>1, Limits
  <2>3. CASE Used' = Used
    BY <1>2, <1>6, <2>3 DEF CountOK
  <2>4. CASE Used' = Used + 1
    <3>1. SUFFICES ASSUME c.maxkeys > 0
                   PROVE  IF c.page = {} /\ ~c.served
                          THEN c.keyCount < c.maxkeys + (u + 1) * l
                          ELSE c.keyCount + Cardinality(c.page) < c.maxkeys + (1 + (u + 1)) * l
      BY <1>6, <2>4 DEF CountOK
    <3>2. IF c.page = {} /\ ~c.served
          THEN c.keyCount < c.maxkeys + used
          ELSE c.keyCount + Cardinality(c.page) < c.maxkeys + room
      BY <1>2, <3>1 DEF CountOK
    <3> HIDE DEF u, l
    <3> DEFINE more == (1 + (u + 1)) * l
    <3>3. /\ used \in Nat /\ room \in Nat /\ used <= room /\ (u + 1) * l = room
          /\ more \in Nat /\ room <= more
      <4>1. u + 1 \in Nat /\ u + 1 = 1 + u
        BY <2>2
      <4>2. used \in Nat /\ room \in Nat /\ used <= room /\ (u + 1) * l = room
        BY <2>2, <4>1, Room
      <4> DEFINE w == u + 1
      <4>3. w \in Nat
        BY <4>1
      <4>4. (1 + w) * l \in Nat /\ w * l <= (1 + w) * l
        <5> HIDE DEF w
        <5> QED BY <2>2, <4>3, Room
      <4> QED BY <4>2, <4>4
    <3> HIDE DEF used, room, more
    <3>4. IF c.page = {} /\ ~c.served
          THEN c.keyCount < c.maxkeys + room
          ELSE c.keyCount + Cardinality(c.page) < c.maxkeys + more
      BY <2>1, <3>2, <3>3
    <3> QED BY <3>3, <3>4 DEF more
  <2> QED BY <1>3, <2>3, <2>4
<1>8. ASSUME status = "OK", c.maxkeys = 0, NEW k \in c.stable
      PROVE  HasLine(lines, k)
  <2>1. c.served /\ ~c.isTruncated
    BY <1>8
  <2>2. ~(k > c.nextMarker) /\ (k <= c.nextMarker => HasLine(c.printed, k))
    BY <1>2, <2>1 DEF ListingOK
  <2>3. k \in Nat /\ c.nextMarker \in Nat
    BY <1>2, S3ClientAssumption DEF Listings
  <2> QED BY <1>5, <2>2, <2>3
<1> QED BY <1>1, <1>2, <1>3, <1>5, <1>6, <1>7, <1>8 DEF ListInv

\* While another command goes on, or begins, nothing is said of listings.
LEMMA NotListing ==
  ASSUME StoreInv, ListInv, GoesOn, cmd.proc # "list"
  PROVE  ListInv'
<1>1. commands > 0 /\ commands' = commands /\ cmd'.proc # "list"
  BY KindKept
<1>2. retriesG' \in {retriesG, retriesG - 1}
  <2> USE DEF Continues, Retries, Ends
  <2>1. ASSUME NEW n, NEW wrote, GetReceives(n, wrote) PROVE retriesG' \in {retriesG, retriesG - 1}
    <3>1. \E c : Ends("AbortedByCallback", c) \/ Continues(c)
      BY <2>1, Zenon DEF GetReceives
    <3> QED BY <3>1
  <2>2. CASE GetServes \/ PutServes \/ DeleteServes \/ CopyServes
    BY <2>2 DEF GetServes, PutServes, DeleteServes, CopyServes
  <2>3. CASE HeadServes \/ TestServes \/ CreateServes \/ RemoveServes
    BY <2>3 DEF HeadServes, TestServes, CreateServes, RemoveServes
  <2>4. CASE ServiceServes \/ ServiceEnds \/ Succeeds \/ Fails
    BY <2>4 DEF ServiceServes, ServiceEnds, Succeeds, Fails
  <2>5. ASSUME NEW n, PutSends(n) PROVE retriesG' \in {retriesG, retriesG - 1}
    BY <2>5 DEF PutSends
  <2>6. CASE ListServes \/ (\E n \in 1..PageSize : ListCallback(n)) \/ ListNextPage \/ ListEnds
    BY <2>6 DEF ListServes, ListCallback, ListNextPage, ListEnds, Serving, Runs
  <2> HIDE DEF Continues, Retries, Ends
  <2> QED BY <2>1, <2>2, <2>3, <2>4, <2>5, <2>6 DEF GoesOn
<1>3. retriesG' \in Int /\ Used' \in Nat
  <2>1. retriesG \in Int /\ MaxRetries - retriesG \in Nat
    BY DEF ListInv, Used
  <2>2. ASSUME NEW r \in {retriesG, retriesG - 1} PROVE r \in Int /\ MaxRetries - r \in Nat
    BY <2>1, S3RequestsAssumption
  <2>3. retriesG' \in Int /\ MaxRetries - retriesG' \in Nat
    BY <1>2, <2>2
  <2> QED BY <2>3 DEF Used
<1> QED BY <1>1, <1>3 DEF ListInv

\* A command of another kind that begins has nothing to say about listings.
LEMMA NotListingYet ==
  ASSUME StoreInv, Begins, cmd'.proc # "list"
  PROVE  ListInv'
<1>1. commands' > 0
  BY KindChosen DEF StoreInv
<1>2. retriesG' \in 0..MaxRetries
  BY DEF Begins, PutBegins, GetBegins, DeleteBegins, CopyBegins, HeadBegins, TestBegins,
     CreateBegins, RemoveBegins, ListBegins, ServiceBegins, Starts
<1>3. retriesG' \in Int /\ MaxRetries - retriesG' \in Nat
  <2>1. PICK r \in 0..MaxRetries : retriesG' = r
    BY <1>2
  <2>2. r \in Int /\ MaxRetries - r \in Nat
    BY S3RequestsAssumption
  <2> QED BY <2>1, <2>2
<1> QED BY <1>1, <1>3 DEF ListInv, Used

\* Objects that others put or remove.
LEMMA ListDisturbed ==
  ASSUME StoreInv, ListInv, NEW k \in Keys, NEW object \in Stock \cup {None}, OthersChange(k, object)
  PROVE  ListInv'
<1>1. /\ UNCHANGED <<running, statusG, retriesG, commands>>
      /\ bucket' = [bucket EXCEPT ![k] = object]
      /\ cmd' = IF Runs("list") /\ object = None THEN [cmd EXCEPT !.stable = @ \ {k}] ELSE cmd
  BY DEF OthersChange
<1>2. bucket \in [Keys -> Objects \cup {None}]
  BY DEF StoreInv
<1>3. /\ \A j \in Keys : j # k => bucket'[j] = bucket[j]
      /\ object # None => bucket'[k] # None
  BY <1>1, <1>2
<1>4. CASE ~Runs("list")
  <2>1. cmd' = cmd
    BY <1>1, <1>4
  <2>2. cmd.proc = "list" => ~running
    BY <1>4 DEF Runs
  <2> QED BY <1>1, <2>1, <2>2 DEF ListInv, Used
<1>5. CASE Runs("list")
  <2>1. /\ commands > 0 /\ running /\ cmd.proc = "list" /\ cmd \in Listings
        /\ InOrder(cmd.printed) /\ CountOK(cmd, Used) /\ ListingOK(cmd, bucket) /\ IsFiniteSet(cmd.page)
    BY <1>5 DEF Runs, StoreInv, ListInv
  <2> DEFINE rest == IF object = None THEN cmd.stable \ {k} ELSE cmd.stable
             d == [cmd EXCEPT !.stable = rest]
  <2>2. cmd' = d
    <3>1. cmd = [cmd EXCEPT !.stable = cmd.stable]
      BY <2>1 DEF Listings
    <3> QED BY <1>1, <1>5, <3>1
  <2>3. rest \in SUBSET cmd.stable /\ cmd.stable \in SUBSET Keys /\ \A j \in rest : bucket'[j] # None
    <3>1. cmd.stable \in SUBSET Keys /\ \A j \in cmd.stable : bucket[j] # None
      BY <2>1 DEF Listings, ListingOK
    <3> QED BY <1>3, <3>1
  <2> HIDE DEF rest
  <2>4. /\ d \in Listings /\ d.page = cmd.page /\ d.served = cmd.served
        /\ d.truncated = cmd.truncated /\ d.isTruncated = cmd.isTruncated
        /\ d.maxkeys = cmd.maxkeys /\ d.nextMarker = cmd.nextMarker /\ d.keyCount = cmd.keyCount
        /\ d.printed = cmd.printed /\ d.stable = rest
    BY <2>1, <2>3 DEF Listings
  <2> HIDE DEF d
  <2>5. CountOK(d, Used)
    BY <2>1, <2>4 DEF CountOK
  <2>6. ListingOK(d, bucket')
    BY <2>1, <2>3, <2>4 DEF ListingOK
  <2>7. running'
    BY <1>1, <2>1
  <2> QED BY <1>1, <2>1, <2>2, <2>4, <2>5, <2>6, <2>7, ListGoesOn
<1> QED BY <1>4, <1>5

\* What ListInv says of a listing survives every step of the tool, the server and the others.
LEMMA ListNext ==
  ASSUME StoreInv, ListInv, [Next]_vars
  PROVE  ListInv'
<1>1. CASE UNCHANGED vars
  BY <1>1 DEF vars, requestVars, clientVars, ListInv, Used
<1>2. CASE Begins
  <2>1. ASSUME NEW maxkeys \in 0..MaxKeys, NEW marker \in Keys \cup {NullMarker}, ListBegins(maxkeys, marker)
        PROVE  ListInv'
    <3>1. maxkeys \in Nat
      BY S3ClientAssumption
    <3> QED BY <2>1, <3>1, ListStarts
  <2>2. ASSUME NEW key, NEW startByte, NEW byteCount, GetBegins(key, startByte, byteCount)
        PROVE  cmd'.proc # "list"
    BY <2>2 DEF GetBegins, Starts
  <2> QED BY <1>2, <2>1, <2>2, KindChosen, NotListingYet
<1>3. CASE GoesOn
  <2>1. running
    BY <1>3, KindKept
  <2>2. CASE cmd.proc # "list"
    BY <1>3, <2>2, NotListing
  <2>3. CASE cmd.proc = "list"
    <3>1. ListServes \/ (\E n \in 1..PageSize : ListCallback(n)) \/ ListNextPage \/ ListEnds \/ Fails
      BY <1>3, <2>3 DEF GoesOn, PutSends, PutServes, GetReceives, GetServes, DeleteServes, CopyServes,
         HeadServes, TestServes, CreateServes, RemoveServes, ServiceServes, ServiceEnds, Succeeds,
         Serving, Runs
    <3>2. commands > 0 /\ cmd \in Listings /\ ListingOK(cmd, bucket)
      BY <2>1, <2>3 DEF StoreInv, ListInv
    <3>3. CASE ListEnds
      <4> DEFINE lines == IF cmd.keyCount = 0 THEN cmd.printed \o ListHeader ELSE cmd.printed
      <4>1. /\ Ends("OK", [cmd EXCEPT !.printed = lines]) /\ cmd.served /\ ~MorePages
        BY <3>3 DEF ListEnds
      <4>2. lines = cmd.printed \/ (cmd.printed = <<>> /\ lines = ListHeader)
        <5>1. <<>> \o <<0>> = <<0>> /\ (cmd.keyCount = 0 => cmd.printed = <<>>)
          <6>1. <<0>> \in Seq(Nat)
            OBVIOUS
          <6> QED BY <3>2, <6>1, ConcatEmptySeq DEF ListingOK
        <5> QED BY <5>1 DEF ListHeader
      <4>3. cmd.maxkeys = 0 => ~cmd.isTruncated
        BY <4>1 DEF MorePages
      <4> HIDE DEF lines
      <4> QED BY <2>1, <2>3, <4>1, <4>2, <4>3, ListStops
    <3>4. CASE Fails
      <4>1. PICK status \in {"ConnectionFailed", "Error"} : Retries(status, Again(cmd)) \/ Ends(status, cmd)
        BY <3>4 DEF Fails
      <4>2. CASE Retries(status, Again(cmd))
        BY <2>1, <2>3, <3>4, <4>2, ListAgain DEF Fails, clientVars
      <4>3. CASE Ends(status, cmd)
        <5>1. cmd = [cmd EXCEPT !.printed = cmd.printed]
          BY <3>2 DEF Listings
        <5>2. Ends(status, [cmd EXCEPT !.printed = cmd.printed])
          BY <4>3, <5>1 DEF Ends
        <5> QED BY <2>1, <2>3, <5>2, ListStops
      <4> QED BY <4>1, <4>2, <4>3
    <3> QED BY <3>1, <3>3, <3>4, ListServesKeeps, ListCallbackKeeps, ListNextPageKeeps
  <2> QED BY <2>2, <2>3
<1>4. CASE Others
  BY <1>4, ListDisturbed DEF Others
<1> QED BY <1>1, <1>2, <1>3, <1>4 DEF Next

\* Before the first command nothing was listed.
LEMMA ListInit ==
  ASSUME Init
  PROVE  ListInv
<1>1. retriesG = 0 /\ commands = 0 /\ cmd = None
  BY Zenon DEF Init, RequestsInit
<1>2. ~(commands > 0) /\ retriesG \in Int /\ Used \in Nat
  BY <1>1, S3RequestsAssumption DEF Used
<1> QED BY <1>1, <1>2 DEF ListInv

\* The parts of the invariant tell the whole.
LEMMA ListTold ==
  ASSUME ListInv
  PROVE  ListsOnce /\ ListNearLimit
<1>1. SUFFICES ASSUME cmd # None, cmd.proc = "list"
               PROVE  ListsOnce /\ ListNearLimit
  BY DEF ListsOnce, ListNearLimit
<1>2. /\ cmd \in Listings /\ IsFiniteSet(cmd.page) /\ InOrder(cmd.printed) /\ CountOK(cmd, Used)
      /\ Used \in Nat
      /\ ~running /\ statusG = "OK" /\ cmd.maxkeys = 0 =>
            \A k \in cmd.stable : HasLine(cmd.printed, k)
  BY <1>1 DEF ListInv
<1>3. ListsOnce
  <2>1. DOMAIN cmd.printed = 1..Len(cmd.printed)
    BY <1>2, LenProperties DEF Listings
  <2> QED BY <1>2, <2>1 DEF ListsOnce, InOrder, HasLine
<1>4. ASSUME cmd.maxkeys > 0
      PROVE  cmd.keyCount < cmd.maxkeys + (1 + Used) * Limit(cmd.maxkeys)
  <2> DEFINE c == cmd
             l == Limit(c.maxkeys)
             u == Used
             used == u * l
             room == (1 + u) * l
  <2>1. c.maxkeys \in Nat /\ c.keyCount \in Nat /\ Cardinality(c.page) \in Nat
    BY <1>2, FS_CardinalityType DEF Listings
  <2>2. l \in Nat /\ u \in Nat
    BY <1>2, <2>1, Limits
  <2>3. \/ c.keyCount < c.maxkeys + used
        \/ c.keyCount + Cardinality(c.page) < c.maxkeys + room
    BY <1>2, <1>4 DEF CountOK
  <2> HIDE DEF l, u
  <2>4. used \in Nat /\ room \in Nat /\ used <= room
    BY <2>2, Room
  <2> HIDE DEF used, room
  <2>5. c.keyCount < c.maxkeys + room
    BY <2>1, <2>3, <2>4
  <2> QED BY <2>5 DEF room, u, l
<1> QED BY <1>3, <1>4 DEF ListNearLimit, Used

\* For any keys, pages and callbacks, with requests that fail and are made again
\* while keys come and go: one header on top, every key at most once and in order,
\* and a listing without a limit that ends well misses no key that was there all the
\* time (list_bucket, listBucketCallback).
THEOREM ListingsOnce == Spec => []ListsOnce
<1>1. Init => StoreInv /\ ListInv
  BY InitHolds, ListInit
<1>2. StoreInv /\ ListInv /\ [Next]_vars => StoreInv' /\ ListInv'
  BY NextStep, ListNext DEF StoreStep
<1>3. ListInv => ListsOnce
  BY ListTold
<1> QED BY <1>1, <1>2, <1>3, PTL DEF Spec

\* A listing with a limit exceeds it by less than one answer, and one more for every
\* retry: what maxkeys is worth that every request gets in full (list_bucket).
THEOREM ListingsNearLimit == Spec => []ListNearLimit
<1>1. Init => StoreInv /\ ListInv
  BY InitHolds, ListInit
<1>2. StoreInv /\ ListInv /\ [Next]_vars => StoreInv' /\ ListInv'
  BY NextStep, ListNext DEF StoreStep
<1>3. ListInv => ListNearLimit
  BY ListTold
<1> QED BY <1>1, <1>2, <1>3, PTL DEF Spec
=============================================================================
