------------------------------ MODULE S3Client ------------------------------
(***************************************************************************)
(* The commands of the s3 tool (s3-client/src/s3.c) about buckets, objects  *)
(* and listings, each one process with the callbacks it hands to libs3.     *)
(* The server answers a request at one moment while it runs (..Serves);     *)
(* the answer may still be lost, and then the request may be made again,    *)
(* while other machines change the bucket.                                  *)
(***************************************************************************)
EXTENDS S3Requests, Sequences, FiniteSets

CONSTANTS
  MaxCommands,  \* bound: commands
  Keys,         \* positive numbers, in the order in which a bucket is listed
  NullMarker,   \* the place of the string "(null)" in that order
  Bytes,
  Files,        \* bound: what the input of a put may be
  Properties,   \* content type, canned ACL, ...: what an object has besides its data
  BufferSize,   \* bound: bytes libs3 moves at once
  PageSize,     \* keys the server lists at once
  MaxKeys,      \* bound: the largest maxkeys of a listing
  MaxChanges,   \* bound: changes by other machines
  Stock,        \* bound: the objects in the bucket at first and put there by others
  OldFiles      \* bound: what the file that get writes may have been

Contents == UNION {{SubSeq(f, 1, n) : n \in 0..Len(f)} : f \in Files}
Objects == [data : Contents, properties : Properties]

ASSUME S3ClientAssumption ==
  /\ Keys \subseteq Nat \ {0}
  /\ NullMarker \in Nat /\ \A k \in Keys : NullMarker < k
  /\ Files \subseteq Seq(Bytes) /\ OldFiles \subseteq Seq(Bytes) /\ Stock \subseteq Objects
  /\ BufferSize \in Nat \ {0} /\ PageSize \in Nat \ {0}
  /\ MaxCommands \in Nat /\ MaxKeys \in Nat /\ MaxChanges \in Nat
  /\ None \notin Objects /\ None \notin Properties /\ None \notin Seq(Bytes)

VARIABLES
  bucket,       \* bucket[k]: the object under k
  exists,       \* is there such a bucket?
  out,          \* the local file that get writes
  changes       \* by other machines, so far

clientVars == <<bucket, exists, out, changes>>
vars == <<requestVars, clientVars>>

(***************************************************************************)
(* Commands with their callback data.  served: the server has answered the  *)
(* latest request; done is history: it has answered one.                    *)
(***************************************************************************)
\* put_object_callback_data; at: bytes read from the input; sent: in this request.
PutCommands ==
  [proc : {"put"}, key : Keys, properties : Properties, input : Files,
   originalContentLength : Nat, contentLength : Nat, at : Nat, sent : Seq(Bytes),
   served : BOOLEAN, done : BOOLEAN]

\* body: what the server sends in this request, got of it so far; position:
\* that of the stream outfile; before is history, the file at the start.
GetCommands ==
  [proc : {"get"}, key : Keys, startByte : Nat, byteCount : Nat,
   body : Seq(Bytes) \cup {None}, got : Nat, position : Nat, before : Seq(Bytes),
   served : BOOLEAN, done : BOOLEAN]

ObjectCommands ==
  [proc : {"delete", "head"}, key : Keys, served : BOOLEAN, done : BOOLEAN]
    \cup [proc : {"copy"}, from : Keys, key : Keys, properties : Properties \cup {None},
          served : BOOLEAN, done : BOOLEAN]

BucketCommands ==
  [proc : {"test", "create", "remove"}, served : BOOLEAN, done : BOOLEAN]

\* list_bucket_callback_data, list_service_data; page: keys of the answer that
\* the callback has not got, truncated: what the answer says; printed: lines, 0
\* for the header; stable is history: keys in the bucket ever since.
ListCommands ==
  [proc : {"list"}, maxkeys : Nat, nextMarker : Nat, keyCount : Nat, isTruncated : BOOLEAN,
   page : SUBSET Keys, truncated : BOOLEAN, printed : Seq(Nat), stable : SUBSET Keys,
   served : BOOLEAN, done : BOOLEAN]
    \cup [proc : {"service"}, headerPrinted : BOOLEAN, printed : Seq(Nat),
          served : BOOLEAN, done : BOOLEAN]

ClientCommands ==
  PutCommands \cup GetCommands \cup ObjectCommands \cup BucketCommands \cup ListCommands

ClientTypeOK ==
  /\ bucket \in [Keys -> Objects \cup {None}]
  /\ exists \in BOOLEAN
  /\ out \in Seq(Bytes) \cup {None}
  /\ changes \in Nat

TypeOK ==
  /\ RequestsTypeOK
  /\ ClientTypeOK
  /\ cmd \in ClientCommands \cup {None}

Init ==
  /\ RequestsInit
  /\ bucket \in [Keys -> Stock \cup {None}]
  /\ exists \in BOOLEAN
  /\ exists \/ \A k \in Keys : bucket[k] = None
  /\ out \in OldFiles \cup {None}
  /\ changes = 0

\* What a request made again has to begin with: libs3 starts from nothing, the
\* callback data are as the failed request left them.
Again(c) ==
  CASE c.proc = "put"  -> [c EXCEPT !.sent = <<>>, !.served = FALSE]
    [] c.proc = "get"  -> [c EXCEPT !.body = None, !.got = 0, !.served = FALSE]
    [] c.proc = "list" -> [c EXCEPT !.page = {}, !.served = FALSE]
    [] OTHER           -> [c EXCEPT !.served = FALSE]

\* A request fails, even one that the server has answered.
Fails ==
  /\ running
  /\ \E status \in {"ConnectionFailed", "Error"} :
       Retries(status, Again(cmd)) \/ Ends(status, cmd)
  /\ UNCHANGED clientVars

\* Commands that have nothing left to do once the answer is there.
Succeeds ==
  /\ running /\ cmd.proc \notin {"list", "service"}
  /\ cmd.served
  /\ Ends("OK", cmd)
  /\ UNCHANGED clientVars

\* The server has what it needs to answer the request.
Serving(proc) == Runs(proc) /\ ~cmd.served /\ exists

(***************************************************************************)
(* put_object                                                               *)
(***************************************************************************)
\* The parameter contentLength, if given, or the size of the file or of all
\* that standard input has.
PutLength(input, given) == IF given = 0 THEN Len(input) ELSE given

PutBegins(key, properties, input, given) ==
  LET length == PutLength(input, given)
  IN  /\ Starts([proc |-> "put", key |-> key, properties |-> properties, input |-> input,
                 originalContentLength |-> length, contentLength |-> length, at |-> 0,
                 sent |-> <<>>, served |-> FALSE, done |-> FALSE])
      /\ UNCHANGED clientVars

Read(n) == SubSeq(cmd.input, cmd.at + 1, cmd.at + n)

\* putObjectDataCallback hands over n bytes, as many as asked for or are left.
\* It keeps no account of requests: a second one gets what the first has left.
PutSends(n) ==
  /\ Runs("put") /\ ~cmd.served
  /\ 0 < n /\ n <= cmd.contentLength /\ n <= Len(cmd.input) - cmd.at
  /\ Continues([cmd EXCEPT !.contentLength = @ - n, !.at = @ + n, !.sent = @ \o Read(n)])
  /\ UNCHANGED clientVars

\* Mistake: a request announces what is left to send.
PutServesRest ==
  /\ Serving("put")
  /\ cmd.contentLength = 0
  /\ bucket' = [bucket EXCEPT ![cmd.key] = [data |-> cmd.sent, properties |-> cmd.properties]]
  /\ Continues(Answered(cmd))
  /\ UNCHANGED <<exists, out, changes>>

\* The server replaces the object once it has as many bytes as every request
\* of the loop announces.
PutServes ==
  /\ Serving("put")
  /\ Len(cmd.sent) = cmd.originalContentLength
  /\ bucket' = [bucket EXCEPT ![cmd.key] = [data |-> cmd.sent, properties |-> cmd.properties]]
  /\ Continues(Answered(cmd))
  /\ UNCHANGED <<exists, out, changes>>

(***************************************************************************)
(* get_object.  A file that exists is opened without truncating it, and     *)
(* stays where it is in the stream when the request is made again.          *)
(***************************************************************************)
GetBegins(key, startByte, byteCount) ==
  LET before == IF out = None THEN <<>> ELSE out
  IN  /\ Starts([proc |-> "get", key |-> key, startByte |-> startByte, byteCount |-> byteCount,
                 body |-> None, got |-> 0, position |-> 0, before |-> before,
                 served |-> FALSE, done |-> FALSE])
      /\ out' = before
      /\ UNCHANGED <<bucket, exists, changes>>

\* The bytes that the parameters startByte and byteCount ask for.
Part(data, startByte, byteCount) ==
  LET rest == Len(data) - startByte
  IN  SubSeq(data, startByte + 1,
             startByte + (IF byteCount = 0 \/ byteCount > rest THEN rest ELSE byteCount))

\* The server begins to send; there is nothing for the callback if it has nothing.
GetServes ==
  /\ Serving("get") /\ cmd.body = None
  /\ bucket[cmd.key] # None
  /\ cmd.startByte = 0 \/ cmd.startByte < Len(bucket[cmd.key].data)
  /\ LET body == Part(bucket[cmd.key].data, cmd.startByte, cmd.byteCount)
     IN  Continues([cmd EXCEPT !.body = body, !.served = (body = <<>>), !.done = @ \/ body = <<>>])
  /\ UNCHANGED clientVars

\* fwrite at a position of a file.
Overwrite(file, at, data) ==
  LET end == at + Len(data)
  IN  [i \in 1..(IF end < Len(file) THEN Len(file) ELSE end) |->
         IF at < i /\ i <= end THEN data[i - at] ELSE file[i]]

\* Mistake: what fwrite returns is not compared with the size of the buffer.
GetReceivesUnchecked(n, wrote) ==
  /\ Runs("get") /\ ~cmd.served /\ cmd.body # None
  /\ 0 < n /\ cmd.got + n <= Len(cmd.body) /\ wrote <= n
  /\ out' = Overwrite(out, cmd.position, SubSeq(cmd.body, cmd.got + 1, cmd.got + wrote))
  /\ LET all == cmd.got + n = Len(cmd.body)
     IN  Continues([cmd EXCEPT !.got = @ + n, !.position = @ + wrote,
                               !.served = all, !.done = @ \/ all])
  /\ UNCHANGED <<bucket, exists, changes>>

\* getObjectDataCallback with n bytes, of which wrote fit on the disk.
GetReceives(n, wrote) ==
  /\ Runs("get") /\ ~cmd.served /\ cmd.body # None
  /\ 0 < n /\ cmd.got + n <= Len(cmd.body) /\ wrote <= n
  /\ out' = Overwrite(out, cmd.position, SubSeq(cmd.body, cmd.got + 1, cmd.got + wrote))
  /\ LET all == wrote = n /\ cmd.got + n = Len(cmd.body)
         c == [cmd EXCEPT !.got = @ + n, !.position = @ + wrote, !.served = all, !.done = @ \/ all]
     IN  IF wrote < n THEN Ends("AbortedByCallback", c) ELSE Continues(c)
  /\ UNCHANGED <<bucket, exists, changes>>

(***************************************************************************)
(* delete_object, copy_object, head_object; test_bucket, create_bucket,     *)
(* delete_bucket: nothing but the request.                                  *)
(***************************************************************************)
DeleteBegins(key) ==
  /\ Starts([proc |-> "delete", key |-> key, served |-> FALSE, done |-> FALSE])
  /\ UNCHANGED clientVars

\* Deleting what is not there succeeds.
DeleteServes ==
  /\ Serving("delete")
  /\ bucket' = [bucket EXCEPT ![cmd.key] = None]
  /\ Continues(Answered(cmd))
  /\ UNCHANGED <<exists, out, changes>>

\* None unless anyPropertiesSet: a null pointer for "as they are".
CopyBegins(from, key, properties) ==
  /\ Starts([proc |-> "copy", from |-> from, key |-> key, properties |-> properties,
             served |-> FALSE, done |-> FALSE])
  /\ UNCHANGED clientVars

CopyServes ==
  /\ Serving("copy")
  /\ bucket[cmd.from] # None
  /\ bucket' = [bucket EXCEPT ![cmd.key] =
       [bucket[cmd.from] EXCEPT !.properties =
          IF cmd.properties = None THEN @ ELSE cmd.properties]]
  /\ Continues(Answered(cmd))
  /\ UNCHANGED <<exists, out, changes>>

HeadBegins(key) ==
  /\ Starts([proc |-> "head", key |-> key, served |-> FALSE, done |-> FALSE])
  /\ UNCHANGED clientVars

HeadServes ==
  /\ Serving("head")
  /\ bucket[cmd.key] # None
  /\ Continues(Answered(cmd))
  /\ UNCHANGED clientVars

TestBegins ==
  /\ Starts([proc |-> "test", served |-> FALSE, done |-> FALSE])
  /\ UNCHANGED clientVars

TestServes ==
  /\ Serving("test")
  /\ Continues(Answered(cmd))
  /\ UNCHANGED clientVars

\* With a name that is valid, or with --force.
CreateBegins ==
  /\ Starts([proc |-> "create", served |-> FALSE, done |-> FALSE])
  /\ UNCHANGED clientVars

CreateServes ==
  /\ Runs("create") /\ ~cmd.served
  /\ exists' = TRUE
  /\ Continues(Answered(cmd))
  /\ UNCHANGED <<bucket, out, changes>>

RemoveBegins ==
  /\ Starts([proc |-> "remove", served |-> FALSE, done |-> FALSE])
  /\ UNCHANGED clientVars

\* A bucket has to be empty to be deleted.
RemoveServes ==
  /\ Serving("remove")
  /\ \A k \in Keys : bucket[k] = None
  /\ exists' = FALSE
  /\ Continues(Answered(cmd))
  /\ UNCHANGED <<bucket, out, changes>>

(***************************************************************************)
(* list, list_bucket and list_service.                                      *)
(***************************************************************************)
ListHeader == <<0>>
ServiceHeader == <<0>>

Behind(marker) == {k \in Keys : bucket[k] # None /\ k > marker}

\* The first n of a set of keys, and the last of them.
FirstOf(keys, n) == {k \in keys : Cardinality({j \in keys : j < k}) < n}
LastOf(keys) == CHOOSE k \in keys : \A j \in keys : j <= k

\* The keys of a set as lines, in order.
Lines(keys) == [i \in 1..Cardinality(keys) |-> LastOf(FirstOf(keys, i))]

\* Without a marker snprintf formats a null pointer.
ListBegins(maxkeys, marker) ==
  /\ Starts([proc |-> "list", maxkeys |-> maxkeys, nextMarker |-> marker, keyCount |-> 0,
             isTruncated |-> FALSE, page |-> {}, truncated |-> FALSE, printed |-> <<>>,
             stable |-> Behind(marker), served |-> FALSE, done |-> FALSE])
  /\ UNCHANGED clientVars

\* Keys in an answer to a request with this maxkeys, if there are so many.
Limit(maxkeys) == IF maxkeys = 0 \/ maxkeys > PageSize THEN PageSize ELSE maxkeys

\* The server answers with a page; there is no call for an empty one.
ListServes ==
  /\ Serving("list") /\ cmd.page = {}
  /\ LET page == FirstOf(Behind(cmd.nextMarker), Limit(cmd.maxkeys))
     IN  Continues([cmd EXCEPT !.page = page, !.truncated = (page # Behind(cmd.nextMarker)),
                               !.served = (page = {}), !.done = TRUE])
  /\ UNCHANGED clientVars

\* Mistake: a marker is only kept if the server sends one.
ListCallbackMarkerMissing(n) ==
  /\ Runs("list") /\ cmd.page # {}
  /\ LET contents == FirstOf(cmd.page, n)
         header == IF cmd.keyCount = 0 THEN ListHeader ELSE <<>>
     IN  Continues([cmd EXCEPT
           !.isTruncated = cmd.truncated,
           !.keyCount = @ + Cardinality(contents),
           !.printed = @ \o header \o Lines(contents),
           !.page = @ \ contents,
           !.served = (contents = cmd.page)])
  /\ UNCHANGED clientVars

\* listBucketCallback gets n keys of the page; the server sends no marker
\* without a delimiter, the last key is taken.
ListCallback(n) ==
  /\ Runs("list") /\ cmd.page # {}
  /\ LET contents == FirstOf(cmd.page, n)
         header == IF cmd.keyCount = 0 THEN ListHeader ELSE <<>>
     IN  Continues([cmd EXCEPT
           !.isTruncated = cmd.truncated,
           !.nextMarker = LastOf(contents),
           !.keyCount = @ + Cardinality(contents),
           !.printed = @ \o header \o Lines(contents),
           !.page = @ \ contents,
           !.served = (contents = cmd.page)])
  /\ UNCHANGED clientVars

\* Mistake: keys are not counted across pages.
MorePagesForever == cmd.isTruncated

MorePages == cmd.isTruncated /\ (cmd.maxkeys = 0 \/ cmd.keyCount < cmd.maxkeys)

\* The outer loop asks for the next page.
ListNextPage ==
  /\ Runs("list") /\ cmd.served /\ MorePages
  /\ cmd' = [cmd EXCEPT !.isTruncated = FALSE, !.served = FALSE]
  /\ statusG' = "OK"
  /\ UNCHANGED <<running, retriesG, commands, clientVars>>

ListEnds ==
  /\ Runs("list") /\ cmd.served /\ ~MorePages
  /\ Ends("OK", [cmd EXCEPT !.printed = IF cmd.keyCount = 0 THEN @ \o ListHeader ELSE @])
  /\ UNCHANGED clientVars

ServiceBegins ==
  /\ Starts([proc |-> "service", headerPrinted |-> FALSE, printed |-> <<>>,
             served |-> FALSE, done |-> FALSE])
  /\ UNCHANGED clientVars

\* listServiceCallback, if there is a bucket to print (the line 1).
ServiceServes ==
  /\ Runs("service") /\ ~cmd.served
  /\ LET header == IF cmd.headerPrinted THEN <<>> ELSE ServiceHeader
     IN  Continues(IF exists THEN [Answered(cmd) EXCEPT !.headerPrinted = TRUE,
                                                        !.printed = @ \o header \o <<1>>]
                             ELSE Answered(cmd))
  /\ UNCHANGED clientVars

ServiceEnds ==
  /\ Runs("service") /\ cmd.served
  /\ Ends("OK", [cmd EXCEPT !.printed = IF cmd.headerPrinted THEN @ ELSE @ \o ServiceHeader])
  /\ UNCHANGED clientVars

(***************************************************************************)
(* Other machines.                                                          *)
(***************************************************************************)
OthersChange(k, object) ==
  /\ exists /\ changes < MaxChanges
  /\ changes' = changes + 1
  /\ bucket' = [bucket EXCEPT ![k] = object]
  /\ cmd' = IF Runs("list") /\ object = None THEN [cmd EXCEPT !.stable = @ \ {k}] ELSE cmd
  /\ UNCHANGED <<running, statusG, retriesG, commands, exists, out>>

Begins ==
  /\ commands < MaxCommands
  /\ \/ \E key \in Keys :
          \/ \E properties \in Properties, input \in Files : \E given \in 0..(Len(input) + 1) :
               PutBegins(key, properties, input, given)
          \/ \E startByte, byteCount \in 0..1 : GetBegins(key, startByte, byteCount)
          \/ DeleteBegins(key)
          \/ \E from \in Keys, properties \in Properties \cup {None} :
               CopyBegins(from, key, properties)
          \/ HeadBegins(key)
     \/ TestBegins \/ CreateBegins \/ RemoveBegins
     \/ \E maxkeys \in 0..MaxKeys, marker \in Keys \cup {NullMarker} : ListBegins(maxkeys, marker)
     \/ ServiceBegins

GoesOn ==
  \/ \E n \in 1..BufferSize :
       PutSends(n) \/ (\E wrote \in 0..BufferSize : GetReceives(n, wrote))
  \/ PutServes \/ GetServes \/ DeleteServes \/ CopyServes \/ HeadServes
  \/ TestServes \/ CreateServes \/ RemoveServes
  \/ ListServes \/ (\E n \in 1..PageSize : ListCallback(n)) \/ ListNextPage \/ ListEnds
  \/ ServiceServes \/ ServiceEnds
  \/ Succeeds \/ Fails

Others == \E k \in Keys, object \in Stock \cup {None} : OthersChange(k, object)

Next == Begins \/ GoesOn \/ Others

\* libs3 brings every request to an end, and the tool goes on.
Spec == Init /\ [][Next]_vars /\ WF_vars(GoesOn)

(***************************************************************************)
(* Properties.                                                              *)
(***************************************************************************)
\* What put announces of its input; more than there is never gets served.
Announced(c) ==
  SubSeq(c.input, 1,
         IF c.originalContentLength < Len(c.input) THEN c.originalContentLength ELSE Len(c.input))

Intent ==
  CASE ~running -> None
    [] Runs("put") ->
         [kind |-> "put", key |-> cmd.key,
          object |-> [data |-> Announced(cmd), properties |-> cmd.properties]]
    [] Runs("delete") -> [kind |-> "delete", key |-> cmd.key]
    [] Runs("copy") -> [kind |-> "copy", from |-> cmd.from, key |-> cmd.key,
                        properties |-> cmd.properties]
    [] OTHER -> [kind |-> "look"]

Store == INSTANCE ObjectStore WITH
  store <- bucket, intent <- Intent, done <- commands > 0 /\ cmd.done,
  success <- ~running /\ commands > 0 /\ statusG = "OK", others <- changes

ASSUME IntentAssumption == None \notin Store!Intents

\* Whatever requests the retry loops make, and although putObjectDataCallback
\* goes on where the failed request stopped instead of from the start, no object
\* is ever the rest or the beginning of what the command announced, and what is
\* done once more after a lost answer is the same again; the status that decides
\* whether the command reports an error is OK only if the server carried it out.
ImplementsObjectStore == Store!StoreSpec

\* When get ends well, the part of the object is in the file, in one piece,
\* behind whatever earlier requests had got; it is the whole file if there was
\* nothing of that and the old file was not longer.  At any time the file is as
\* it was behind the bytes that did arrive: "in case there is an error and we
\* write no bytes, we leave the file unmodified" (get_object, getObjectDataCallback).
GetDelivers ==
  cmd # None /\ cmd.proc = "get" =>
    /\ SubSeq(out, cmd.position + 1, Len(out)) = SubSeq(cmd.before, cmd.position + 1, Len(cmd.before))
    /\ ~running /\ statusG = "OK" =>
         LET n == Len(cmd.body)
         IN  /\ n <= cmd.position
             /\ SubSeq(out, cmd.position - n + 1, cmd.position) = cmd.body
             /\ cmd.position = n /\ Len(cmd.before) <= n => out = cmd.body

\* However pages, callbacks, failed and repeated requests follow each other
\* while keys come and go, list prints one header, above everything else, and
\* keys in order, none twice; when it ends well and has no limit, it has printed
\* every key that was there all the time.
ListsOnce ==
  cmd # None /\ cmd.proc = "list" =>
    LET lines == cmd.printed
    IN  /\ \A i \in DOMAIN lines : lines[i] = 0 <=> i = 1
        /\ \A i \in 2..(Len(lines) - 1) : lines[i] < lines[i + 1]
        /\ ~running /\ statusG = "OK" /\ cmd.maxkeys = 0 =>
             \A k \in cmd.stable : \E i \in DOMAIN lines : lines[i] = k

\* maxkeys is handed to every request and only compared with the count between
\* answers, so a listing may exceed it: by less than one answer, and by one more
\* for every retry, which asks again after what the failed request has brought
\* (list_bucket).
ListNearLimit ==
  cmd # None /\ cmd.proc = "list" /\ cmd.maxkeys > 0 =>
    cmd.keyCount < cmd.maxkeys + (1 + (MaxRetries - retriesG)) * Limit(cmd.maxkeys)

\* Every command ends: retries are used up, and data and pages come to an end.
CommandsEnd == running ~> ~running
=============================================================================
