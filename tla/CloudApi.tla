------------------------------ MODULE CloudApi ------------------------------
(***************************************************************************)
(* The calls of one cloudfs process to the cloud: the wrappers around libs3 *)
(* in cloudapi.c with the callbacks they hand it, and the functions of      *)
(* s3_cloudfs.c on top of them.  libs3 and the server behind it are         *)
(* external: a request moves data in buffers of any size, may fail at any   *)
(* moment, and the answer to one that took effect may be lost.  Meanwhile   *)
(* other machines change the bucket.                                        *)
(***************************************************************************)
EXTENDS Naturals, FiniteSets, FiniteSetsExt, Sequences, SequencesExt

CONSTANTS
  Keys,         \* positive numbers, in the order in which a bucket is listed
  NullMarker,   \* the place of the string "(null)" in that order
  Data,         \* bytes
  None,         \* no object, no call
  MaxLen,       \* bound: bytes of a file
  BufferSize,   \* bound: bytes libs3 moves at once
  PageSize,     \* keys the server lists at once
  MaxChanges    \* bound: changes by other machines

Contents == UNION {[1..n -> Data] : n \in 0..MaxLen}

\* Keys that get_key makes begin with '+', which sorts behind '('.
ASSUME CloudApiAssumption ==
  /\ Keys \subseteq Nat \ {0}
  /\ NullMarker \in Nat /\ \A k \in Keys : NullMarker < k
  /\ MaxLen \in Nat /\ MaxChanges \in Nat
  /\ None \notin Contents
  /\ BufferSize \in Nat \ {0} /\ PageSize \in Nat \ {0}

VARIABLES
  exists,       \* is there a bucket?
  bucket,       \* bucket[k]: the object under k
  call,         \* the call that runs, or the last one
  running,      \* does it still run?
  statusG,      \* status of the latest request
  changes       \* by other machines, so far

vars == <<exists, bucket, call, running, statusG, changes>>

(***************************************************************************)
(* Calls with their callback data.  file is what infile has, or outfile got *)
(* so far; sent is what the server received of it; object is what the       *)
(* server serves; full tells that outfile did not fit on the disk; listed   *)
(* counts the calls of the filler, up to two for a key; stable is history:  *)
(* the keys in the bucket ever since the listing started.                   *)
(***************************************************************************)
PutCalls ==
  [proc : {"put"}, key : Keys, file : Contents, contentLength : 0..MaxLen,
   remainingLength : 0..MaxLen, sent : Contents]

GetCalls ==
  [proc : {"get"}, key : Keys, object : Contents \cup {None}, file : Contents,
   full : BOOLEAN]

ListCalls ==
  [proc : {"list"}, nextMarker : Nat, listed : [Keys -> 0..2], stable : SUBSET Keys]

\* named tells that the filler got the name of the bucket.
ServiceCalls == [proc : {"service"}, named : BOOLEAN]

Statuses == {"OK", "AbortedByCallback", "Error"}

TypeOK ==
  /\ exists \in BOOLEAN
  /\ bucket \in [Keys -> Contents \cup {None}]
  /\ call \in PutCalls \cup GetCalls \cup ListCalls \cup ServiceCalls \cup {None}
  /\ running \in BOOLEAN
  /\ statusG \in Statuses
  /\ changes \in Nat

Init ==
  /\ exists = FALSE
  /\ bucket = [k \in Keys |-> None]
  /\ call = None
  /\ running = FALSE
  /\ statusG = "OK"
  /\ changes = 0

Stored == {k \in Keys : bucket[k] # None}

Begins(c) ==
  /\ ~running
  /\ running' = TRUE
  /\ call' = c
  /\ UNCHANGED <<exists, bucket, statusG, changes>>

Runs(proc) == running /\ call.proc = proc

\* responseCompleteCallback, and the wrapper returns statusG.
Completes(status) == running' = FALSE /\ statusG' = status

\* A request fails, whatever it is, without an effect.
Fails ==
  /\ running
  /\ Completes("Error")
  /\ UNCHANGED <<exists, bucket, call, changes>>

(***************************************************************************)
(* s3_cloudfs_put: opens the file, which may be reached through a link, and *)
(* announces the size that lstat gives for the name.                        *)
(***************************************************************************)
PutBegins(k, data, size) ==
  Begins([proc |-> "put", key |-> k, file |-> data, contentLength |-> size,
          remainingLength |-> size, sent |-> <<>>])

\* What fread returns when asked for so many bytes.
FileRead(bytes) ==
  LET at == Len(call.sent)
  IN  SubSeq(call.file, at + 1, Min({at + bytes, Len(call.file)}))

\* Mistake: the last buffer is filled up.
PutSendsWithoutLimit(bufferSize) ==
  /\ Runs("put")
  /\ call.remainingLength > 0
  /\ LET data == FileRead(bufferSize)
     IN  call' = [call EXCEPT !.sent = @ \o data, !.remainingLength = @ - Len(data)]
  /\ UNCHANGED <<exists, bucket, running, statusG, changes>>

\* Mistake: counts the bytes asked for, not the bytes read.
PutSendsUncounted(bufferSize) ==
  /\ Runs("put")
  /\ call.remainingLength > 0
  /\ LET toRead == Min({call.remainingLength, bufferSize})
     IN  call' = [call EXCEPT !.sent = @ \o FileRead(toRead),
                              !.remainingLength = @ - toRead]
  /\ UNCHANGED <<exists, bucket, running, statusG, changes>>

\* putObjectDataCallback
PutSends(bufferSize) ==
  /\ Runs("put")
  /\ call.remainingLength > 0
  /\ LET data == FileRead(Min({call.remainingLength, bufferSize}))
     IN  call' = [call EXCEPT !.sent = @ \o data, !.remainingLength = @ - Len(data)]
  /\ UNCHANGED <<exists, bucket, running, statusG, changes>>

\* The server has all it was told to expect and replaces the object at once.
PutCompletes(status) ==
  /\ Runs("put") /\ exists
  /\ call.remainingLength = 0
  /\ bucket' = [bucket EXCEPT ![call.key] = call.sent]
  /\ Completes(status)
  /\ UNCHANGED <<exists, call, changes>>

(***************************************************************************)
(* s3_cloudfs_get: creates the file, receives the object into it and closes *)
(* it; data may be lost in fwrite, which the callback sees, or in fclose,   *)
(* which nobody looks at.                                                   *)
(***************************************************************************)
GetBegins(k) ==
  Begins([proc |-> "get", key |-> k, object |-> bucket[k], file |-> <<>>, full |-> FALSE])

Received(n) == SubSeq(call.object, 1, Len(call.file) + n)

\* Mistake: what fwrite returns is not compared with the size of the buffer.
GetReceivesUnchecked(bufferSize) ==
  /\ Runs("get") /\ call.object # None
  /\ Len(call.file) + bufferSize <= Len(call.object)
  /\ \/ call' = [call EXCEPT !.file = Received(bufferSize)] /\ UNCHANGED <<running, statusG>>
     \/ /\ \E wrote \in 0..(bufferSize - 1) : call' = [call EXCEPT !.file = Received(wrote)]
        /\ Completes("OK")
  /\ UNCHANGED <<exists, bucket, changes>>

\* getObjectDataCallback
GetReceives(bufferSize) ==
  /\ Runs("get") /\ call.object # None
  /\ Len(call.file) + bufferSize <= Len(call.object)
  /\ \/ call' = [call EXCEPT !.file = Received(bufferSize)] /\ UNCHANGED <<running, statusG>>
     \/ /\ \E wrote \in 0..(bufferSize - 1) : call' = [call EXCEPT !.file = Received(wrote)]
        /\ Completes("AbortedByCallback")
  /\ UNCHANGED <<exists, bucket, changes>>

GetCompletes ==
  /\ Runs("get")
  /\ call.file = call.object
  /\ \/ UNCHANGED call
     \/ \E n \in 0..(Len(call.file) - 1) :
          call' = [call EXCEPT !.file = SubSeq(@, 1, n), !.full = TRUE]
  /\ Completes("OK")
  /\ UNCHANGED <<exists, bucket, changes>>

(***************************************************************************)
(* s3_delete, as one step: deleting what is not there succeeds.             *)
(***************************************************************************)
Delete(k, status) ==
  /\ ~running
  /\ bucket' = [bucket EXCEPT ![k] = None] \/ UNCHANGED bucket
  /\ status = "OK" => exists /\ bucket'[k] = None
  /\ statusG' = status
  /\ call' = None
  /\ UNCHANGED <<exists, running, changes>>

(***************************************************************************)
(* cloud_list_bucket: one request per page.  The first marker is a null     *)
(* pointer that snprintf formats.                                           *)
(***************************************************************************)
ListBegins ==
  Begins([proc |-> "list", nextMarker |-> NullMarker, listed |-> [k \in Keys |-> 0],
          stable |-> Stored])

Behind(marker) == {k \in Stored : k > marker}

\* The first n of a set of keys.
FirstOf(keys, n) == {k \in keys : Cardinality({j \in keys : j < k}) < n}

\* Mistake: relies on the server to return a marker.
NextMarkerMissing(page) == 0

\* Without a delimiter the server returns no marker: the last key is taken.
NextMarker(page) == IF page = {} THEN 0 ELSE Max(page)

\* listBucketCallback, with the test of the loop: isTruncated says that there
\* are keys behind the page.
ListPage(n) ==
  /\ Runs("list") /\ exists
  /\ LET page == FirstOf(Behind(call.nextMarker), n)
     IN  /\ call' = [call EXCEPT !.nextMarker = NextMarker(page),
                                 !.listed = [k \in Keys |->
                                    IF k \in page THEN Min({2, @[k] + 1}) ELSE @[k]]]
         /\ running' = (page # Behind(call.nextMarker))
  /\ statusG' = "OK"
  /\ UNCHANGED <<exists, bucket, changes>>

(***************************************************************************)
(* s3_init: what cloud_create_bucket returns is not looked at.  A bucket has *)
(* to be empty to be deleted.  cloud_list_service hands its filler the names *)
(* of the buckets that the answer has.                                       *)
(***************************************************************************)
CreateBucket(status) ==
  /\ ~running
  /\ exists' \in {exists, TRUE}
  /\ status = "OK" => exists'
  /\ statusG' = status
  /\ call' = None
  /\ UNCHANGED <<bucket, running, changes>>

DeleteBucket(status) ==
  /\ ~running
  /\ exists' \in {exists, FALSE}
  /\ exists' # exists => Stored = {}
  /\ status = "OK" => exists /\ ~exists'
  /\ statusG' = status
  /\ call' = None
  /\ UNCHANGED <<bucket, running, changes>>

ServiceBegins == Begins([proc |-> "service", named |-> FALSE])

\* listServiceCallback, and the end of the request.
ServiceCompletes ==
  /\ Runs("service")
  /\ call' = [call EXCEPT !.named = exists]
  /\ Completes("OK")
  /\ UNCHANGED <<exists, bucket, changes>>

(***************************************************************************)
(* Other machines.                                                          *)
(***************************************************************************)
OthersChange(k, object) ==
  /\ exists /\ changes < MaxChanges
  /\ changes' = changes + 1
  /\ bucket' = [bucket EXCEPT ![k] = object]
  /\ call' = IF running /\ call.proc = "list" /\ object = None
             THEN [call EXCEPT !.stable = @ \ {k}] ELSE call
  /\ UNCHANGED <<exists, running, statusG>>

Next ==
  \/ \E k \in Keys :
       \/ \E data \in Contents, size \in 0..MaxLen : PutBegins(k, data, size)
       \/ GetBegins(k)
       \/ \E status \in {"OK", "Error"} : Delete(k, status)
       \/ \E object \in Contents \cup {None} : OthersChange(k, object)
  \/ \E bufferSize \in 1..BufferSize : PutSends(bufferSize) \/ GetReceives(bufferSize)
  \/ \E status \in {"OK", "Error"} : PutCompletes(status)
  \/ GetCompletes
  \/ ListBegins \/ ServiceBegins \/ ServiceCompletes
  \/ \E status \in {"OK", "Error"} : CreateBucket(status) \/ DeleteBucket(status)
  \/ \E n \in 1..PageSize : ListPage(n)
  \/ Fails

Spec == Init /\ [][Next]_vars

(***************************************************************************)
(* Properties.                                                              *)
(***************************************************************************)
\* This process replaces an object only by as many bytes of the file as it
\* announced, never by the beginning of them, however the transfer was cut into
\* buffers and even if the file is shorter (putObjectDataCallback).
PutsWhole ==
  [][changes' = changes =>
       \A k \in Keys : bucket'[k] \notin {bucket[k], None} =>
         /\ Len(bucket'[k]) = call.contentLength
         /\ IsPrefix(bucket'[k], call.file)]_vars

\* s3_cloudfs_get returns 0 only with the whole object in the file, unless
\* fclose lost some of it, and otherwise leaves a beginning of it: what open
\* takes for a proxy file, and for a local one (getObjectDataCallback).
GetsWhole ==
  call # None /\ call.proc = "get" /\ ~running =>
    /\ statusG = "OK" => call.object # None
    /\ statusG = "OK" /\ ~call.full => call.file = call.object
    /\ IF call.object = None THEN call.file = <<>> ELSE IsPrefix(call.file, call.object)

\* A listing names no key twice, and when it ends well every key that was in
\* the bucket all the time, although other machines add and remove keys between
\* the pages (listBucketCallback, cloud_list_bucket).
ListsExactly ==
  call # None /\ call.proc = "list" =>
    /\ \A k \in Keys : call.listed[k] <= 1
    /\ ~running /\ statusG = "OK" => \A k \in call.stable : call.listed[k] = 1
=============================================================================
