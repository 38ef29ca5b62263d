------------------------------- MODULE CloudFS -------------------------------
(***************************************************************************)
(* The data path of cloudfs: the FUSE handlers that move a file between the *)
(* SSD of a machine and the cloud, on several machines that share a bucket  *)
(* and a lock server.                                                       *)
(*                                                                          *)
(* FUSE runs single threaded (option -s), so a machine executes one handler *)
(* at a time; handlers of different machines interleave between any two     *)
(* system, cloud or lock calls, and a machine may stop between any two of   *)
(* them.  pc[m] names the call that comes next.                             *)
(*                                                                          *)
(* A name on the SSD is absent, a symbolic link to the metadata of its key, *)
(* a file with contents, or the file a handle has open.  Every open unlinks *)
(* the name and creates a new file under it, so a file is open through one  *)
(* handle at most, and a handle whose name was replaced keeps its file.     *)
(* Contents are sequences of blocks of 1 KB, the unit of the threshold.     *)
(***************************************************************************)
EXTENDS Naturals, Sequences

CONSTANTS
  Machines,
  Paths,
  Keys,
  Key,          \* get_key, as a function from paths to keys
  Handles,      \* the file_handlers a machine may have open
  Blocks,       \* blocks an application writes
  Zero,         \* the block of a hole
  StatBlock,    \* a block that is a struct stat
  None,         \* no entry, object, metadata, handle or handler
  Link,         \* a symbolic link to the metadata of the name's key
  Cleared,      \* metadata truncated to zero bytes
  Threshold,    \* in blocks
  MaxLen,       \* bound: blocks of a file
  MayGiveUp,    \* may acquire_lock_wrapper run out of attempts?
  Shared,       \* may one machine open a file it already has open?
  MayTruncate,  \* do applications call truncate?
  Faults,       \* what may go wrong
  MaxFaults,    \* bound: how often
  MaxGrants     \* bound: how often a key is locked at the same time

FaultKinds == {"crash", "open", "get", "put", "delete", "disk"}

Data     == Blocks \cup {Zero, StatBlock}
Contents == Seq(Data)

ASSUME CloudFSAssumption ==
  /\ Key \in [Paths -> Keys]
  /\ Threshold \in Nat /\ MaxLen \in Nat /\ MaxFaults \in Nat /\ MaxGrants \in Nat
  /\ MayGiveUp \in BOOLEAN /\ Shared \in BOOLEAN /\ MayTruncate \in BOOLEAN
  /\ Faults \subseteq FaultKinds

VARIABLES
  ssd,          \* ssd[m][p]: the entry of p in the SSD of m
  meta,         \* meta[m][k]: the metadata file of k on m
  cloud,        \* cloud[k]: the object under k in the bucket
  fh,           \* fh[m][h]: the file_handler h of m
  pc,           \* pc[m]: the next call of the handler m executes
  cur,          \* cur[m]: arguments and locals of that handler
  skip,         \* skip[m]: the next release sends nothing
  locks,        \* locks[k]: the lock server's entry of k
  faults        \* how much went wrong so far

vars == <<ssd, meta, cloud, fh, pc, cur, skip, locks, faults>>

LT == INSTANCE LockTable WITH TracksOwners <- FALSE

(***************************************************************************)
(* Types.  base, changed and the stat of an open are history: what the      *)
(* session found when it started, whether it has edits that were not        *)
(* published, and what getattr said when the kernel looked the name up.     *)
(***************************************************************************)
Stats == [type : {"file", "link"}, size : Nat]

Entries == Contents \cup Handles \cup {None, Link}

FileHandlers ==
  [path : Paths, flags : LT!LockTypes, file : Contents, proxy : BOOLEAN,
   dirty : BOOLEAN, base : Contents, changed : BOOLEAN]

Calls == [path : Paths, flags : LT!LockTypes, handle : Handles \cup {None},
          stat : Stats \cup {None}]

\* What the values of a name, a handle and the result of getattr are told
\* apart by.  Nobody writes a struct stat.
ASSUME DistinctAssumption ==
  /\ Handles \cap ({None, Link} \cup Contents) = {}
  /\ {None, Link} \cap Contents = {} /\ None # Link
  /\ {None, Cleared} \cap Stats = {} /\ None # Cleared
  /\ None \notin FileHandlers
  /\ StatBlock \notin Blocks \cup {Zero}

Labels == {"idle", "acquire", "unlink", "get", "open", "s3_delete",
           "unlink_meta", "put", "write_meta", "unlink_tmp", "symlink",
           "unlock", "unlink_entry"}

TypeOK ==
  /\ ssd \in [Machines -> [Paths -> Entries]]
  /\ meta \in [Machines -> [Keys -> Stats \cup {None, Cleared}]]
  /\ cloud \in [Keys -> Contents \cup {None}]
  /\ fh \in [Machines -> [Handles -> FileHandlers \cup {None}]]
  /\ pc \in [Machines -> Labels]
  /\ cur \in [Machines -> Calls \cup {None}]
  /\ skip \in [Machines -> BOOLEAN]
  /\ locks \in [Keys -> LT!LockItems(Machines)]
  /\ faults \in Nat

Init ==
  /\ ssd = [m \in Machines |-> [p \in Paths |-> None]]
  /\ meta = [m \in Machines |-> [k \in Keys |-> None]]
  /\ cloud = [k \in Keys |-> None]
  /\ fh = [m \in Machines |-> [h \in Handles |-> None]]
  /\ pc = [m \in Machines |-> "idle"]
  /\ cur = [m \in Machines |-> None]
  /\ skip = [m \in Machines |-> FALSE]
  /\ locks = [k \in Keys |-> LT!Unlocked]
  /\ faults = 0

(***************************************************************************)
(* Files.                                                                   *)
(***************************************************************************)
Entry(m, p) == ssd[m][p]

\* The bytes of the file under p; meaningful when p is neither absent nor a link.
File(m, p) == IF Entry(m, p) \in Handles THEN fh[m][Entry(m, p)].file ELSE Entry(m, p)

Lstat(m, p) ==
  CASE Entry(m, p) = None -> None
    [] Entry(m, p) = Link -> [type |-> "link", size |-> 0]
    [] OTHER -> [type |-> "file", size |-> Len(File(m, p))]

AboveThresholdLate(st) ==   \* mistake: off by one
  IF st.type = "link" THEN Threshold = 0 ELSE st.size > Threshold + 1

AboveThresholdEarly(st) ==  \* mistake: off by one
  IF st.type = "link" THEN Threshold = 0 ELSE st.size >= Threshold

\* st_size > threshold.  The target of a link is longer than 0 bytes and
\* shorter than one block.
AboveThreshold(st) ==
  IF st.type = "link" THEN Threshold = 0 ELSE st.size > Threshold

\* cloudfs_getattr: a link is read through, to the struct stat it leads to.
Getattr(m, p) == IF Entry(m, p) = Link THEN meta[m][Key[p]] ELSE Lstat(m, p)

\* The kernel looks a name up before it opens, removes or truncates it, and
\* goes on only with what getattr says is a regular file.
IsFile(m, p) == Getattr(m, p) \in [type : {"file"}, size : Nat]

OpenOn(m, p) == {h \in Handles : fh[m][h] # None /\ fh[m][h].path = p}

Resized(c, n) == [i \in 1..n |-> IF i <= Len(c) THEN c[i] ELSE Zero]

Written(c, offset, b) ==
  [Resized(c, IF offset < Len(c) THEN Len(c) ELSE offset + 1) EXCEPT ![offset + 1] = b]

\* What the SSD of m looks like when the handles in hs are gone: their files
\* stay where they have a name.
Closed(m, hs) ==
  [p \in Paths |-> IF Entry(m, p) \in hs THEN File(m, p) ELSE Entry(m, p)]

(***************************************************************************)
(* Control.                                                                 *)
(***************************************************************************)
At(m, label) == pc[m] = label

Goto(m, label) == pc' = [pc EXCEPT ![m] = label] /\ UNCHANGED cur

Enter(m, label, call) == pc' = [pc EXCEPT ![m] = label] /\ cur' = [cur EXCEPT ![m] = call]

Return(m) == pc' = [pc EXCEPT ![m] = "idle"] /\ cur' = [cur EXCEPT ![m] = None]

CurKey(m) == Key[cur[m].path]

Fault(kind) == kind \in Faults /\ faults < MaxFaults /\ faults' = faults + 1

NoFault == UNCHANGED faults

SetEntry(m, p, e) == ssd' = [ssd EXCEPT ![m][p] = e]

(***************************************************************************)
(* cloudfs_mknod and cloudfs_truncate.  truncate follows a link: it cuts    *)
(* the metadata, which is less than a block long.                           *)
(***************************************************************************)
Mknod(m, p) ==
  /\ At(m, "idle")
  /\ Entry(m, p) = None
  /\ SetEntry(m, p, <<>>)
  /\ UNCHANGED <<meta, cloud, fh, pc, cur, skip, locks, faults>>

TruncateFile(m, p, n) ==
  /\ Entry(m, p) # Link
  /\ IF Entry(m, p) \in Handles
     THEN /\ fh' = [fh EXCEPT ![m][Entry(m, p)].file = Resized(@, n),
                              ![m][Entry(m, p)].changed = TRUE]
          /\ UNCHANGED ssd
     ELSE SetEntry(m, p, Resized(Entry(m, p), n)) /\ UNCHANGED fh
  /\ UNCHANGED meta

TruncateLink(m, p, n) ==
  /\ Entry(m, p) = Link
  /\ meta' = [meta EXCEPT ![m][Key[p]] = IF n = 0 THEN Cleared ELSE @]
  /\ UNCHANGED <<ssd, fh>>

Truncate(m, p, n) ==
  /\ MayTruncate
  /\ At(m, "idle")
  /\ IsFile(m, p)
  /\ TruncateFile(m, p, n) \/ TruncateLink(m, p, n)
  /\ UNCHANGED <<cloud, pc, cur, skip, locks, faults>>

(***************************************************************************)
(* cloudfs_open: lock, unlink the name, fetch the object into a new file    *)
(* under it, open that file.                                                *)
(***************************************************************************)
Open(m, h, p, flags) ==
  /\ At(m, "idle")
  /\ fh[m][h] = None
  /\ Shared \/ OpenOn(m, p) = {}
  /\ IsFile(m, p)
  /\ Enter(m, "acquire", [path |-> p, flags |-> flags, handle |-> h, stat |-> Getattr(m, p)])
  /\ UNCHANGED <<ssd, meta, cloud, fh, skip, locks, faults>>

\* Mistake: the answer of the server is not looked at.
LockIgnored(m) ==
  /\ At(m, "acquire")
  /\ Goto(m, "unlink")
  /\ UNCHANGED <<ssd, meta, cloud, fh, skip, locks, faults>>

\* The handler waits until the server grants the lock ...
LockGranted(m) ==
  /\ At(m, "acquire")
  /\ locks[CurKey(m)].i < MaxGrants
  /\ LT!AcquireStatus(locks[CurKey(m)], m, cur[m].flags) = "OK"
  /\ locks' = [locks EXCEPT ![CurKey(m)] = LT!Acquired(@, m, cur[m].flags)]
  /\ Goto(m, "unlink")
  /\ UNCHANGED <<ssd, meta, cloud, fh, skip, faults>>

\* Mistake: the attempts are not limited.
LockNeverGivenUp(m) == FALSE /\ UNCHANGED vars

\* ... or goes on without it after MAXBLOCK attempts.
LockGivenUp(m) ==
  /\ MayGiveUp
  /\ At(m, "acquire")
  /\ skip' = [skip EXCEPT ![m] = TRUE]
  /\ Goto(m, "unlink")
  /\ UNCHANGED <<ssd, meta, cloud, fh, locks, faults>>

OpenUnlinks(m) ==
  /\ At(m, "unlink")
  /\ SetEntry(m, cur[m].path, None)
  /\ Goto(m, "get")
  /\ UNCHANGED <<meta, cloud, fh, skip, locks, faults>>

\* Mistake: dirty keeps what malloc left in it.
NewHandlerUninitialised(p, flags, proxy, data) ==
  [path |-> p, flags |-> flags, file |-> data, proxy |-> proxy, dirty |-> None,
   base |-> data, changed |-> FALSE]

\* fh_t_new, and what cloudfs_open puts into it.
NewHandler(p, flags, proxy, data) ==
  [path |-> p, flags |-> flags, file |-> data, proxy |-> proxy, dirty |-> FALSE,
   base |-> data, changed |-> FALSE]

\* s3_cloudfs_get creates the file and copies the object into it.  Whatever
\* goes wrong on the way, the handler takes the file for a local one, except
\* when the disk is full in fclose: its result is ignored.
Fetched(m, proxy, data) ==
  /\ fh' = [fh EXCEPT ![m][cur[m].handle] =
              NewHandler(cur[m].path, cur[m].flags, proxy, data)]
  /\ SetEntry(m, cur[m].path, cur[m].handle)

\* Mistake: asks the metadata of this machine whether there is an object.
OpenFetchesIfMetadata(m) ==
  /\ At(m, "get")
  /\ LET object == IF meta[m][CurKey(m)] = None THEN None ELSE cloud[CurKey(m)]
     IN  Fetched(m, object # None, IF object = None THEN <<>> ELSE object)
  /\ Goto(m, "open")
  /\ UNCHANGED <<meta, cloud, skip, locks, faults>>

OpenFetches(m) ==
  /\ At(m, "get")
  /\ LET object == cloud[CurKey(m)]
     IN  \/ Fetched(m, object # None, IF object = None THEN <<>> ELSE object) /\ NoFault
         \/ /\ object # None
            /\ \E n \in 0..Len(object) :
                 \/ Fetched(m, FALSE, SubSeq(object, 1, n)) /\ Fault("get")
                 \/ Fetched(m, TRUE, SubSeq(object, 1, n)) /\ Fault("disk")
  /\ Goto(m, "open")
  /\ UNCHANGED <<meta, cloud, skip, locks>>

OpenReturns(m) ==
  /\ At(m, "open")
  /\ Return(m)
  /\ UNCHANGED <<ssd, meta, cloud, fh, skip, locks, faults>>

\* open() fails: the handler returns with the file fetched and the lock held.
OpenFails(m) ==
  /\ At(m, "open")
  /\ Fault("open")
  /\ fh' = [fh EXCEPT ![m][cur[m].handle] = None]
  /\ ssd' = [ssd EXCEPT ![m] = Closed(m, {cur[m].handle})]
  /\ Return(m)
  /\ UNCHANGED <<meta, cloud, skip, locks>>

\* Mistake: the dirty bit is forgotten.
WriteClean(m, h, offset, b) ==
  /\ At(m, "idle")
  /\ fh[m][h] # None
  /\ fh[m][h].flags = "WRITE"
  /\ fh' = [fh EXCEPT ![m][h].file = Written(@, offset, b),
                      ![m][h].changed = TRUE]
  /\ UNCHANGED <<ssd, meta, cloud, pc, cur, skip, locks, faults>>

\* cloudfs_write of one block.
Write(m, h, offset, b) ==
  /\ At(m, "idle")
  /\ fh[m][h] # None
  /\ fh[m][h].flags = "WRITE"
  /\ fh' = [fh EXCEPT ![m][h] =
              [fh[m][h] EXCEPT !.file = Written(@, offset, b),
                               !.dirty = @ \/ fh[m][h].proxy,
                               !.changed = TRUE]]
  /\ UNCHANGED <<ssd, meta, cloud, pc, cur, skip, locks, faults>>

(***************************************************************************)
(* cloudfs_release: lstat the name, then one of three ways to leave it.     *)
(***************************************************************************)
ReleaseStep(f, st) ==
  CASE st = None                            -> "unlock"
    [] f.proxy /\ f.dirty /\ st # None      -> IF AboveThreshold(st) THEN "put" ELSE "s3_delete"
    [] f.proxy /\ ~f.dirty /\ st # None     -> "unlink_tmp"
    [] ~f.proxy /\ st # None                -> IF AboveThreshold(st) THEN "put" ELSE "unlock"

Release(m, h) ==
  /\ At(m, "idle")
  /\ fh[m][h] # None
  /\ LET f  == fh[m][h]
         st == Lstat(m, f.path)
     IN  Enter(m, ReleaseStep(f, st),
               [path |-> f.path, flags |-> f.flags, handle |-> h, stat |-> st])
  /\ UNCHANGED <<ssd, meta, cloud, fh, skip, locks, faults>>

\* The edits of the session that closes are published.
Published(m) ==
  IF cur[m].handle # None /\ Entry(m, cur[m].path) = cur[m].handle
  THEN [fh EXCEPT ![m][cur[m].handle].changed = FALSE]
  ELSE fh

\* s3_delete of cloudfs_release and of cloudfs_unlink; its result is ignored.
S3Delete(m) ==
  /\ At(m, "s3_delete")
  /\ \/ /\ cloud' = [cloud EXCEPT ![CurKey(m)] = None]
        /\ fh' = Published(m)
        /\ NoFault
     \/ Fault("delete") /\ UNCHANGED <<cloud, fh>>
  /\ Goto(m, "unlink_meta")
  /\ UNCHANGED <<ssd, meta, skip, locks>>

\* Mistake: the metadata stays.
UnlinkMetaNot(m) ==
  /\ At(m, "unlink_meta")
  /\ Goto(m, IF cur[m].handle = None THEN "unlink_entry" ELSE "unlock")
  /\ UNCHANGED <<ssd, meta, cloud, fh, skip, locks, faults>>

UnlinkMeta(m) ==
  /\ At(m, "unlink_meta")
  /\ meta' = [meta EXCEPT ![m][CurKey(m)] = None]
  /\ Goto(m, IF cur[m].handle = None THEN "unlink_entry" ELSE "unlock")
  /\ UNCHANGED <<ssd, cloud, fh, skip, locks, faults>>

\* Mistake: uploads the file at metadata_path.
UploadedMetadata(m) == IF meta[m][CurKey(m)] = None THEN None ELSE <<StatBlock>>

\* s3_cloudfs_put opens the name, following a link, and uploads as many bytes
\* as lstat reports; its result is ignored.
Uploaded(m) ==
  LET p == cur[m].path
  IN  CASE Entry(m, p) = None -> None
        [] Entry(m, p) = Link -> IF meta[m][Key[p]] = None THEN None ELSE <<StatBlock>>
        [] OTHER -> File(m, p)

S3Put(m) ==
  /\ At(m, "put")
  /\ \/ /\ cloud' = IF Uploaded(m) = None THEN cloud
                    ELSE [cloud EXCEPT ![CurKey(m)] = Uploaded(m)]
        /\ fh' = Published(m)
        /\ NoFault
     \/ Fault("put") /\ UNCHANGED <<cloud, fh>>
  /\ Goto(m, "write_meta")
  /\ UNCHANGED <<ssd, meta, skip, locks>>

\* Mistake: metadata that exists is not updated.
WriteMetaOnce(m) ==
  /\ At(m, "write_meta")
  /\ meta' = IF meta[m][CurKey(m)] = None
             THEN [meta EXCEPT ![m][CurKey(m)] = cur[m].stat] ELSE meta
  /\ Goto(m, "unlink_tmp")
  /\ UNCHANGED <<ssd, cloud, fh, skip, locks, faults>>

\* The metadata file is opened with O_TRUNC and the result of lstat written.
WriteMeta(m) ==
  /\ At(m, "write_meta")
  /\ \/ /\ meta' = [meta EXCEPT ![m][CurKey(m)] = cur[m].stat]
        /\ NoFault
        /\ Goto(m, "unlink_tmp")
     \/ /\ \E left \in {meta[m][CurKey(m)], Cleared} :
             meta' = [meta EXCEPT ![m][CurKey(m)] = left]
        /\ Fault("disk")
        /\ Goto(m, "unlock")
  /\ UNCHANGED <<ssd, cloud, fh, skip, locks>>

UnlinkTmp(m) ==
  /\ At(m, "unlink_tmp")
  /\ SetEntry(m, cur[m].path, None)
  /\ Goto(m, "symlink")
  /\ UNCHANGED <<meta, cloud, fh, skip, locks, faults>>

Symlink(m) ==
  /\ At(m, "symlink")
  /\ SetEntry(m, cur[m].path, Link)
  /\ Goto(m, "unlock")
  /\ UNCHANGED <<meta, cloud, fh, skip, locks, faults>>

\* release_lock_wrapper, then the handle is closed.
Unlock(m) ==
  /\ At(m, "unlock")
  /\ IF skip[m]
     THEN skip' = [skip EXCEPT ![m] = FALSE] /\ UNCHANGED locks
     ELSE /\ locks' = [locks EXCEPT ![CurKey(m)] = LT!Released(@, m)]
          /\ UNCHANGED skip
  /\ fh' = [fh EXCEPT ![m][cur[m].handle] = None]
  /\ ssd' = [ssd EXCEPT ![m] = Closed(m, {cur[m].handle})]
  /\ Return(m)
  /\ UNCHANGED <<meta, cloud, faults>>

(***************************************************************************)
(* cloudfs_unlink.  libfuse calls it for a file nobody has open; one that   *)
(* is open it renames, which cloudfs_rename only pretends to do.            *)
(***************************************************************************)
Unlink(m, p) ==
  /\ At(m, "idle")
  /\ IsFile(m, p)
  /\ OpenOn(m, p) = {}
  /\ Enter(m, IF meta[m][Key[p]] # None THEN "s3_delete" ELSE "unlink_entry",
           [path |-> p, flags |-> "WRITE", handle |-> None, stat |-> None])
  /\ UNCHANGED <<ssd, meta, cloud, fh, skip, locks, faults>>

UnlinkEntry(m) ==
  /\ At(m, "unlink_entry")
  /\ SetEntry(m, cur[m].path, None)
  /\ Return(m)
  /\ UNCHANGED <<meta, cloud, fh, skip, locks, faults>>

(***************************************************************************)
(* The process of m ends and is started again on the same directories.      *)
(***************************************************************************)
Crash(m) ==
  /\ Fault("crash")
  /\ fh' = [fh EXCEPT ![m] = [h \in Handles |-> None]]
  /\ ssd' = [ssd EXCEPT ![m] = Closed(m, Handles)]
  /\ skip' = [skip EXCEPT ![m] = FALSE]
  /\ Return(m)
  /\ UNCHANGED <<meta, cloud, locks>>

HandlerStep(m) ==
  \/ LockGranted(m) \/ LockGivenUp(m)
  \/ OpenUnlinks(m) \/ OpenFetches(m) \/ OpenReturns(m) \/ OpenFails(m)
  \/ S3Delete(m) \/ UnlinkMeta(m) \/ S3Put(m) \/ WriteMeta(m)
  \/ UnlinkTmp(m) \/ Symlink(m) \/ Unlock(m) \/ UnlinkEntry(m)

Next ==
  \E m \in Machines :
    \/ \E p \in Paths :
         \/ Mknod(m, p)
         \/ Unlink(m, p)
         \/ \E n \in 0..MaxLen : Truncate(m, p, n)
         \/ \E h \in Handles, flags \in LT!LockTypes : Open(m, h, p, flags)
    \/ \E h \in Handles :
         \/ Release(m, h)
         \/ \E offset \in 0..(MaxLen - 1), b \in Blocks : Write(m, h, offset, b)
    \/ HandlerStep(m)
    \/ Crash(m)

Spec == Init /\ [][Next]_vars

\* A handler that has started goes on: none of its calls blocks for ever.
FairSpec == Spec /\ \A m \in Machines : WF_vars(HandlerStep(m))

(***************************************************************************)
(* Properties.                                                              *)
(***************************************************************************)
Quiet == \A m \in Machines : At(m, "idle")

ClosedOn(m, p) == At(m, "idle") /\ OpenOn(m, p) = {}

\* ls is right without the cloud: the struct stat behind the link of a closed
\* file describes the object an open would fetch (WriteMeta against S3Put).
GetattrTruthful ==
  \A m \in Machines, p \in Paths :
    ClosedOn(m, p) /\ Entry(m, p) = Link =>
      /\ cloud[Key[p]] # None
      /\ meta[m][Key[p]] = [type |-> "file", size |-> Len(cloud[Key[p]])]

\* An open delivers a file of the size that getattr gave for the name, be it a
\* proxy or a file kept on the SSD: unlinking the name, fetching into a new
\* file and falling back to that file on a miss lose nothing.
OpenDeliversFile ==
  \A m \in Machines :
    At(m, "open") => Len(fh[m][cur[m].handle].file) = cur[m].stat.size

\* What rm has to find to clean up: when no handler runs, exactly the keys with
\* an object have metadata, and metadata belongs to a name that still exists.
MetadataMatchesCloud ==
  Quiet =>
    \A m \in Machines, k \in Keys :
      /\ (cloud[k] # None) = (meta[m][k] # None)
      /\ meta[m][k] # None => \E p \in Paths : Key[p] = k /\ Entry(m, p) # None

\* A file above the threshold does not stay on the SSD after it was closed.
BigFilesOffSSD ==
  \A m \in Machines, p \in Paths :
    ClosedOn(m, p) /\ Entry(m, p) \notin {None, Link} =>
      Len(File(m, p)) <= Threshold

\* An object never holds the struct stat of a metadata file: the name a release
\* uploads is the file of the session and not yet its link.
CloudHoldsFileData ==
  \A k \in Keys : cloud[k] = None \/ \A i \in DOMAIN cloud[k] : cloud[k][i] # StatBlock

\* No lost update: a session about to replace an object has seen it.
PublishersAreCurrent ==
  \A m \in Machines :
    /\ pc[m] \in {"put", "s3_delete"}
    /\ cur[m].handle # None
    /\ cloud[CurKey(m)] # None
    => cloud[CurKey(m)] = fh[m][cur[m].handle].base

\* Every name that is a link leads to metadata, on every machine that has one:
\* otherwise getattr fails and the file can be neither opened nor removed.
ProxyHasMetadata ==
  \A m \in Machines, p \in Paths :
    ClosedOn(m, p) /\ Entry(m, p) = Link => meta[m][Key[p]] # None

\* Only what exceeds the threshold is in the cloud, whatever goes wrong: release
\* decides on the size it has just read and put uploads that file.
CloudObjectsAreBig ==
  \A k \in Keys : cloud[k] # None => Len(cloud[k]) > Threshold

\* Every handler comes to its end, with or without the lock, and through every
\* error path.
HandlersFinish == \A m \in Machines : ~At(m, "idle") ~> At(m, "idle")

(***************************************************************************)
(* The store that applications see.                                         *)
(***************************************************************************)
BoundedContents == UNION {[1..n -> Data] : n \in 0..MaxLen}

\* What is published under a key is its object ...
StoreSeen == [k \in Keys |-> IF cloud[k] = None THEN <<>> ELSE cloud[k]]

\* ... and what a session has is the file of its handle.
SessionSeen ==
  [s \in Machines \X Handles |->
     LET f == fh[s[1]][s[2]]
     IN  IF f = None THEN None
         ELSE [key |-> Key[f.path], data |-> f.file, changed |-> f.changed]]

\* The mark of a closed session is no session.
ASSUME SessionAssumption == None \notin [key : Keys, data : Contents, changed : BOOLEAN]

Store ==
  INSTANCE SessionStore WITH
    Sessions  <- Machines \X Handles,
    Contents  <- BoundedContents,
    NoSession <- None,
    MayLose   <- "crash" \in Faults,
    store     <- StoreSeen,
    session   <- SessionSeen

\* With threshold 0 cloudfs keeps the promise of close-to-open consistency: a
\* session reads what was last published when it fetches, and what it wrote is
\* published, whole and before it ends.
ImplementsSessionStore == Store!Spec
=============================================================================
