------------------------------- MODULE Names -------------------------------
(***************************************************************************)
(* The name space of one cloudfs: files and directories, their attributes,  *)
(* the handles that are open on them, mounting, and the handlers around the *)
(* data path that CloudFS models.                                           *)
(*                                                                          *)
(* FUSE runs single threaded, so a handler is one step here; what           *)
(* interleaves are the calls of several applications, each with handles of  *)
(* its own.  The threshold is 0 and what a file holds is abstracted to      *)
(* whether it is empty.  The cloud and the lock server answer every call.   *)
(* libfuse is external: it removes an open file by renaming it, which       *)
(* cloudfs_rename only pretends to do.                                      *)
(***************************************************************************)
EXTENDS Naturals, FiniteSets, FiniteSetsExt

CONSTANTS
  Root,         \* the directory cloudfs is mounted on
  Dirs,         \* the names that may become directories
  Files,        \* the names that may become files
  Parent,       \* the directory of each of them
  Keys,
  Key,          \* get_key, as a function from files to keys
  Handles,      \* bound: the files open at a time
  DirHandles,   \* bound: the directories open at a time
  None,         \* no entry, object, metadata or handle
  Link,         \* a symbolic link to the metadata of the name's key
  Hidden,       \* the path libfuse gives a removed file that is open
  Metadata,     \* ".metadata"
  LostFound,    \* "lost+found"
  MaxLost       \* bound: how often a handle and its lock part company

ASSUME NamesAssumption ==
  /\ Parent \in [Dirs \cup Files -> Dirs \cup {Root}]
  /\ Key \in [Files -> Keys]
  /\ MaxLost \in Nat
  /\ IsFiniteSet(Handles) /\ IsFiniteSet(DirHandles)
  /\ {} \notin {Files, Handles, DirHandles}

VARIABLES
  mounted,      \* is the program running?
  metadir,      \* the directory at metadata_path
  dirs,         \* the directories there are below the root
  entry,        \* the entry of each file on the SSD
  meta,         \* the metadata file of each key
  cloud,        \* the keys with an object
  locks,        \* the lock server's entry of each key
  skip,         \* the next release sends nothing
  fh,           \* the open files
  dh,           \* the open directories
  fds,          \* how many descriptors the program has open
  left,         \* history: the stat of the last session that published
  removed,      \* history: files removed while open and not opened since
  lost          \* history: handles that ended or began without their lock

ssd == <<dirs, entry, meta, cloud, metadir>>
open == <<fh, dh, fds>>
lock == <<locks, skip, lost>>
history == <<left, removed>>

vars == <<mounted, ssd, open, lock, history>>

LT == INSTANCE LockTable WITH TracksOwners <- FALSE

Stats == [full : BOOLEAN, mtime : {"clock", "set"}]

NewFile == [full |-> FALSE, mtime |-> "clock"]

Names == Dirs \cup Files \cup {Metadata}

\* fh_t, and the stream of an open directory with what was in it when it was
\* opened, what stayed there and what ever was there, until it was first read.
OpenFiles == [path : Files \cup {Hidden}, write : BOOLEAN, stat : Stats,
              proxy : BOOLEAN, dirty : BOOLEAN]

OpenDirs == [dir : Dirs \cup {Root}, there : BOOLEAN, read : BOOLEAN,
             got : SUBSET Names, since : SUBSET Names, ever : SUBSET Names]

ASSUME DistinctAssumption ==
  /\ None # Link /\ {None, Link} \cap Handles = {}
  /\ (Handles \cup {None, Link}) \cap Stats = {}
  /\ None \notin OpenFiles \cup OpenDirs
  /\ Hidden \notin Files
  /\ (Dirs \cup {Root}) \cap Files = {} /\ Root \notin Dirs
  /\ {Metadata, LostFound} \cap (Dirs \cup Files) = {} /\ Metadata # LostFound

TypeOK ==
  /\ mounted \in BOOLEAN
  /\ metadir \in {"absent", "there", "impossible"}
  /\ dirs \subseteq Dirs
  /\ entry \in [Files -> Stats \cup Handles \cup {None, Link}]
  /\ meta \in [Keys -> Stats \cup {None}]
  /\ cloud \subseteq Keys
  /\ locks \in [Keys -> LT!LockItems({None})]
  /\ skip \in BOOLEAN
  /\ fh \in [Handles -> {None} \cup OpenFiles]
  /\ dh \in [DirHandles -> {None} \cup OpenDirs]
  /\ fds \in Nat
  /\ left \in [Keys -> Stats \cup {None}]
  /\ removed \subseteq Files
  /\ lost \in Nat

(***************************************************************************)
(* metadata_path is put together before -s is read, so it lies below the    *)
(* default SSD directory; where that does not exist it cannot be made.      *)
(***************************************************************************)
Init ==
  /\ mounted = FALSE
  /\ metadir \in {"absent", "impossible"}
  /\ dirs = {}
  /\ entry = [f \in Files |-> None]
  /\ meta = [k \in Keys |-> None]
  /\ cloud = {}
  /\ locks = [k \in Keys |-> LT!Unlocked]
  /\ skip = FALSE
  /\ fh = [h \in Handles |-> None]
  /\ dh = [h \in DirHandles |-> None]
  /\ fds = 0
  /\ left = [k \in Keys |-> None]
  /\ removed = {}
  /\ lost = 0

\* cloudfs_start and cloudfs_init; whether mkdir_if_not_exist succeeded is not
\* looked at.
Mount ==
  /\ ~mounted
  /\ mounted' = TRUE
  /\ metadir' = IF metadir = "absent" THEN "there" ELSE metadir
  /\ skip' = FALSE
  /\ UNCHANGED <<dirs, entry, meta, cloud, open, locks, lost, history>>

\* The kernel unmounts what nobody uses; cloudfs_destroy.
Unmount ==
  /\ mounted
  /\ \A h \in Handles : fh[h] = None
  /\ \A d \in DirHandles : dh[d] = None
  /\ mounted' = FALSE
  /\ UNCHANGED <<ssd, open, lock, history>>

(***************************************************************************)
(* What the handlers and the kernel ask.                                    *)
(***************************************************************************)
IsDir(d) == d = Root \/ d \in dirs

Stat(f) == IF entry[f] \in Handles THEN fh[entry[f]].stat ELSE entry[f]

\* cloudfs_getattr, which the kernel asks before every operation on a name.
Getattr(f) ==
  CASE entry[f] = None -> None
    [] entry[f] = Link -> meta[Key[f]]
    [] OTHER           -> Stat(f)

OpenOn(f) == {h \in Handles : fh[h] # None /\ fh[h].path = f}

\* The entries of d on the SSD.
Children(d) ==
  {n \in dirs : Parent[n] = d} \cup {f \in Files : entry[f] # None /\ Parent[f] = d}
    \cup (IF d = Root THEN {LostFound} ELSE {})
    \cup (IF d = Root /\ metadir = "there" THEN {Metadata} ELSE {})

\* The open directories after name n came into d.
Added(d, n) ==
  [h \in DirHandles |->
     IF dh[h] # None /\ dh[h].dir = d /\ dh[h].there /\ ~dh[h].read
     THEN [dh[h] EXCEPT !.ever = @ \cup {n}] ELSE dh[h]]

\* The open directories after name n left d, and after n itself, if it is a
\* directory, was removed.
Left(d, n) ==
  [h \in DirHandles |->
     CASE dh[h] # None /\ dh[h].dir = d /\ dh[h].there /\ ~dh[h].read
            -> [dh[h] EXCEPT !.since = @ \ {n}]
       [] dh[h] # None /\ dh[h].dir = n /\ dh[h].there
            -> [dh[h] EXCEPT !.there = FALSE]
       [] OTHER -> dh[h]]

(***************************************************************************)
(* Directories.                                                             *)
(***************************************************************************)
Mkdir(d) ==
  /\ mounted
  /\ d \notin dirs
  /\ IsDir(Parent[d])
  /\ dirs' = dirs \cup {d}
  /\ dh' = Added(Parent[d], d)
  /\ UNCHANGED <<mounted, entry, meta, cloud, metadir, fh, fds, lock, history>>

\* rmdir(2) fails where the SSD has an entry left, be it one that the kernel
\* takes for removed.
Rmdir(d) ==
  /\ mounted
  /\ d \in dirs
  /\ Children(d) = {}
  /\ dirs' = dirs \ {d}
  /\ dh' = Left(Parent[d], d)
  /\ UNCHANGED <<mounted, entry, meta, cloud, metadir, fh, fds, lock, history>>

Opendir(h, d) ==
  /\ mounted
  /\ dh[h] = None
  /\ IsDir(d)
  /\ dh' = [dh EXCEPT ![h] = [dir |-> d, there |-> TRUE, read |-> FALSE, got |-> {},
                              since |-> Children(d) \ {LostFound},
                              ever |-> Children(d) \ {LostFound}]]
  /\ fds' = fds + 1
  /\ UNCHANGED <<mounted, ssd, fh, lock, history>>

\* Mistake: reads the directory that is at the path now.
ListedByPath(d) == IF d.read \/ ~IsDir(d.dir) THEN {} ELSE Children(d.dir) \ {LostFound}

\* Mistake: lost+found is handed out.
ListedWithLostFound(d) == IF d.read \/ ~d.there THEN {} ELSE Children(d.dir)

\* cloudfs_readdir goes on where the stream of the handle is.  It hands out
\* everything with its first call; a second one, after rewinddir, finds the
\* end, as every call does when the directory was removed.
Listed(d) == IF d.read \/ ~d.there THEN {} ELSE Children(d.dir) \ {LostFound}

Readdir(h) ==
  /\ mounted
  /\ dh[h] # None
  /\ dh' = [dh EXCEPT ![h].got = Listed(dh[h]), ![h].read = TRUE,
                      ![h].since = IF dh[h].read THEN {} ELSE @]
  /\ UNCHANGED <<mounted, ssd, fh, fds, lock, history>>

Releasedir(h) ==
  /\ mounted
  /\ dh[h] # None
  /\ dh' = [dh EXCEPT ![h] = None]
  /\ fds' = fds - 1
  /\ UNCHANGED <<mounted, ssd, fh, lock, history>>

(***************************************************************************)
(* Files.                                                                   *)
(***************************************************************************)
Mknod(f) ==
  /\ mounted
  /\ entry[f] = None
  /\ IsDir(Parent[f])
  /\ entry' = [entry EXCEPT ![f] = NewFile]
  /\ dh' = Added(Parent[f], f)
  /\ UNCHANGED <<mounted, dirs, meta, cloud, metadir, fh, fds, lock, history>>

\* Applications have a file open once at a time; what happens otherwise is the
\* matter of CloudFS.
MayOpen(f) == Getattr(f) # None /\ OpenOn(f) = {}

LockType(write) == IF write THEN "WRITE" ELSE "READ"

\* acquire_lock_wrapper.  The program has one thread, so nobody releases the
\* lock while it tries: it gets it at once or goes on without it.
Acquire(k, write) ==
  IF LT!AcquireStatus(locks[k], None, LockType(write)) = "OK"
  THEN locks' = [locks EXCEPT ![k] = LT!Acquired(@, None, LockType(write))] /\ UNCHANGED <<skip, lost>>
  ELSE lost < MaxLost /\ lost' = lost + 1 /\ skip' = TRUE /\ UNCHANGED locks

\* The mode and the times of the name are gone with the file it had.
Open(h, f, write) ==
  /\ mounted
  /\ fh[h] = None
  /\ MayOpen(f)
  /\ Acquire(Key[f], write)
  /\ fh' = [fh EXCEPT ![h] = [path |-> f, write |-> write, proxy |-> Key[f] \in cloud, dirty |-> FALSE,
                              stat |-> [NewFile EXCEPT !.full = Key[f] \in cloud]]]
  /\ entry' = [entry EXCEPT ![f] = h]
  /\ fds' = fds + 1
  /\ removed' = removed \ {f}
  /\ UNCHANGED <<mounted, dirs, meta, cloud, metadir, dh, left>>

Write(h) ==
  /\ mounted
  /\ fh[h] # None
  /\ fh[h].write
  /\ fh' = [fh EXCEPT ![h].stat = [full |-> TRUE, mtime |-> "clock"],
                      ![h].dirty = @ \/ fh[h].proxy]
  /\ UNCHANGED <<mounted, ssd, dh, fds, lock, history>>

\* The time of the entry itself: of a closed proxy that is the time of the link,
\* which getattr does not show.
Utimens(f) ==
  /\ mounted
  /\ Getattr(f) # None
  /\ CASE entry[f] = Link -> UNCHANGED <<fh, entry>>
       [] entry[f] \in Handles -> fh' = [fh EXCEPT ![entry[f]].stat.mtime = "set"] /\ UNCHANGED entry
       [] OTHER -> entry' = [entry EXCEPT ![f].mtime = "set"] /\ UNCHANGED fh
  /\ UNCHANGED <<mounted, dirs, meta, cloud, metadir, dh, fds, lock, history>>

\* cloudfs_flush duplicates the descriptor and closes the duplicate.
Flush(h) ==
  /\ mounted
  /\ fh[h] # None
  /\ UNCHANGED vars

\* Mistake: skip stays set.
UnlockSkippingOn(k) ==
  IF skip THEN UNCHANGED <<skip, locks>>
  ELSE locks' = [locks EXCEPT ![k] = LT!Released(@, None)] /\ UNCHANGED skip

\* release_lock_wrapper: sends nothing after an open that went on without.
Unlock(k) ==
  IF skip THEN skip' = FALSE /\ UNCHANGED locks
  ELSE locks' = [locks EXCEPT ![k] = LT!Released(@, None)] /\ UNCHANGED skip

\* A session that read a proxy: the name becomes the link again.
ReleaseClean(h, f) ==
  /\ fh[h].proxy /\ ~fh[h].dirty
  /\ entry' = [entry EXCEPT ![f] = Link]
  /\ UNCHANGED <<meta, cloud, left>>

\* Mistake: the metadata of an object that was there before is kept.
ReleaseUploadsOnce(h, f) ==
  /\ fh[h].proxy => fh[h].dirty
  /\ fh[h].stat.full
  /\ cloud' = cloud \cup {Key[f]}
  /\ left' = [left EXCEPT ![Key[f]] = fh[h].stat]
  /\ IF metadir = "there"
     THEN /\ meta' = [meta EXCEPT ![Key[f]] = IF @ = None THEN fh[h].stat ELSE @]
          /\ entry' = [entry EXCEPT ![f] = Link]
     ELSE entry' = [entry EXCEPT ![f] = fh[h].stat] /\ UNCHANGED meta

\* What a session wrote goes to the cloud; then its stat is kept as metadata and
\* a link takes the place of the file, unless no metadata file can be made.
ReleaseUploads(h, f) ==
  /\ fh[h].proxy => fh[h].dirty
  /\ fh[h].stat.full
  /\ cloud' = cloud \cup {Key[f]}
  /\ left' = [left EXCEPT ![Key[f]] = fh[h].stat]
  /\ IF metadir = "there"
     THEN /\ meta' = [meta EXCEPT ![Key[f]] = fh[h].stat]
          /\ entry' = [entry EXCEPT ![f] = Link]
     ELSE entry' = [entry EXCEPT ![f] = fh[h].stat] /\ UNCHANGED meta

\* Mistake: asks for the dirty bit of a file that is no proxy.
ReleaseKeepsClean(h, f) ==
  /\ ~fh[h].proxy /\ ~fh[h].dirty
  /\ entry' = [entry EXCEPT ![f] = fh[h].stat]
  /\ UNCHANGED <<meta, cloud, left>>

\* An empty file stays.
ReleaseKeeps(h, f) ==
  /\ ~fh[h].proxy /\ ~fh[h].stat.full
  /\ entry' = [entry EXCEPT ![f] = fh[h].stat]
  /\ UNCHANGED <<meta, cloud, left>>

Release(h) ==
  /\ mounted
  /\ fh[h] # None /\ fh[h].path # Hidden
  /\ LET f == fh[h].path
     IN  /\ ReleaseClean(h, f) \/ ReleaseUploads(h, f) \/ ReleaseKeeps(h, f)
         /\ Unlock(Key[f])
  /\ fh' = [fh EXCEPT ![h] = None]
  /\ fds' = fds - 1
  /\ UNCHANGED <<mounted, dirs, metadir, dh, removed, lost>>

\* lstat finds nothing under the hidden path, and the lock server no lock of its
\* key: the file of the handle stays where it is, and so does the lock.
ReleaseHidden(h) ==
  /\ mounted
  /\ fh[h] # None /\ fh[h].path = Hidden
  /\ entry' = [f \in Files |-> IF entry[f] = h THEN fh[h].stat ELSE entry[f]]
  /\ skip' = FALSE
  /\ fh' = [fh EXCEPT ![h] = None]
  /\ fds' = fds - 1
  /\ UNCHANGED <<mounted, dirs, meta, cloud, metadir, dh, locks, lost, history>>

(***************************************************************************)
(* Removing a file.                                                         *)
(***************************************************************************)
\* Mistake: leaves the metadata.
UnlinkKeepingMetadata(f) ==
  /\ mounted
  /\ Getattr(f) # None
  /\ OpenOn(f) = {}
  /\ cloud' = IF meta[Key[f]] # None THEN cloud \ {Key[f]} ELSE cloud
  /\ entry' = [entry EXCEPT ![f] = None]
  /\ dh' = Left(Parent[f], f)
  /\ removed' = removed \ {f}
  /\ UNCHANGED <<mounted, dirs, meta, left, metadir, fh, fds, lock>>

\* Metadata means that there is an object.
Unlink(f) ==
  /\ mounted
  /\ Getattr(f) # None
  /\ OpenOn(f) = {}
  /\ IF meta[Key[f]] # None
     THEN /\ cloud' = cloud \ {Key[f]}
          /\ meta' = [meta EXCEPT ![Key[f]] = None]
          /\ left' = [left EXCEPT ![Key[f]] = None]
     ELSE UNCHANGED <<cloud, meta, left>>
  /\ entry' = [entry EXCEPT ![f] = None]
  /\ dh' = Left(Parent[f], f)
  /\ removed' = removed \ {f}
  /\ UNCHANGED <<mounted, dirs, metadir, fh, fds, lock>>

\* libfuse asks cloudfs_rename to hide an open file that is removed, and believes
\* that it did.
Hide(f) ==
  /\ mounted
  /\ OpenOn(f) # {}
  /\ lost < MaxLost
  /\ lost' = lost + 1
  /\ fh' = [h \in Handles |-> IF h \in OpenOn(f) THEN [fh[h] EXCEPT !.path = Hidden] ELSE fh[h]]
  /\ removed' = removed \cup {f}
  /\ UNCHANGED <<mounted, ssd, dh, fds, locks, skip, left>>

\* The handlers that report success and do nothing: setxattr, listxattr,
\* removexattr, readlink, symlink, link, chmod, chown, statfs, fsync, ftruncate.
Ignored == mounted /\ UNCHANGED vars

Next ==
  \/ Mount \/ Unmount \/ Ignored
  \/ \E d \in Dirs : Mkdir(d) \/ Rmdir(d)
  \/ \E h \in DirHandles :
       \/ \E d \in Dirs \cup {Root} : Opendir(h, d)
       \/ Readdir(h) \/ Releasedir(h)
  \/ \E f \in Files :
       \/ Mknod(f) \/ Utimens(f) \/ Unlink(f) \/ Hide(f)
       \/ \E h \in Handles, write \in BOOLEAN : Open(h, f, write)
  \/ \E h \in Handles : Write(h) \/ Flush(h) \/ Release(h) \/ ReleaseHidden(h)

Spec == Init /\ [][Next]_vars

(***************************************************************************)
(* Properties.                                                              *)
(***************************************************************************)
\* stat of a closed proxy shows what the last session that wrote left, whichever
\* of the paths with that key it used: sessions that read in between, utimens,
\* mounting and sessions on a removed name do not change it.
ProxyShowsLastWriter ==
  \A f \in Files :
    entry[f] = Link /\ Getattr(f) # None => Getattr(f) = left[Key[f]]

\* No garbage in the bucket: where metadata can be kept, every object has some,
\* and it belongs to a name that rm can still find, so that removing every file
\* and directory removes every object, with paths that share a key and files
\* removed while they are open.
ObjectsCanBeRemoved ==
  metadir = "there" =>
    \A k \in Keys :
      /\ (k \in cloud) = (meta[k] # None)
      /\ k \in cloud => \E f \in Files : Key[f] = k /\ entry[f] # None

\* A file that is not empty stays on the SSD only when its removal while it was
\* open went wrong, and only until it is opened again.
OnlyRemovedFilesStay ==
  metadir = "there" =>
    \A f \in Files :
      OpenOn(f) = {} /\ entry[f] \notin {None, Link} /\ Stat(f).full => f \in removed

\* The first listing through a handle names what was in that directory all the
\* time since it was opened, and nothing that never was; a directory made anew
\* under the same name is another one.
ListingIsOfThisDirectory ==
  \A h \in DirHandles :
    dh[h] # None /\ dh[h].read => dh[h].since \subseteq dh[h].got /\ dh[h].got \subseteq dh[h].ever

\* What the lock server has granted and not taken back.
Grants == UNION {{<<k, n>> : n \in 1..locks[k].i} : k \in Keys}

\* The lock server never holds more than the open files and the times a handle
\* and its lock parted company account for.
LocksAreAccountedFor ==
  Cardinality(Grants) + (IF skip THEN 1 ELSE 0)
    <= Quantify(Handles, LAMBDA h : fh[h] # None) + lost
=============================================================================
