----------------------------- MODULE NamesProofs -----------------------------
(***************************************************************************)
(* What the name space promises, for any directories and files, whichever   *)
(* of them share a key, and any number of handles.                          *)
(***************************************************************************)
EXTENDS Names, FiniteSetTheorems, TLAPS

OpenFds == {h \in Handles : fh[h] # None}
OpenDhs == {h \in DirHandles : dh[h] # None}

(***************************************************************************)
(* The invariant.                                                           *)
(***************************************************************************)
\* Before the first mount there is nothing, and where the metadata directory
\* could not be made there is no metadata; the kernel unmounts what is closed.
MetadataKept ==
  /\ mounted => metadir # "absent"
  /\ metadir # "there" => meta = [k \in Keys |-> None]
  /\ metadir = "absent" => cloud = {} /\ entry = [f \in Files |-> None]
  /\ ~mounted => OpenDhs = {}

\* Metadata is the stat that the last publishing session left.
MetadataIsLast == \A k \in Keys : meta[k] # None => meta[k] = left[k]

\* An open file lies under the path of its handle, or its handle has the hidden
\* path because the file was removed.
HandlesLead ==
  \A f \in Files :
    entry[f] \in Handles =>
      /\ fh[entry[f]] # None
      /\ \/ fh[entry[f]].path = f
         \/ fh[entry[f]].path = Hidden /\ f \in removed

\* The path of an open file leads to it, unless it is the hidden one.
PathsLead ==
  \A h \in Handles :
    fh[h] # None => fh[h].path = Hidden \/ entry[fh[h].path] = h

\* What is kept on the SSD is empty, or should have been removed.
KeptIsEmpty ==
  metadir = "there" =>
    \A f \in Files : entry[f] \in Stats /\ entry[f].full => f \in removed

\* Every descriptor belongs to a handle that is open, whatever way a release takes.
DescriptorsAreHandles ==
  fds = Quantify(Handles, LAMBDA h : fh[h] # None) + Quantify(DirHandles, LAMBDA h : dh[h] # None)

\* What a listing of each directory names.
Kids == [d \in Dirs \cup {Root} |-> Children(d) \ {LostFound}]

\* An open directory that was not read yet knows what is in it; one that was
\* removed was empty.
StreamOK(d) ==
  IF d.read THEN d.since \subseteq d.got /\ d.got \subseteq d.ever
  ELSE IF d.there THEN d.since \subseteq Kids[d.dir] /\ Kids[d.dir] \subseteq d.ever
       ELSE d.since = {}

StreamsAreLive == \A h \in DirHandles : dh[h] # None => StreamOK(dh[h])

(***************************************************************************)
(* Descriptors.                                                             *)
(***************************************************************************)
\* Counting the handles is counting two finite sets.
LEMMA Counting ==
  /\ DescriptorsAreHandles <=> fds = Cardinality(OpenFds) + Cardinality(OpenDhs)
  /\ IsFiniteSet(OpenFds) /\ Cardinality(OpenFds) \in Nat
  /\ IsFiniteSet(OpenDhs) /\ Cardinality(OpenDhs) \in Nat
<1>1. IsFiniteSet(OpenFds) /\ IsFiniteSet(OpenDhs)
  BY NamesAssumption, FS_Subset DEF OpenFds, OpenDhs
<1>2. Cardinality(OpenFds) \in Nat /\ Cardinality(OpenDhs) \in Nat
  BY <1>1, FS_CardinalityType
<1>3. DescriptorsAreHandles <=> fds = Cardinality(OpenFds) + Cardinality(OpenDhs)
  BY DEF DescriptorsAreHandles, Quantify, OpenFds, OpenDhs
<1> QED BY <1>1, <1>2, <1>3

\* Nothing is opened or closed (Added, Left and the handlers of open files).
LEMMA SameHandles ==
  ASSUME TypeOK, DescriptorsAreHandles, UNCHANGED <<fds, OpenFds, OpenDhs>>
  PROVE  fds' \in Nat /\ DescriptorsAreHandles'
<1>1. DescriptorsAreHandles' <=> fds' = Cardinality(OpenFds') + Cardinality(OpenDhs')
  BY DEF DescriptorsAreHandles, Quantify, OpenFds, OpenDhs
<1>2. fds \in Nat
  BY DEF TypeOK
<1> QED BY <1>1, <1>2, Counting

\* A handle more (cloudfs_open, cloudfs_opendir).
LEMMA HandleOpens ==
  ASSUME TypeOK, DescriptorsAreHandles, NEW h, fds' = fds + 1,
         \/ h \notin OpenFds /\ OpenFds' = OpenFds \cup {h} /\ OpenDhs' = OpenDhs
         \/ h \notin OpenDhs /\ OpenDhs' = OpenDhs \cup {h} /\ OpenFds' = OpenFds
  PROVE  fds' \in Nat /\ DescriptorsAreHandles'
<1>1. DescriptorsAreHandles' <=> fds' = Cardinality(OpenFds') + Cardinality(OpenDhs')
  BY DEF DescriptorsAreHandles, Quantify, OpenFds, OpenDhs
<1>2. \/ /\ Cardinality(OpenFds') = Cardinality(OpenFds) + 1
         /\ Cardinality(OpenDhs') = Cardinality(OpenDhs)
      \/ /\ Cardinality(OpenDhs') = Cardinality(OpenDhs) + 1
         /\ Cardinality(OpenFds') = Cardinality(OpenFds)
  BY Counting, FS_AddElement, Zenon
<1>3. fds \in Nat
  BY DEF TypeOK
<1> QED BY <1>1, <1>2, <1>3, Counting

\* A handle less (cloudfs_release, cloudfs_releasedir).
LEMMA HandleCloses ==
  ASSUME TypeOK, DescriptorsAreHandles, NEW h, fds' = fds - 1,
         \/ h \in OpenFds /\ OpenFds' = OpenFds \ {h} /\ OpenDhs' = OpenDhs
         \/ h \in OpenDhs /\ OpenDhs' = OpenDhs \ {h} /\ OpenFds' = OpenFds
  PROVE  fds' \in Nat /\ DescriptorsAreHandles'
<1>1. DescriptorsAreHandles' <=> fds' = Cardinality(OpenFds') + Cardinality(OpenDhs')
  BY DEF DescriptorsAreHandles, Quantify, OpenFds, OpenDhs
<1>2. \/ /\ Cardinality(OpenFds') = Cardinality(OpenFds) - 1
         /\ Cardinality(OpenDhs') = Cardinality(OpenDhs)
      \/ /\ Cardinality(OpenDhs') = Cardinality(OpenDhs) - 1
         /\ Cardinality(OpenFds') = Cardinality(OpenFds)
  BY Counting, FS_RemoveElement, Zenon
<1>3. IsFiniteSet(OpenFds') /\ IsFiniteSet(OpenDhs')
  BY NamesAssumption, FS_Subset DEF OpenFds, OpenDhs
<1>4. Cardinality(OpenFds') \in Nat /\ Cardinality(OpenDhs') \in Nat
  BY <1>3, FS_CardinalityType, Zenon
<1>5. fds \in Nat
  BY DEF TypeOK
<1> QED BY <1>1, <1>2, <1>4, <1>5, Counting

(***************************************************************************)
(* Types.                                                                   *)
(***************************************************************************)
Formed == TypeOK /\ DescriptorsAreHandles /\ HandlesLead /\ PathsLead

\* A name that comes or goes closes no directory.
LEMMA StreamsStay ==
  ASSUME TypeOK, NEW d, NEW n \in Names
  PROVE  /\ Added(d, n) \in [DirHandles -> {None} \cup OpenDirs]
         /\ Left(d, n) \in [DirHandles -> {None} \cup OpenDirs]
         /\ dh' \in {Added(d, n), Left(d, n)} => OpenDhs' = OpenDhs
<1>1. \A h \in DirHandles :
        /\ dh[h] = None => Added(d, n)[h] = None /\ Left(d, n)[h] = None
        /\ dh[h] # None => Added(d, n)[h] \in OpenDirs /\ Left(d, n)[h] \in OpenDirs
  <2> TAKE h \in DirHandles
  <2>1. CASE dh[h] = None
    BY <2>1 DEF Added, Left
  <2>2. CASE dh[h] # None
    <3>1. dh[h] \in OpenDirs
      BY <2>2 DEF TypeOK
    <3>2. Added(d, n)[h] \in OpenDirs
      BY <2>2, <3>1 DEF Added, OpenDirs
    <3>3. Left(d, n)[h] \in OpenDirs
      BY <2>2, <3>1 DEF Left, OpenDirs
    <3> QED BY <2>2, <3>2, <3>3
  <2> QED BY <2>1, <2>2
<1>2. None \notin OpenDirs
  BY DistinctAssumption
<1>3. \A h \in DirHandles :
        /\ Added(d, n)[h] # None <=> dh[h] # None
        /\ Left(d, n)[h] # None <=> dh[h] # None
  BY <1>1, <1>2
<1>4. dh' \in {Added(d, n), Left(d, n)} => OpenDhs' = OpenDhs
  BY <1>3 DEF OpenDhs
<1>5. Added(d, n) \in [DirHandles -> {None} \cup OpenDirs]
  BY <1>1 DEF Added
<1>6. Left(d, n) \in [DirHandles -> {None} \cup OpenDirs]
  <2>1. \A h \in DirHandles : Left(d, n)[h] \in {None} \cup OpenDirs
    BY <1>1
  <2> QED BY <2>1 DEF Left
<1> QED BY <1>4, <1>5, <1>6

\* The handlers of directories (cloudfs_mkdir to cloudfs_releasedir).
LEMMA DirTypes ==
  ASSUME Formed, NEW h \in DirHandles, NEW d \in Dirs \cup {Root},
         \/ d \in Dirs /\ (Mkdir(d) \/ Rmdir(d))
         \/ Opendir(h, d) \/ Readdir(h) \/ Releasedir(h)
  PROVE  TypeOK' /\ DescriptorsAreHandles'
<1> USE DEF Formed
<1>1. CASE d \in Dirs /\ (Mkdir(d) \/ Rmdir(d))
  <2>1. /\ dh' \in [DirHandles -> {None} \cup OpenDirs]
        /\ OpenDhs' = OpenDhs
    BY <1>1, StreamsStay DEF Mkdir, Rmdir, Names
  <2>2. fds' = fds /\ OpenFds' = OpenFds
    BY <1>1 DEF Mkdir, Rmdir, OpenFds
  <2>3. fds' \in Nat /\ DescriptorsAreHandles'
    BY <2>1, <2>2, SameHandles
  <2> QED BY <1>1, <2>1, <2>3 DEF TypeOK, Mkdir, Rmdir, lock, history
<1>2. CASE Opendir(h, d)
  <2>1. Children(d) \ {LostFound} \subseteq Names
    BY DEF Children, Names, TypeOK
  <2>2. dh' \in [DirHandles -> {None} \cup OpenDirs] /\ dh'[h] \in OpenDirs
    BY <1>2, <2>1 DEF Opendir, OpenDirs, TypeOK
  <2>3. h \notin OpenDhs /\ OpenDhs' = OpenDhs \cup {h} /\ OpenFds' = OpenFds
    <3>1. dh[h] = None /\ dh'[h] # None /\ fh' = fh
      BY <1>2, <2>2, DistinctAssumption DEF Opendir
    <3>2. \A g \in DirHandles \ {h} : dh'[g] = dh[g]
      BY <1>2 DEF Opendir, TypeOK
    <3> QED BY <3>1, <3>2 DEF OpenDhs, OpenFds
  <2>4. fds' \in Nat /\ DescriptorsAreHandles'
    BY <1>2, <2>3, HandleOpens DEF Opendir
  <2> QED BY <1>2, <2>2, <2>4 DEF TypeOK, Opendir, ssd, lock, history
<1>3. CASE Readdir(h)
  <2>1. dh[h] \in OpenDirs /\ Listed(dh[h]) \subseteq Names
    BY <1>3 DEF Readdir, Listed, Children, Names, TypeOK
  <2>2. dh' \in [DirHandles -> {None} \cup OpenDirs] /\ dh'[h] \in OpenDirs
    BY <1>3, <2>1 DEF Readdir, OpenDirs, TypeOK
  <2>3. OpenDhs' = OpenDhs /\ OpenFds' = OpenFds
    BY <1>3, <2>2, DistinctAssumption DEF Readdir, OpenDhs, OpenFds, TypeOK
  <2>4. fds' \in Nat /\ DescriptorsAreHandles'
    BY <1>3, <2>3, SameHandles DEF Readdir
  <2> QED BY <1>3, <2>2, <2>4 DEF TypeOK, Readdir, ssd, lock, history
<1>4. CASE Releasedir(h)
  <2>1. h \in OpenDhs /\ OpenDhs' = OpenDhs \ {h} /\ OpenFds' = OpenFds
    BY <1>4 DEF Releasedir, OpenDhs, OpenFds, TypeOK
  <2>2. fds' \in Nat /\ DescriptorsAreHandles'
    BY <1>4, <2>1, HandleCloses DEF Releasedir
  <2> QED BY <1>4, <2>2 DEF TypeOK, Releasedir, ssd, lock, history
<1> QED BY <1>1, <1>2, <1>3, <1>4

\* The lock server's entry, and skip (acquire_lock_wrapper, release_lock_wrapper).
LEMMA LockTypesOK ==
  ASSUME TypeOK, NEW k \in Keys, NEW w \in BOOLEAN,
         Acquire(k, w) \/ (Unlock(k) /\ UNCHANGED lost)
  PROVE  locks' \in [Keys -> LT!LockItems({None})] /\ skip' \in BOOLEAN /\ lost' \in Nat
<1>1. locks[k] \in LT!LockItems({None})
  BY DEF TypeOK
<1>2. LT!Acquired(locks[k], None, LockType(w)) \in LT!LockItems({None})
  BY <1>1 DEF LT!Acquired, LT!AlreadyGranted, LT!LockItems, LT!LockTypes, LockType
<1>3. LT!Released(locks[k], None) \in LT!LockItems({None})
  <2> DEFINE item == locks[k]
             rest == [item EXCEPT !.i = IF FALSE THEN @ ELSE @ - 1, !.owners = @ \ {None}]
  <2>1. CASE ~LT!Releasable(item, None)
    BY <1>1, <2>1 DEF LT!Released
  <2>2. CASE LT!Releasable(item, None)
    <3>1. item.i \in Nat /\ item.i > 0 /\ item.owners \ {None} \subseteq {None}
      BY <1>1, <2>2 DEF LT!Releasable, LT!LockItems
    <3>2. (IF FALSE THEN item.i ELSE item.i - 1) \in Nat
      BY <3>1
    <3>3. rest \in LT!LockItems({None})
      BY <1>1, <3>1, <3>2 DEF LT!LockItems
    <3>4. LT!Unlocked \in LT!LockItems({None})
      BY DEF LT!Unlocked, LT!LockItems
    <3> QED BY <2>2, <3>3, <3>4 DEF LT!Released
  <2> QED BY <2>1, <2>2
<1>4. CASE Acquire(k, w)
  <2> DEFINE item == LT!Acquired(locks[k], None, LockType(w))
  <2>1. locks' = locks \/ locks' = [locks EXCEPT ![k] = item]
    BY <1>4 DEF Acquire
  <2>2. skip' \in BOOLEAN /\ lost' \in Nat
    <3>1. (lost' = lost \/ lost' = lost + 1) /\ (skip' = skip \/ skip' = TRUE)
      BY <1>4 DEF Acquire
    <3>2. lost \in Nat /\ skip \in BOOLEAN
      BY DEF TypeOK
    <3>3. lost' \in Nat
      BY <3>1, <3>2, SMT
    <3>4. skip' \in BOOLEAN
      BY <3>1, <3>2, Zenon
    <3> QED BY <3>3, <3>4
  <2> HIDE DEF item
  <2>3. item \in LT!LockItems({None})
    BY <1>2 DEF item
  <2> QED BY <2>1, <2>2, <2>3 DEF TypeOK
<1>5. CASE Unlock(k) /\ UNCHANGED lost
  <2> DEFINE item == LT!Released(locks[k], None)
  <2>1. locks' = locks \/ locks' = [locks EXCEPT ![k] = item]
    BY <1>5 DEF Unlock
  <2>2. skip' \in BOOLEAN /\ lost' \in Nat
    BY <1>5 DEF TypeOK, Unlock
  <2> HIDE DEF item
  <2>3. item \in LT!LockItems({None})
    BY <1>3 DEF item
  <2> QED BY <2>1, <2>2, <2>3 DEF TypeOK
<1> QED BY <1>4, <1>5

\* Starting, stopping and what the stubs do.
LEMMA StartTypes ==
  ASSUME Formed, Mount \/ Unmount \/ UNCHANGED vars
  PROVE  TypeOK' /\ DescriptorsAreHandles'
<1>1. fds' = fds /\ OpenFds' = OpenFds /\ OpenDhs' = OpenDhs
  BY DEF Mount, Unmount, vars, open, OpenFds, OpenDhs
<1>2. fds' \in Nat /\ DescriptorsAreHandles'
  BY <1>1, SameHandles DEF Formed
<1> QED BY <1>2 DEF Formed, TypeOK, Mount, Unmount, vars, ssd, open, lock, history

\* The handlers of names (cloudfs_mknod, cloudfs_utimens, cloudfs_unlink and the
\* hiding that libfuse does).
LEMMA NameTypes ==
  ASSUME Formed, NEW f \in Files, Mknod(f) \/ Utimens(f) \/ Unlink(f) \/ Hide(f)
  PROVE  TypeOK' /\ DescriptorsAreHandles'
<1> USE DEF Formed
<1>1. CASE Mknod(f)
  <2>1. dh' \in [DirHandles -> {None} \cup OpenDirs] /\ OpenDhs' = OpenDhs
    BY <1>1, StreamsStay DEF Mknod, Names
  <2>2. fds' \in Nat /\ DescriptorsAreHandles'
    BY <1>1, <2>1, SameHandles DEF Mknod, OpenFds
  <2>3. NewFile \in Stats
    BY DEF NewFile, Stats
  <2> QED BY <1>1, <2>1, <2>2, <2>3 DEF TypeOK, Mknod, lock, history
<1>2. CASE Utimens(f)
  <2>1. CASE entry[f] = Link
    <3>1. fh' = fh /\ entry' = entry /\ OpenFds' = OpenFds /\ OpenDhs' = OpenDhs
      BY <1>2, <2>1, DistinctAssumption DEF Utimens, OpenFds, OpenDhs
    <3>2. fds' \in Nat /\ DescriptorsAreHandles'
      BY <1>2, <3>1, SameHandles DEF Utimens
    <3> QED BY <1>2, <3>1, <3>2 DEF TypeOK, Utimens, lock, history
  <2>2. CASE entry[f] \in Handles
    <3> DEFINE h == entry[f]
    <3>1. fh[h] \in OpenFiles
      BY <2>2 DEF HandlesLead, TypeOK
    <3>2. fh' = [fh EXCEPT ![h].stat.mtime = "set"] /\ entry' = entry
      BY <1>2, <2>2, DistinctAssumption DEF Utimens
    <3>3. [fh[h] EXCEPT !.stat.mtime = "set"] \in OpenFiles
      BY <3>1 DEF OpenFiles, Stats
    <3>4. fh' \in [Handles -> {None} \cup OpenFiles] /\ fh'[h] \in OpenFiles
      BY <2>2, <3>2, <3>3 DEF TypeOK
    <3>5. \A g \in Handles : fh'[g] # None <=> fh[g] # None
      BY <2>2, <3>1, <3>2, <3>4, DistinctAssumption DEF TypeOK
    <3>6. OpenFds' = OpenFds /\ OpenDhs' = OpenDhs
      BY <1>2, <3>5 DEF OpenFds, OpenDhs, Utimens
    <3>7. fds' \in Nat /\ DescriptorsAreHandles'
      BY <1>2, <3>6, SameHandles DEF Utimens
    <3> QED BY <1>2, <3>2, <3>4, <3>7 DEF TypeOK, Utimens, lock, history
  <2>3. CASE entry[f] \notin Handles \cup {Link}
    <3>1. entry[f] \in Stats
      BY <1>2, <2>3 DEF Utimens, Getattr, TypeOK
    <3>2. entry' = [entry EXCEPT ![f].mtime = "set"] /\ fh' = fh
      BY <1>2, <2>3 DEF Utimens
    <3>3. entry' \in [Files -> Stats \cup Handles \cup {None, Link}]
      BY <3>1, <3>2 DEF TypeOK, Stats
    <3>4. OpenFds' = OpenFds /\ OpenDhs' = OpenDhs
      BY <1>2, <3>2 DEF OpenFds, OpenDhs, Utimens
    <3>5. fds' \in Nat /\ DescriptorsAreHandles'
      BY <1>2, <3>4, SameHandles DEF Utimens
    <3> QED BY <1>2, <3>2, <3>3, <3>5 DEF TypeOK, Utimens, lock, history
  <2> QED BY <2>1, <2>2, <2>3
<1>3. CASE Unlink(f)
  <2>1. dh' \in [DirHandles -> {None} \cup OpenDirs] /\ OpenDhs' = OpenDhs
    BY <1>3, StreamsStay DEF Unlink, Names
  <2>2. fds' \in Nat /\ DescriptorsAreHandles'
    BY <1>3, <2>1, SameHandles DEF Unlink, OpenFds
  <2>3. cloud' \subseteq Keys /\ removed' \subseteq Files
    BY <1>3 DEF TypeOK, Unlink
  <2>4. /\ meta' \in [Keys -> Stats \cup {None}]
        /\ left' \in [Keys -> Stats \cup {None}]
    BY <1>3 DEF TypeOK, Unlink
  <2>5. entry' \in [Files -> Stats \cup Handles \cup {None, Link}]
    BY <1>3 DEF TypeOK, Unlink
  <2>6. UNCHANGED <<mounted, dirs, metadir, fh, locks, skip, lost>>
    BY <1>3 DEF Unlink, lock
  <2> QED BY <2>1, <2>2, <2>3, <2>4, <2>5, <2>6 DEF TypeOK
<1>4. CASE Hide(f)
  <2>1. \A h \in Handles :
          /\ fh[h] = None => fh'[h] = None
          /\ fh[h] # None => fh'[h] \in OpenFiles
    BY <1>4 DEF Hide, OpenOn, TypeOK, OpenFiles
  <2>2. \A h \in Handles : fh'[h] # None <=> fh[h] # None
    BY <2>1, DistinctAssumption
  <2>3. OpenFds' = OpenFds /\ OpenDhs' = OpenDhs
    BY <1>4, <2>2 DEF Hide, OpenFds, OpenDhs
  <2>4. fds' \in Nat /\ DescriptorsAreHandles'
    BY <1>4, <2>3, SameHandles DEF Hide
  <2>5. fh' \in [Handles -> {None} \cup OpenFiles]
    BY <1>4, <2>1 DEF Hide
  <2>6. removed' \subseteq Files /\ lost' \in Nat
    BY <1>4 DEF Hide, TypeOK
  <2>7. UNCHANGED <<mounted, metadir, dirs, entry, meta, cloud, dh, locks, skip, left>>
    BY <1>4 DEF Hide, ssd
  <2> QED BY <2>4, <2>5, <2>6, <2>7 DEF TypeOK
<1> QED BY <1>1, <1>2, <1>3, <1>4

\* What a release does to a name, to the metadata and to the bucket.
LEMMA ReleaseTypes ==
  ASSUME TypeOK, NEW h \in Handles, NEW f \in Files, fh[h] \in OpenFiles,
         ReleaseClean(h, f) \/ ReleaseUploads(h, f) \/ ReleaseKeeps(h, f)
  PROVE  /\ entry' \in [Files -> Stats \cup Handles \cup {None, Link}]
         /\ meta' \in [Keys -> Stats \cup {None}]
         /\ left' \in [Keys -> Stats \cup {None}]
         /\ cloud' \subseteq Keys
<1>1. fh[h].stat \in Stats /\ Key[f] \in Keys
  BY NamesAssumption DEF OpenFiles
<1>2. CASE ReleaseClean(h, f)
  BY <1>2 DEF ReleaseClean, TypeOK
<1>3. CASE ReleaseUploads(h, f)
  BY <1>1, <1>3 DEF ReleaseUploads, TypeOK
<1>4. CASE ReleaseKeeps(h, f)
  BY <1>1, <1>4 DEF ReleaseKeeps, TypeOK
<1> QED BY <1>2, <1>3, <1>4

\* The handle of a file that is opened (fh_t_new, cloudfs_open).
LEMMA Opened ==
  ASSUME TypeOK, NEW h \in Handles, NEW f \in Files, NEW w \in BOOLEAN, Open(h, f, w)
  PROVE  /\ fh' \in [Handles -> {None} \cup OpenFiles]
         /\ fh'[h] \in OpenFiles /\ fh'[h].path = f
         /\ \A g \in Handles \ {h} : fh'[g] = fh[g]
<1> DEFINE stat == [NewFile EXCEPT !.full = Key[f] \in cloud]
           file == [path |-> f, write |-> w, proxy |-> Key[f] \in cloud, dirty |-> FALSE,
                    stat |-> stat]
<1>1. (Key[f] \in cloud) \in BOOLEAN
  OBVIOUS
<1>2. stat \in Stats
  BY <1>1 DEF Stats, NewFile
<1> HIDE DEF stat
<1>3. file \in OpenFiles /\ file.path = f
  BY <1>1, <1>2 DEF OpenFiles
<1>4. fh' = [fh EXCEPT ![h] = file]
  BY DEF Open, stat
<1> HIDE DEF file
<1> QED BY <1>3, <1>4 DEF TypeOK

\* The handlers of open files (cloudfs_open, cloudfs_write, cloudfs_release).
LEMMA FileTypes ==
  ASSUME Formed, NEW h \in Handles, NEW f \in Files, NEW w \in BOOLEAN,
         Open(h, f, w) \/ Write(h) \/ Release(h) \/ ReleaseHidden(h)
  PROVE  TypeOK' /\ DescriptorsAreHandles'
<1> USE DEF Formed
<1>0. fh[h] # None => fh[h] \in OpenFiles
  BY DEF TypeOK
<1>1. CASE Open(h, f, w)
  <2>1. Key[f] \in Keys
    BY NamesAssumption
  <2>2. /\ fh' \in [Handles -> {None} \cup OpenFiles] /\ fh'[h] \in OpenFiles
        /\ \A g \in Handles \ {h} : fh'[g] = fh[g]
    BY <1>1, Opened
  <2>3. h \notin OpenFds /\ OpenFds' = OpenFds \cup {h} /\ OpenDhs' = OpenDhs
    BY <1>1, <2>2, DistinctAssumption DEF Open, OpenFds, OpenDhs
  <2>4. fds' \in Nat /\ DescriptorsAreHandles'
    BY <1>1, <2>3, HandleOpens DEF Open
  <2>5. locks' \in [Keys -> LT!LockItems({None})] /\ skip' \in BOOLEAN /\ lost' \in Nat
    BY <1>1, <2>1, LockTypesOK DEF Open
  <2>6. entry' \in [Files -> Stats \cup Handles \cup {None, Link}] /\ removed' \subseteq Files
    BY <1>1 DEF Open, TypeOK
  <2>7. UNCHANGED <<mounted, dirs, meta, cloud, metadir, dh, left>>
    BY <1>1 DEF Open
  <2> QED BY <2>2, <2>4, <2>5, <2>6, <2>7 DEF TypeOK
<1>2. CASE Write(h)
  <2>1. fh[h] \in OpenFiles
    BY <1>0, <1>2 DEF Write
  <2>2. /\ fh' \in [Handles -> {None} \cup OpenFiles] /\ fh'[h] \in OpenFiles
        /\ \A g \in Handles \ {h} : fh'[g] = fh[g]
    BY <1>2, <2>1 DEF Write, TypeOK, OpenFiles, Stats
  <2>3. OpenFds' = OpenFds /\ OpenDhs' = OpenDhs
    BY <1>2, <2>1, <2>2, DistinctAssumption DEF Write, OpenFds, OpenDhs
  <2>4. fds' \in Nat /\ DescriptorsAreHandles'
    BY <1>2, <2>3, SameHandles DEF Write
  <2> QED BY <1>2, <2>2, <2>4 DEF TypeOK, Write, ssd, lock, history
<1>3. CASE Release(h)
  <2> DEFINE p == fh[h].path
  <2>1. fh[h] \in OpenFiles /\ p \in Files /\ Key[p] \in Keys
    BY <1>0, <1>3, NamesAssumption DEF Release, OpenFiles
  <2>2. fh' \in [Handles -> {None} \cup OpenFiles]
    BY <1>3 DEF Release, TypeOK
  <2>3. h \in OpenFds /\ OpenFds' = OpenFds \ {h} /\ OpenDhs' = OpenDhs
    BY <1>3 DEF Release, OpenFds, OpenDhs, TypeOK
  <2>4. fds' \in Nat /\ DescriptorsAreHandles'
    BY <1>3, <2>3, HandleCloses DEF Release
  <2>5. locks' \in [Keys -> LT!LockItems({None})] /\ skip' \in BOOLEAN /\ lost' \in Nat
    BY <1>3, <2>1, LockTypesOK DEF Release
  <2>6. /\ entry' \in [Files -> Stats \cup Handles \cup {None, Link}]
        /\ meta' \in [Keys -> Stats \cup {None}]
        /\ left' \in [Keys -> Stats \cup {None}]
        /\ cloud' \subseteq Keys
    BY <1>3, <2>1, ReleaseTypes DEF Release
  <2>7. UNCHANGED <<mounted, dirs, metadir, dh, removed>>
    BY <1>3 DEF Release
  <2> QED BY <2>2, <2>4, <2>5, <2>6, <2>7 DEF TypeOK
<1>4. CASE ReleaseHidden(h)
  <2>1. fh[h] \in OpenFiles
    BY <1>0, <1>4 DEF ReleaseHidden
  <2>2. fh' \in [Handles -> {None} \cup OpenFiles]
    BY <1>4 DEF ReleaseHidden, TypeOK
  <2>3. h \in OpenFds /\ OpenFds' = OpenFds \ {h} /\ OpenDhs' = OpenDhs
    BY <1>4 DEF ReleaseHidden, OpenFds, OpenDhs, TypeOK
  <2>4. fds' \in Nat /\ DescriptorsAreHandles'
    BY <1>4, <2>3, HandleCloses DEF ReleaseHidden
  <2>5. entry' \in [Files -> Stats \cup Handles \cup {None, Link}]
    BY <1>4, <2>1 DEF ReleaseHidden, TypeOK, OpenFiles
  <2>6. UNCHANGED <<mounted, dirs, meta, cloud, metadir, dh, locks, lost, left, removed>>
    BY <1>4 DEF ReleaseHidden, history
  <2>7. skip' \in BOOLEAN
    BY <1>4 DEF ReleaseHidden
  <2> QED BY <2>2, <2>4, <2>5, <2>6, <2>7 DEF TypeOK
<1> QED BY <1>1, <1>2, <1>3, <1>4

(***************************************************************************)
(* Metadata and objects.                                                    *)
(***************************************************************************)
MetadataInv == MetadataKept /\ MetadataIsLast /\ ObjectsCanBeRemoved /\ KeptIsEmpty

\* The directories, and whatever leaves entries, metadata and objects alone.
LEMMA MetadataUntouched ==
  ASSUME Formed, MetadataInv, UNCHANGED <<mounted, metadir, entry, meta, cloud, left>>,
         removed \subseteq removed', ~mounted => UNCHANGED OpenDhs
  PROVE  MetadataInv'
BY DEF MetadataInv, MetadataKept, MetadataIsLast, ObjectsCanBeRemoved, KeptIsEmpty

\* The first mount makes the metadata directory when there is nothing yet
\* (cloudfs_start, cloudfs_init); the kernel unmounts what is closed.
LEMMA MetadataStarts ==
  ASSUME Formed, MetadataInv, Mount \/ Unmount
  PROVE  MetadataInv'
<1>1. CASE Mount
  <2>1. UNCHANGED <<entry, meta, cloud, left, removed, OpenDhs>>
    BY <1>1 DEF Mount, open, history, OpenDhs
  <2>2. mounted' /\ metadir' # "absent"
    BY <1>1 DEF Mount
  <2>3. metadir' = metadir \/ (metadir = "absent" /\ metadir' = "there")
    BY <1>1 DEF Mount
  <2>4. MetadataKept' /\ MetadataIsLast'
    BY <2>1, <2>2, <2>3 DEF MetadataInv, MetadataKept, MetadataIsLast
  <2>5. ObjectsCanBeRemoved' /\ KeptIsEmpty'
    BY <2>1, <2>3, DistinctAssumption
    DEF MetadataInv, MetadataKept, ObjectsCanBeRemoved, KeptIsEmpty
  <2> QED BY <2>4, <2>5 DEF MetadataInv
<1>2. CASE Unmount
  <2>1. UNCHANGED <<metadir, entry, meta, cloud, left, removed>> /\ ~mounted'
    BY <1>2 DEF Unmount, ssd, history
  <2>2. OpenDhs' = {}
    BY <1>2 DEF Unmount, open, OpenDhs
  <2> QED BY <2>1, <2>2
      DEF MetadataInv, MetadataKept, MetadataIsLast, ObjectsCanBeRemoved, KeptIsEmpty
<1> QED BY <1>1, <1>2

\* A file that comes, or whose time is set, is as full as it was, and a name
\* that is opened is no proof of an object any less (cloudfs_mknod,
\* cloudfs_utimens, cloudfs_open).
LEMMA MetadataOfNames ==
  ASSUME Formed, MetadataInv, NEW f \in Files, NEW h \in Handles, NEW w \in BOOLEAN,
         Mknod(f) \/ Utimens(f) \/ Open(h, f, w)
  PROVE  MetadataInv'
<1>1. UNCHANGED <<mounted, metadir, meta, cloud, left>> /\ mounted
  BY DEF Mknod, Utimens, Open, history
<1>2. /\ entry' \in [Files -> Stats \cup Handles \cup {None, Link}]
      /\ \A g \in Files \ {f} : entry'[g] = entry[g] /\ (g \in removed => g \in removed')
  <2>1. TypeOK'
    BY NameTypes, FileTypes
  <2>2. \A g \in Files \ {f} : entry'[g] = entry[g] /\ (g \in removed => g \in removed')
    <3>1. CASE Mknod(f)
      BY <3>1 DEF Formed, TypeOK, Mknod, history
    <3>2. CASE Utimens(f)
      <4>1. removed' = removed
        BY <3>2 DEF Utimens, history
      <4>2. entry' = entry \/ entry' = [entry EXCEPT ![f].mtime = "set"]
        BY <3>2 DEF Utimens
      <4> QED BY <4>1, <4>2 DEF Formed, TypeOK
    <3>3. CASE Open(h, f, w)
      <4>1. removed' = removed \ {f} /\ entry' = [entry EXCEPT ![f] = h]
        BY <3>3 DEF Open
      <4> QED BY <4>1 DEF Formed, TypeOK
    <3> QED BY <3>1, <3>2, <3>3
  <2> QED BY <2>1, <2>2 DEF TypeOK
<1>3. entry'[f] # None
  <2>1. CASE Mknod(f)
    <3>1. NewFile \in Stats
      BY DEF NewFile, Stats
    <3> QED BY <2>1, <3>1, DistinctAssumption DEF Mknod, Formed, TypeOK
  <2>2. CASE Utimens(f)
    <3>1. CASE entry[f] = Link \/ entry[f] \in Handles
      BY <2>2, <3>1, DistinctAssumption DEF Utimens
    <3>2. CASE entry[f] \notin Handles \cup {Link}
      <4>1. entry[f] \in Stats
        BY <2>2, <3>2 DEF Utimens, Getattr, Formed, TypeOK
      <4>2. [entry[f] EXCEPT !.mtime = "set"] \in Stats
        BY <4>1 DEF Stats
      <4> QED BY <2>2, <3>2, <4>2, DistinctAssumption DEF Utimens, Formed, TypeOK
    <3> QED BY <3>1, <3>2
  <2>3. CASE Open(h, f, w)
    BY <2>3, DistinctAssumption DEF Open, Formed, TypeOK
  <2> QED BY <2>1, <2>2, <2>3
<1>4. metadir = "there" /\ entry'[f] \in Stats /\ entry'[f].full => f \in removed'
  <2>1. CASE Mknod(f)
    BY <2>1 DEF Mknod, NewFile, Formed, TypeOK
  <2>2. CASE Utimens(f)
    <3>1. CASE entry[f] = Link \/ entry[f] \in Handles
      BY <2>2, <3>1, DistinctAssumption DEF Utimens
    <3>2. CASE entry[f] \notin Handles \cup {Link}
      <4>1. entry[f] \in Stats /\ removed' = removed
        BY <2>2, <3>2 DEF Utimens, Getattr, Formed, TypeOK, history
      <4>2. [entry[f] EXCEPT !.mtime = "set"].full = entry[f].full
        BY <4>1 DEF Stats
      <4> QED BY <2>2, <3>2, <4>1, <4>2 DEF Utimens, Formed, TypeOK, MetadataInv, KeptIsEmpty
    <3> QED BY <3>1, <3>2
  <2>3. CASE Open(h, f, w)
    BY <2>3, DistinctAssumption DEF Open, Formed, TypeOK
  <2> QED BY <2>1, <2>2, <2>3
<1>5. MetadataKept' /\ MetadataIsLast'
  BY <1>1 DEF MetadataInv, MetadataKept, MetadataIsLast
<1>6. ObjectsCanBeRemoved'
  BY <1>1, <1>2, <1>3 DEF MetadataInv, ObjectsCanBeRemoved
<1>7. KeptIsEmpty'
  BY <1>1, <1>2, <1>4 DEF MetadataInv, KeptIsEmpty
<1> QED BY <1>5, <1>6, <1>7 DEF MetadataInv

\* cloudfs_unlink removes the object together with its metadata.
LEMMA MetadataUnlinked ==
  ASSUME Formed, MetadataInv, NEW f \in Files, Unlink(f)
  PROVE  MetadataInv'
<1>1. UNCHANGED <<mounted, metadir>> /\ mounted
  BY DEF Unlink
<1>2. /\ entry'[f] = None
      /\ \A g \in Files \ {f} : entry'[g] = entry[g] /\ (g \in removed => g \in removed')
  BY DEF Unlink, Formed, TypeOK
<1>3. \A k \in Keys :
        IF k = Key[f] /\ meta[k] # None
        THEN k \notin cloud' /\ meta'[k] = None
        ELSE (k \in cloud' <=> k \in cloud) /\ meta'[k] = meta[k] /\ left'[k] = left[k]
  BY DEF Unlink, Formed, TypeOK
<1>4. Key[f] \in Keys
  BY NamesAssumption
<1>5. meta' \in [Keys -> Stats \cup {None}]
  BY DEF Unlink, Formed, TypeOK
<1>6. MetadataKept'
  BY <1>1, <1>3, <1>5 DEF MetadataInv, MetadataKept
<1>7. MetadataIsLast'
  BY <1>3 DEF MetadataInv, MetadataIsLast
<1>8. ObjectsCanBeRemoved'
  <2> SUFFICES ASSUME metadir = "there", NEW k \in Keys
               PROVE  /\ (k \in cloud') = (meta'[k] # None)
                      /\ k \in cloud' => \E g \in Files : Key[g] = k /\ entry'[g] # None
    BY <1>1 DEF ObjectsCanBeRemoved
  <2>1. (k \in cloud) = (meta[k] # None)
    BY DEF MetadataInv, ObjectsCanBeRemoved
  <2>2. CASE k = Key[f] /\ meta[k] # None
    BY <1>3, <2>2
  <2>3. CASE ~(k = Key[f] /\ meta[k] # None)
    <3>1. (k \in cloud') = (meta'[k] # None)
      BY <1>3, <2>1, <2>3
    <3>2. ASSUME k \in cloud'
          PROVE  \E g \in Files : Key[g] = k /\ entry'[g] # None
      <4>1. k \in cloud /\ k # Key[f]
        BY <1>3, <2>1, <2>3, <3>2
      <4>2. PICK g \in Files : Key[g] = k /\ entry[g] # None
        BY <4>1 DEF MetadataInv, ObjectsCanBeRemoved
      <4> QED BY <1>2, <4>1, <4>2
    <3> QED BY <3>1, <3>2
  <2> QED BY <2>2, <2>3
<1>9. KeptIsEmpty'
  BY <1>1, <1>2, DistinctAssumption DEF MetadataInv, KeptIsEmpty
<1> QED BY <1>6, <1>7, <1>8, <1>9 DEF MetadataInv

\* The three ways a name ends up when it is closed (cloudfs_release).
LEMMA MetadataReleased ==
  ASSUME Formed, MetadataInv, NEW h \in Handles, Release(h)
  PROVE  MetadataInv'
<1> DEFINE f == fh[h].path
           k == Key[f]
           stat == fh[h].stat
<1>1. f \in Files /\ k \in Keys /\ stat \in Stats
  BY NamesAssumption DEF Release, Formed, TypeOK, OpenFiles
<1>2. UNCHANGED <<mounted, metadir, removed>> /\ mounted
  BY DEF Release
<1>3. ReleaseClean(h, f) \/ ReleaseUploads(h, f) \/ ReleaseKeeps(h, f)
  BY DEF Release
<1>4. stat # None /\ Link # None
  BY <1>1, DistinctAssumption
<1>5. mounted' /\ metadir' # "absent"
  BY <1>2 DEF MetadataInv, MetadataKept
<1> HIDE DEF f, k, stat
<1>6. CASE UNCHANGED <<meta, cloud, left>> /\ \E e \in {Link, stat} :
             entry' = [entry EXCEPT ![f] = e] /\ (e = Link \/ ~e.full)
  <2>1. PICK e \in {Link, stat} : entry' = [entry EXCEPT ![f] = e] /\ (e = Link \/ ~e.full)
    BY <1>6
  <2>2. entry'[f] = e /\ \A g \in Files \ {f} : entry'[g] = entry[g]
    BY <1>1, <2>1 DEF Formed, TypeOK
  <2>3. MetadataKept' /\ MetadataIsLast'
    BY <1>2, <1>5, <1>6 DEF MetadataInv, MetadataKept, MetadataIsLast
  <2>4. ObjectsCanBeRemoved'
    BY <1>2, <1>4, <1>6, <2>2 DEF MetadataInv, ObjectsCanBeRemoved
  <2>5. KeptIsEmpty'
    BY <1>2, <2>1, <2>2, DistinctAssumption DEF MetadataInv, KeptIsEmpty
  <2> QED BY <2>3, <2>4, <2>5 DEF MetadataInv
<1>7. CASE ReleaseUploads(h, f)
  <2>1. /\ cloud' = cloud \cup {k} /\ left' = [left EXCEPT ![k] = stat]
        /\ metadir = "there" =>
             meta' = [meta EXCEPT ![k] = stat] /\ entry' = [entry EXCEPT ![f] = Link]
        /\ metadir # "there" => meta' = meta
    BY <1>7 DEF ReleaseUploads, k, stat
  <2>2. MetadataKept'
    BY <1>2, <1>5, <2>1 DEF MetadataInv, MetadataKept
  <2>3. MetadataIsLast'
    <3>1. CASE metadir = "there"
      BY <2>1, <3>1 DEF MetadataInv, MetadataIsLast, Formed, TypeOK
    <3>2. CASE metadir # "there"
      BY <2>1, <3>2 DEF MetadataInv, MetadataKept, MetadataIsLast
    <3> QED BY <3>1, <3>2
  <2>4. ASSUME metadir = "there"
        PROVE  /\ meta'[k] = stat /\ \A j \in Keys \ {k} : meta'[j] = meta[j]
               /\ entry'[f] = Link /\ \A g \in Files \ {f} : entry'[g] = entry[g]
    BY <1>1, <2>1, <2>4 DEF Formed, TypeOK
  <2>5. ObjectsCanBeRemoved'
    <3> SUFFICES ASSUME metadir = "there", NEW j \in Keys
                 PROVE  /\ (j \in cloud') = (meta'[j] # None)
                        /\ j \in cloud' => \E g \in Files : Key[g] = j /\ entry'[g] # None
      BY <1>2 DEF ObjectsCanBeRemoved
    <3>1. CASE j = k
      BY <1>1, <1>4, <2>1, <2>4, <3>1 DEF k
    <3>2. CASE j # k
      <4>1. (j \in cloud') = (j \in cloud) /\ meta'[j] = meta[j]
        BY <2>1, <2>4, <3>2
      <4>2. (j \in cloud) = (meta[j] # None)
        BY DEF MetadataInv, ObjectsCanBeRemoved
      <4>3. j \in cloud => \E g \in Files : Key[g] = j /\ entry'[g] # None
        BY <1>4, <2>4 DEF MetadataInv, ObjectsCanBeRemoved
      <4> QED BY <4>1, <4>2, <4>3
    <3> QED BY <3>1, <3>2
  <2>6. KeptIsEmpty'
    BY <1>2, <2>4, DistinctAssumption DEF MetadataInv, KeptIsEmpty
  <2> QED BY <2>2, <2>3, <2>5, <2>6 DEF MetadataInv
<1>8. QED
  <2>1. CASE ReleaseClean(h, f)
    BY <1>6, <2>1 DEF ReleaseClean
  <2>2. CASE ReleaseKeeps(h, f)
    BY <1>6, <2>2 DEF ReleaseKeeps, stat
  <2> QED BY <1>3, <1>7, <2>1, <2>2 DEF f

\* The close of a hidden file leaves the file where it was.
LEMMA MetadataOfHidden ==
  ASSUME Formed, MetadataInv, NEW h \in Handles, ReleaseHidden(h)
  PROVE  MetadataInv'
<1>1. /\ UNCHANGED <<mounted, metadir, meta, cloud, left, removed>> /\ mounted
      /\ entry' = [f \in Files |-> IF entry[f] = h THEN fh[h].stat ELSE entry[f]]
  BY DEF ReleaseHidden, history
<1>2. fh[h].stat \in Stats /\ fh[h].path = Hidden
  BY DEF ReleaseHidden, Formed, TypeOK, OpenFiles
<1>3. \A f \in Files : entry[f] = h => entry'[f] # None /\ f \in removed
  BY <1>1, <1>2, DistinctAssumption DEF Formed, HandlesLead
<1>4. \A f \in Files : entry[f] # h => entry'[f] = entry[f]
  BY <1>1
<1>5. MetadataKept' /\ MetadataIsLast'
  BY <1>1 DEF MetadataInv, MetadataKept, MetadataIsLast
<1>6. ObjectsCanBeRemoved'
  BY <1>1, <1>3, <1>4 DEF MetadataInv, ObjectsCanBeRemoved
<1>7. KeptIsEmpty'
  BY <1>1, <1>3, <1>4 DEF MetadataInv, KeptIsEmpty
<1> QED BY <1>5, <1>6, <1>7 DEF MetadataInv

(***************************************************************************)
(* Open files.                                                              *)
(***************************************************************************)
\* Where entries and paths stay, and no handle is closed.
LEMMA LeadsUntouched ==
  ASSUME Formed, UNCHANGED entry, removed \subseteq removed',
         \A h \in Handles : fh[h] # None => fh'[h] # None /\ fh'[h].path = fh[h].path
  PROVE  HandlesLead'
BY DEF Formed, HandlesLead

\* The handlers of names: a removal under a name that is open hides its handles.
LEMMA LeadsOfNames ==
  ASSUME Formed, NEW f \in Files, Mknod(f) \/ Utimens(f) \/ Unlink(f) \/ Hide(f)
  PROVE  HandlesLead'
<1>1. CASE Mknod(f)
  <2>1. NewFile \in Stats
    BY DEF NewFile, Stats
  <2>2. entry'[f] = NewFile /\ \A g \in Files \ {f} : entry'[g] = entry[g]
    BY <1>1 DEF Mknod, Formed, TypeOK
  <2>3. NewFile \notin Handles
    BY <2>1, DistinctAssumption
  <2> QED BY <1>1, <2>2, <2>3 DEF Mknod, history, Formed, HandlesLead
<1>2. CASE Utimens(f)
  <2>1. CASE entry[f] = Link
    BY <1>2, <2>1, LeadsUntouched, DistinctAssumption DEF Utimens, history
  <2>2. CASE entry[f] \in Handles
    <3> DEFINE h == entry[f]
    <3>1. fh[h] \in OpenFiles
      BY <2>2 DEF Formed, HandlesLead, TypeOK
    <3>2. fh' = [fh EXCEPT ![h].stat.mtime = "set"] /\ UNCHANGED <<entry, removed>>
      BY <1>2, <2>2, DistinctAssumption DEF Utimens, history
    <3>3. fh'[h] # None /\ fh'[h].path = fh[h].path
      BY <2>2, <3>1, <3>2, DistinctAssumption DEF Formed, TypeOK, OpenFiles, Stats
    <3>4. \A g \in Handles : g # h => fh'[g] = fh[g]
      BY <3>2 DEF Formed, TypeOK
    <3> QED BY <3>2, <3>3, <3>4, LeadsUntouched
  <2>3. CASE entry[f] \notin Handles \cup {Link}
    <3>1. entry[f] \in Stats
      BY <1>2, <2>3 DEF Utimens, Getattr, Formed, TypeOK
    <3>2. [entry[f] EXCEPT !.mtime = "set"] \notin Handles
      BY <3>1, DistinctAssumption DEF Stats
    <3>3. entry' = [entry EXCEPT ![f].mtime = "set"] /\ UNCHANGED <<fh, removed>>
      BY <1>2, <2>3 DEF Utimens, history
    <3>4. entry'[f] \notin Handles /\ \A g \in Files \ {f} : entry'[g] = entry[g]
      BY <3>2, <3>3 DEF Formed, TypeOK
    <3> QED BY <3>3, <3>4 DEF Formed, HandlesLead
  <2> QED BY <2>1, <2>2, <2>3
<1>3. CASE Unlink(f)
  <2>1. entry'[f] = None /\ \A g \in Files \ {f} : entry'[g] = entry[g]
    BY <1>3 DEF Unlink, Formed, TypeOK
  <2>2. UNCHANGED fh /\ removed' = removed \ {f}
    BY <1>3 DEF Unlink
  <2> QED BY <2>1, <2>2, DistinctAssumption DEF Formed, HandlesLead
<1>4. CASE Hide(f)
  <2>1. UNCHANGED entry /\ removed' = removed \cup {f}
    BY <1>4 DEF Hide, ssd
  <2>2. \A h \in Handles :
          fh[h] # None =>
            /\ fh'[h] # None
            /\ fh'[h].path = IF fh[h].path = f THEN Hidden ELSE fh[h].path
    <3> SUFFICES ASSUME NEW h \in Handles, fh[h] # None
                 PROVE  /\ fh'[h] # None
                        /\ fh'[h].path = IF fh[h].path = f THEN Hidden ELSE fh[h].path
      OBVIOUS
    <3>1. fh[h] \in OpenFiles
      BY DEF Formed, TypeOK
    <3>2. fh'[h] = IF fh[h].path = f THEN [fh[h] EXCEPT !.path = Hidden] ELSE fh[h]
      BY <1>4 DEF Hide, OpenOn
    <3>3. [fh[h] EXCEPT !.path = Hidden] \in OpenFiles
      BY <3>1 DEF OpenFiles
    <3>4. [fh[h] EXCEPT !.path = Hidden].path = Hidden
      BY <3>1 DEF OpenFiles
    <3> QED BY <3>2, <3>3, <3>4, DistinctAssumption
  <2> QED BY <2>1, <2>2 DEF Formed, HandlesLead
<1> QED BY <1>1, <1>2, <1>3, <1>4

\* Opening takes a name over, closing gives up every name of the handle
\* (cloudfs_open, cloudfs_release).
LEMMA LeadsOfFiles ==
  ASSUME Formed, NEW h \in Handles, NEW f \in Files, NEW w \in BOOLEAN,
         Open(h, f, w) \/ Write(h) \/ Release(h) \/ ReleaseHidden(h)
  PROVE  HandlesLead'
<1>1. CASE Open(h, f, w)
  <2>1. \A g \in Files : entry[g] # h
    BY <1>1 DEF Open, Formed, HandlesLead
  <2>2. entry'[f] = h /\ \A g \in Files \ {f} : entry'[g] = entry[g]
    BY <1>1 DEF Open, Formed, TypeOK
  <2>3. /\ fh'[h] \in OpenFiles /\ fh'[h].path = f
        /\ \A g \in Handles \ {h} : fh'[g] = fh[g]
    BY <1>1, Opened DEF Formed
  <2>4. fh'[h] # None
    BY <2>3, DistinctAssumption
  <2>5. removed' = removed \ {f}
    BY <1>1 DEF Open
  <2> QED BY <2>1, <2>2, <2>3, <2>4, <2>5 DEF Formed, HandlesLead
<1>2. CASE Write(h)
  <2>1. fh[h] \in OpenFiles
    BY <1>2 DEF Write, Formed, TypeOK
  <2>2. fh'[h] \in OpenFiles /\ fh'[h].path = fh[h].path
    BY <1>2, <2>1 DEF Write, Formed, TypeOK, OpenFiles, Stats
  <2>3. \A g \in Handles \ {h} : fh'[g] = fh[g]
    BY <1>2 DEF Write, Formed, TypeOK
  <2>4. UNCHANGED <<entry, removed>>
    BY <1>2 DEF Write, ssd, history
  <2> QED BY <2>2, <2>3, <2>4, LeadsUntouched, DistinctAssumption
<1>3. CASE Release(h)
  <2> DEFINE p == fh[h].path
  <2>1. fh[h] # None /\ p # Hidden /\ p \in Files /\ fh[h].stat \in Stats
    BY <1>3 DEF Release, Formed, TypeOK, OpenFiles
  <2>2. \A g \in Files : entry[g] = h => g = p
    BY <2>1 DEF Formed, HandlesLead
  <2>3. entry'[p] \notin Handles
    BY <1>3, <2>1, DistinctAssumption
    DEF Release, ReleaseClean, ReleaseUploads, ReleaseKeeps, Formed, TypeOK
  <2>4. \A g \in Files \ {p} : entry'[g] = entry[g]
    BY <1>3 DEF Release, ReleaseClean, ReleaseUploads, ReleaseKeeps, Formed, TypeOK
  <2>5. removed' = removed /\ \A g \in Handles \ {h} : fh'[g] = fh[g]
    BY <1>3 DEF Release, Formed, TypeOK
  <2> QED BY <2>2, <2>3, <2>4, <2>5 DEF Formed, HandlesLead
<1>4. CASE ReleaseHidden(h)
  <2>1. fh[h].stat \notin Handles
    BY <1>4, DistinctAssumption DEF ReleaseHidden, Formed, TypeOK, OpenFiles
  <2>2. /\ \A g \in Files : entry[g] = h => entry'[g] \notin Handles
        /\ \A g \in Files : entry[g] # h => entry'[g] = entry[g]
    BY <1>4, <2>1 DEF ReleaseHidden
  <2>3. removed' = removed /\ \A g \in Handles \ {h} : fh'[g] = fh[g]
    BY <1>4 DEF ReleaseHidden, history, Formed, TypeOK
  <2> QED BY <2>2, <2>3 DEF Formed, HandlesLead
<1> QED BY <1>1, <1>2, <1>3, <1>4

\* A path that leads to a handle goes on doing so until the handle is closed or
\* gets the hidden path (every handler that changes names or open files).
LEMMA PathsStep ==
  ASSUME Formed, NEW h \in Handles, NEW f \in Files, NEW w \in BOOLEAN,
         \/ Mknod(f) \/ Utimens(f) \/ Unlink(f) \/ Hide(f)
         \/ Open(h, f, w) \/ Write(h) \/ Release(h) \/ ReleaseHidden(h)
  PROVE  PathsLead'
<1>0. /\ TypeOK /\ HandlesLead
      /\ \A g \in Handles : fh[g] # None => fh[g] \in OpenFiles
      /\ \A g \in Handles : fh[g] # None /\ fh[g].path # Hidden =>
           fh[g].path \in Files /\ entry[fh[g].path] = g
  BY DEF Formed, PathsLead, TypeOK, OpenFiles
<1>1. CASE Mknod(f) \/ Unlink(f)
  <2>1. \A g \in Handles : fh[g] # None => fh[g].path # f
    BY <1>0, <1>1, DistinctAssumption DEF Mknod, Unlink, OpenOn
  <2>2. fh' = fh /\ \A e \in Files \ {f} : entry'[e] = entry[e]
    BY <1>0, <1>1 DEF Mknod, Unlink, TypeOK
  <2> QED BY <1>0, <2>1, <2>2 DEF PathsLead
<1>2. CASE Utimens(f)
  <2>1. CASE entry[f] = Link
    BY <1>0, <1>2, <2>1, DistinctAssumption DEF Utimens, PathsLead
  <2>2. CASE entry[f] \in Handles
    <3> DEFINE g == entry[f]
    <3>1. fh[g] \in OpenFiles
      BY <1>0, <2>2 DEF HandlesLead
    <3>2. fh' = [fh EXCEPT ![g].stat.mtime = "set"] /\ entry' = entry
      BY <1>2, <2>2, DistinctAssumption DEF Utimens
    <3>3. fh'[g].path = fh[g].path /\ fh[g] # None
      BY <1>0, <2>2, <3>1, <3>2, DistinctAssumption DEF TypeOK, OpenFiles, Stats
    <3>4. \A e \in Handles : e # g => fh'[e] = fh[e]
      BY <1>0, <3>2 DEF TypeOK
    <3> HIDE DEF g
    <3> QED BY <1>0, <3>2, <3>3, <3>4 DEF PathsLead
  <2>3. CASE entry[f] \notin Handles \cup {Link}
    <3>1. fh' = fh /\ entry' = [entry EXCEPT ![f].mtime = "set"]
      BY <1>2, <2>3 DEF Utimens
    <3>2. \A e \in Files \ {f} : entry'[e] = entry[e]
      BY <1>0, <3>1 DEF TypeOK
    <3>3. \A g \in Handles : fh[g] # None => fh[g].path # f
      BY <1>0, <2>3, DistinctAssumption
    <3> QED BY <1>0, <3>1, <3>2, <3>3 DEF PathsLead
  <2> QED BY <2>1, <2>2, <2>3
<1>3. CASE Hide(f)
  <2>1. entry' = entry
    BY <1>3 DEF Hide, ssd
  <2>2. \A g \in Handles :
          fh'[g] = IF g \in OpenOn(f) THEN [fh[g] EXCEPT !.path = Hidden] ELSE fh[g]
    BY <1>3 DEF Hide
  <2>3. \A g \in OpenOn(f) : [fh[g] EXCEPT !.path = Hidden].path = Hidden
    BY <1>0 DEF OpenOn, OpenFiles
  <2>4. OpenOn(f) \subseteq Handles
    BY DEF OpenOn
  <2>5. \A g \in Handles : fh'[g].path = Hidden \/ fh'[g] = fh[g]
    BY <2>2, <2>3
  <2> QED BY <1>0, <2>1, <2>5 DEF PathsLead
<1>4. CASE Open(h, f, w)
  <2>1. /\ fh'[h].path = f
        /\ \A g \in Handles \ {h} : fh'[g] = fh[g]
    BY <1>0, <1>4, Opened
  <2>2. entry'[f] = h /\ \A e \in Files \ {f} : entry'[e] = entry[e]
    BY <1>0, <1>4 DEF Open, TypeOK
  <2>3. \A g \in Handles : fh[g] # None => fh[g].path # f
    BY <1>4 DEF Open, MayOpen, OpenOn
  <2> QED BY <1>0, <2>1, <2>2, <2>3 DEF PathsLead
<1>5. CASE Write(h)
  <2>1. fh'[h].path = fh[h].path /\ fh[h] # None
    BY <1>0, <1>5 DEF Write, TypeOK, OpenFiles
  <2>2. \A g \in Handles \ {h} : fh'[g] = fh[g]
    BY <1>0, <1>5 DEF Write, TypeOK
  <2>3. entry' = entry
    BY <1>5 DEF Write, ssd
  <2> QED BY <1>0, <2>1, <2>2, <2>3 DEF PathsLead
<1>6. CASE Release(h) \/ ReleaseHidden(h)
  <2>1. fh'[h] = None /\ \A g \in Handles \ {h} : fh'[g] = fh[g]
    BY <1>0, <1>6 DEF Release, ReleaseHidden, TypeOK
  <2>2. \A e \in Files : entry[e] \in Handles \ {h} => entry'[e] = entry[e]
    <3>1. CASE Release(h)
      <4> DEFINE p == fh[h].path
      <4>1. p \in Files /\ entry[p] = h
        BY <1>0, <3>1 DEF Release
      <4>2. ReleaseClean(h, p) \/ ReleaseUploads(h, p) \/ ReleaseKeeps(h, p)
        BY <3>1 DEF Release
      <4> HIDE DEF p
      <4>3. entry' = [entry EXCEPT ![p] = Link] \/ entry' = [entry EXCEPT ![p] = fh[h].stat]
        BY <4>2 DEF ReleaseClean, ReleaseUploads, ReleaseKeeps
      <4> QED BY <1>0, <4>1, <4>3 DEF TypeOK
    <3>2. CASE ReleaseHidden(h)
      BY <3>2 DEF ReleaseHidden
    <3> QED BY <1>6, <3>1, <3>2
  <2> QED BY <1>0, <2>1, <2>2 DEF PathsLead
<1> QED BY <1>1, <1>2, <1>3, <1>4, <1>5, <1>6

(***************************************************************************)
(* Open directories.                                                        *)
(***************************************************************************)
\* What does not make or remove an entry changes no listing.
LEMMA StreamsUntouched ==
  ASSUME TypeOK, StreamsAreLive, UNCHANGED <<dirs, metadir, dh>>,
         \A f \in Files : entry'[f] = None <=> entry[f] = None
  PROVE  StreamsAreLive'
<1>1. Kids' = Kids
  BY DEF Kids, Children
<1> QED BY <1>1 DEF StreamsAreLive, StreamOK

\* An entry that comes is no part of what a listing has to name, but may be
\* named (cloudfs_mkdir, cloudfs_mknod).
LEMMA EntryComes ==
  ASSUME TypeOK, StreamsAreLive, NEW d \in Dirs \cup {Root}, NEW n,
         dh' = Added(d, n),
         \A e \in Dirs \cup {Root} : Kids'[e] = IF e = d THEN Kids[e] \cup {n} ELSE Kids[e]
  PROVE  StreamsAreLive'
<1> SUFFICES ASSUME NEW h \in DirHandles, dh'[h] # None
             PROVE  StreamOK(dh[h])'
  BY DEF StreamsAreLive
<1>1. dh[h] # None /\ dh[h] \in OpenDirs
  BY DEF Added, TypeOK
<1>2. StreamOK(dh[h])
  BY <1>1 DEF StreamsAreLive
<1>3. CASE dh[h].dir = d /\ dh[h].there /\ ~dh[h].read
  <2>1. dh'[h] = [dh[h] EXCEPT !.ever = @ \cup {n}]
    BY <1>1, <1>3 DEF Added
  <2>2. /\ dh'[h].dir = d /\ dh'[h].there /\ ~dh'[h].read
        /\ dh'[h].since = dh[h].since /\ dh'[h].ever = dh[h].ever \cup {n}
    BY <1>1, <1>3, <2>1 DEF OpenDirs
  <2>3. dh[h].since \subseteq Kids[d] /\ Kids[d] \subseteq dh[h].ever
    BY <1>2, <1>3 DEF StreamOK
  <2> QED BY <2>2, <2>3 DEF StreamOK
<1>4. CASE ~(dh[h].dir = d /\ dh[h].there /\ ~dh[h].read)
  <2>1. dh'[h] = dh[h]
    BY <1>1, <1>4 DEF Added
  <2>2. dh[h].there /\ ~dh[h].read => Kids'[dh[h].dir] = Kids[dh[h].dir]
    BY <1>1, <1>4 DEF OpenDirs
  <2> QED BY <1>2, <2>1, <2>2 DEF StreamOK
<1> QED BY <1>3, <1>4

\* An entry that goes need not be named any more; a directory that goes was
\* empty (cloudfs_rmdir, cloudfs_unlink).
LEMMA EntryGoes ==
  ASSUME TypeOK, StreamsAreLive, NEW d \in Dirs \cup {Root}, NEW n, n # d,
         dh' = Left(d, n), n \in Dirs \cup {Root} => Kids[n] = {},
         \A e \in Dirs \cup {Root} : Kids'[e] = IF e = d THEN Kids[e] \ {n} ELSE Kids[e]
  PROVE  StreamsAreLive'
<1> SUFFICES ASSUME NEW h \in DirHandles, dh'[h] # None
             PROVE  StreamOK(dh[h])'
  BY DEF StreamsAreLive
<1>1. dh[h] # None /\ dh[h] \in OpenDirs
  BY DEF Left, TypeOK
<1>2. StreamOK(dh[h])
  BY <1>1 DEF StreamsAreLive
<1>3. CASE dh[h].dir = d /\ dh[h].there /\ ~dh[h].read
  <2>1. dh'[h] = [dh[h] EXCEPT !.since = @ \ {n}]
    BY <1>1, <1>3 DEF Left
  <2>2. /\ dh'[h].dir = d /\ dh'[h].there /\ ~dh'[h].read
        /\ dh'[h].since = dh[h].since \ {n} /\ dh'[h].ever = dh[h].ever
    BY <1>1, <1>3, <2>1 DEF OpenDirs
  <2>3. dh[h].since \subseteq Kids[d] /\ Kids[d] \subseteq dh[h].ever
    BY <1>2, <1>3 DEF StreamOK
  <2> QED BY <2>2, <2>3 DEF StreamOK
<1>4. CASE ~(dh[h].dir = d /\ dh[h].there /\ ~dh[h].read) /\ dh[h].dir = n /\ dh[h].there
  <2>1. dh'[h] = [dh[h] EXCEPT !.there = FALSE]
    BY <1>1, <1>4 DEF Left
  <2>2. /\ ~dh'[h].there /\ dh'[h].read = dh[h].read /\ dh'[h].since = dh[h].since
        /\ dh'[h].got = dh[h].got /\ dh'[h].ever = dh[h].ever
    BY <1>1, <1>4, <2>1 DEF OpenDirs
  <2>3. CASE dh[h].read
    BY <1>2, <2>2, <2>3 DEF StreamOK
  <2>4. CASE ~dh[h].read
    <3>1. dh[h].since \subseteq Kids[n]
      BY <1>2, <1>4, <2>4 DEF StreamOK
    <3>2. dh[h].since = {}
      BY <1>1, <1>4, <3>1 DEF OpenDirs
    <3> QED BY <2>2, <2>4, <3>2 DEF StreamOK
  <2> QED BY <2>3, <2>4
<1>5. CASE ~(dh[h].dir = d /\ dh[h].there /\ ~dh[h].read) /\ ~(dh[h].dir = n /\ dh[h].there)
  <2>1. dh'[h] = dh[h]
    BY <1>1, <1>5 DEF Left
  <2>2. dh[h].there /\ ~dh[h].read => Kids'[dh[h].dir] = Kids[dh[h].dir]
    BY <1>1, <1>5 DEF OpenDirs
  <2> QED BY <1>2, <2>1, <2>2 DEF StreamOK
<1> QED BY <1>3, <1>4, <1>5

\* The handlers of directories.
LEMMA StreamsOfDirs ==
  ASSUME Formed, StreamsAreLive, NEW h \in DirHandles, NEW d \in Dirs \cup {Root},
         \/ d \in Dirs /\ (Mkdir(d) \/ Rmdir(d))
         \/ Opendir(h, d) \/ Readdir(h) \/ Releasedir(h)
  PROVE  StreamsAreLive'
<1>0. TypeOK
  BY DEF Formed
<1>1. CASE d \in Dirs /\ Mkdir(d)
  <2>1. \A e \in Dirs \cup {Root} :
          Kids'[e] = IF e = Parent[d] THEN Kids[e] \cup {d} ELSE Kids[e]
    BY <1>1, DistinctAssumption DEF Mkdir, Kids, Children
  <2>2. dh' = Added(Parent[d], d) /\ Parent[d] \in Dirs \cup {Root}
    BY <1>1, NamesAssumption DEF Mkdir
  <2> QED BY <1>0, <2>1, <2>2, EntryComes
<1>2. CASE d \in Dirs /\ Rmdir(d)
  <2>1. Kids[d] = {}
    BY <1>2 DEF Rmdir, Kids
  <2>2. Parent[d] # d
    BY <1>2 DEF Rmdir, Children
  <2>3. \A e \in Dirs \cup {Root} :
          Kids'[e] = IF e = Parent[d] THEN Kids[e] \ {d} ELSE Kids[e]
    BY <1>2, DistinctAssumption DEF Rmdir, Kids, Children
  <2>4. dh' = Left(Parent[d], d) /\ Parent[d] \in Dirs \cup {Root}
    BY <1>2, NamesAssumption DEF Rmdir
  <2> QED BY <1>0, <2>1, <2>2, <2>3, <2>4, EntryGoes
<1>3. CASE Opendir(h, d) \/ Readdir(h) \/ Releasedir(h)
  <2>1. Kids' = Kids
    BY <1>3 DEF Opendir, Readdir, Releasedir, ssd, Kids, Children
  <2>2. \A g \in DirHandles \ {h} : dh'[g] = dh[g]
    BY <1>0, <1>3 DEF Opendir, Readdir, Releasedir, TypeOK
  <2>3. dh'[h] # None => StreamOK(dh[h])'
    <3>1. CASE Opendir(h, d)
      BY <1>0, <3>1, <2>1 DEF Opendir, StreamOK, Kids, TypeOK
    <3>2. CASE Readdir(h)
      <4>1. dh[h] \in OpenDirs /\ StreamOK(dh[h])
        BY <1>0, <3>2 DEF Readdir, TypeOK, StreamsAreLive
      <4>2. /\ dh'[h].read /\ dh'[h].got = Listed(dh[h]) /\ dh'[h].ever = dh[h].ever
            /\ dh'[h].since = IF dh[h].read THEN {} ELSE dh[h].since
        BY <1>0, <3>2, <4>1 DEF Readdir, TypeOK, OpenDirs
      <4>3. ~dh[h].read /\ dh[h].there => Listed(dh[h]) = Kids[dh[h].dir]
        BY <4>1 DEF Listed, Kids, OpenDirs
      <4>4. dh[h].read \/ ~dh[h].there => Listed(dh[h]) = {}
        BY DEF Listed
      <4> QED BY <4>1, <4>2, <4>3, <4>4 DEF StreamOK
    <3>3. CASE Releasedir(h)
      BY <1>0, <3>3 DEF Releasedir, TypeOK
    <3> QED BY <1>3, <3>1, <3>2, <3>3
  <2>4. \A g \in DirHandles \ {h} : dh'[g] # None => StreamOK(dh[g])'
    BY <2>1, <2>2 DEF StreamsAreLive, StreamOK
  <2> QED BY <2>3, <2>4 DEF StreamsAreLive
<1> QED BY <1>1, <1>2, <1>3

\* The handlers of files, and starting and stopping.
LEMMA StreamsOfFiles ==
  ASSUME Formed, MetadataInv, StreamsAreLive, NEW h \in Handles, NEW f \in Files, NEW w \in BOOLEAN,
         \/ Mount \/ Unmount
         \/ Mknod(f) \/ Utimens(f) \/ Unlink(f) \/ Hide(f)
         \/ Open(h, f, w) \/ Write(h) \/ Release(h) \/ ReleaseHidden(h)
  PROVE  StreamsAreLive'
<1>0. TypeOK
  BY DEF Formed
<1>1. CASE Mount \/ Unmount
  <2>1. \A g \in DirHandles : dh'[g] = None
    BY <1>1 DEF Mount, Unmount, open, OpenDhs, MetadataInv, MetadataKept
  <2> QED BY <2>1 DEF StreamsAreLive
<1>2. CASE Mknod(f)
  <2>1. NewFile \in Stats
    BY DEF NewFile, Stats
  <2>2. entry[f] = None /\ entry'[f] # None /\ \A g \in Files \ {f} : entry'[g] = entry[g]
    BY <1>0, <1>2, <2>1, DistinctAssumption DEF Mknod, TypeOK
  <2>3. \A e \in Dirs \cup {Root} :
          Kids'[e] = IF e = Parent[f] THEN Kids[e] \cup {f} ELSE Kids[e]
    BY <1>2, <2>2, DistinctAssumption DEF Mknod, Kids, Children
  <2>4. dh' = Added(Parent[f], f) /\ Parent[f] \in Dirs \cup {Root}
    BY <1>2, NamesAssumption DEF Mknod
  <2> QED BY <1>0, <2>3, <2>4, EntryComes
<1>3. CASE Unlink(f)
  <2>1. entry'[f] = None /\ \A g \in Files \ {f} : entry'[g] = entry[g]
    BY <1>0, <1>3 DEF Unlink, TypeOK
  <2>2. f \notin dirs /\ f \notin Dirs \cup {Root} /\ f # Metadata
    BY <1>0, DistinctAssumption DEF TypeOK
  <2>3. \A e \in Dirs \cup {Root} :
          Kids'[e] = IF e = Parent[f] THEN Kids[e] \ {f} ELSE Kids[e]
    BY <1>3, <2>1, <2>2 DEF Unlink, Kids, Children
  <2>4. dh' = Left(Parent[f], f) /\ Parent[f] \in Dirs \cup {Root}
    BY <1>3, NamesAssumption DEF Unlink
  <2> QED BY <1>0, <2>2, <2>3, <2>4, EntryGoes
<1>4. CASE Utimens(f)
  <2>1. UNCHANGED <<dirs, metadir, dh>>
    BY <1>4 DEF Utimens
  <2>2. entry[f] # None
    BY <1>4, DistinctAssumption DEF Utimens, Getattr
  <2>3. entry'[f] # None
    <3>1. CASE entry[f] \in Handles \cup {Link}
      BY <1>4, <2>2, <3>1, DistinctAssumption DEF Utimens
    <3>2. CASE entry[f] \notin Handles \cup {Link}
      <4>1. entry[f] \in Stats
        BY <1>0, <2>2, <3>2 DEF TypeOK
      <4>2. [entry[f] EXCEPT !.mtime = "set"] \in Stats
        BY <4>1 DEF Stats
      <4> QED BY <1>0, <1>4, <3>2, <4>2, DistinctAssumption DEF Utimens, TypeOK
    <3> QED BY <3>1, <3>2
  <2>4. \A g \in Files \ {f} : entry'[g] = entry[g]
    <3>1. entry' = entry \/ entry' = [entry EXCEPT ![f].mtime = "set"]
      BY <1>4 DEF Utimens
    <3> QED BY <1>0, <3>1 DEF TypeOK
  <2> QED BY <1>0, <2>1, <2>2, <2>3, <2>4, StreamsUntouched
<1>5. CASE Hide(f) \/ Write(h)
  BY <1>0, <1>5, StreamsUntouched DEF Hide, Write, ssd
<1>6. CASE Open(h, f, w)
  <2>1. UNCHANGED <<dirs, metadir, dh>>
    BY <1>6 DEF Open
  <2>2. entry[f] # None
    BY <1>6, DistinctAssumption DEF Open, MayOpen, Getattr
  <2>3. entry'[f] # None /\ \A g \in Files \ {f} : entry'[g] = entry[g]
    BY <1>0, <1>6, DistinctAssumption DEF Open, TypeOK
  <2> QED BY <1>0, <2>1, <2>2, <2>3, StreamsUntouched
<1>7. CASE Release(h)
  <2> DEFINE p == fh[h].path
  <2>1. fh[h].stat \in Stats
    BY <1>0, <1>7 DEF Release, TypeOK, OpenFiles
  <2>2. p \in Files /\ entry[p] = h
    BY <1>7 DEF Release, Formed, PathsLead, TypeOK, OpenFiles
  <2>3. ReleaseClean(h, p) \/ ReleaseUploads(h, p) \/ ReleaseKeeps(h, p)
    BY <1>7 DEF Release
  <2> HIDE DEF p
  <2>4. entry' = [entry EXCEPT ![p] = Link] \/ entry' = [entry EXCEPT ![p] = fh[h].stat]
    BY <2>3 DEF ReleaseClean, ReleaseUploads, ReleaseKeeps
  <2>5. \A g \in Files : entry'[g] = None <=> entry[g] = None
    BY <1>0, <2>1, <2>2, <2>4, DistinctAssumption DEF TypeOK
  <2>6. UNCHANGED <<dirs, metadir, dh>>
    BY <1>7 DEF Release
  <2> QED BY <1>0, <2>5, <2>6, StreamsUntouched
<1>8. CASE ReleaseHidden(h)
  <2>1. fh[h].stat \in Stats
    BY <1>0, <1>8 DEF ReleaseHidden, TypeOK, OpenFiles
  <2>2. \A g \in Files : entry'[g] = None <=> entry[g] = None
    BY <1>0, <1>8, <2>1, DistinctAssumption DEF ReleaseHidden
  <2>3. UNCHANGED <<dirs, metadir, dh>>
    BY <1>8 DEF ReleaseHidden
  <2> QED BY <1>0, <2>2, <2>3, StreamsUntouched
<1> QED BY <1>1, <1>2, <1>3, <1>4, <1>5, <1>6, <1>7, <1>8

(***************************************************************************)
(* The invariant, and what follows from it.                                 *)
(***************************************************************************)
Inv == Formed /\ MetadataInv /\ StreamsAreLive

\* Before the first start there is nothing.
LEMMA InitInv == Init => Inv
<1> SUFFICES ASSUME Init PROVE Inv
  OBVIOUS
<1>1. TypeOK
  <2>1. LT!Unlocked \in LT!LockItems({None})
    BY DEF LT!Unlocked, LT!LockItems
  <2> QED BY <2>1, NamesAssumption DEF Init, TypeOK
<1>2. DescriptorsAreHandles
  <2>1. OpenFds = {} /\ OpenDhs = {}
    BY DEF Init, OpenFds, OpenDhs
  <2>2. fds = 0
    BY DEF Init
  <2> QED BY <2>1, <2>2, Counting, FS_EmptySet
<1>3. HandlesLead /\ PathsLead /\ StreamsAreLive
  BY DistinctAssumption DEF Init, HandlesLead, PathsLead, StreamsAreLive
<1>4. MetadataInv
  <2>1. MetadataKept
    BY DEF Init, MetadataKept, OpenDhs
  <2>2. metadir # "there" /\ meta = [k \in Keys |-> None]
    BY DEF Init
  <2> QED BY <2>1, <2>2 DEF MetadataInv, MetadataIsLast, ObjectsCanBeRemoved, KeptIsEmpty
<1> QED BY <1>1, <1>2, <1>3, <1>4 DEF Inv, Formed

\* A handler of directories.
LEMMA DirsInv ==
  ASSUME Inv, NEW h \in DirHandles, NEW d \in Dirs \cup {Root},
         \/ d \in Dirs /\ (Mkdir(d) \/ Rmdir(d))
         \/ Opendir(h, d) \/ Readdir(h) \/ Releasedir(h)
  PROVE  Inv'
<1>0. Formed /\ MetadataInv /\ StreamsAreLive
  BY DEF Inv
<1>1. UNCHANGED <<mounted, metadir, entry, meta, cloud, left, removed, fh>> /\ mounted
  BY DEF Mkdir, Rmdir, Opendir, Readdir, Releasedir, ssd, history
<1>2. TypeOK' /\ DescriptorsAreHandles'
  BY <1>0, DirTypes
<1>3. HandlesLead' /\ PathsLead'
  BY <1>0, <1>1 DEF Formed, HandlesLead, PathsLead
<1>4. MetadataInv'
  BY <1>0, <1>1, MetadataUntouched
<1>5. StreamsAreLive'
  BY <1>0, StreamsOfDirs
<1> QED BY <1>2, <1>3, <1>4, <1>5 DEF Inv, Formed

\* A handler of names, or what libfuse does in place of one.
LEMMA NamesInv ==
  ASSUME Inv, NEW f \in Files, Mknod(f) \/ Utimens(f) \/ Unlink(f) \/ Hide(f)
  PROVE  Inv'
<1>0. Formed /\ MetadataInv /\ StreamsAreLive
  BY DEF Inv
<1>1. PICK h \in Handles : TRUE
  BY NamesAssumption
<1>2. TypeOK' /\ DescriptorsAreHandles'
  BY <1>0, NameTypes
<1>3. HandlesLead' /\ PathsLead'
  BY <1>0, <1>1, LeadsOfNames, PathsStep
<1>4. MetadataInv'
  <2>1. CASE Mknod(f) \/ Utimens(f)
    BY <1>0, <1>1, <2>1, MetadataOfNames
  <2>2. CASE Unlink(f)
    BY <1>0, <2>2, MetadataUnlinked
  <2>3. CASE Hide(f)
    <3>1. /\ UNCHANGED <<mounted, metadir, entry, meta, cloud, left>> /\ mounted
          /\ removed \subseteq removed'
      BY <2>3 DEF Hide, ssd
    <3> QED BY <1>0, <3>1, MetadataUntouched
  <2> QED BY <2>1, <2>2, <2>3
<1>5. StreamsAreLive'
  BY <1>0, <1>1, StreamsOfFiles
<1> QED BY <1>2, <1>3, <1>4, <1>5 DEF Inv, Formed

\* A handler of open files.
LEMMA FilesInv ==
  ASSUME Inv, NEW h \in Handles, NEW f \in Files, NEW w \in BOOLEAN,
         Open(h, f, w) \/ Write(h) \/ Release(h) \/ ReleaseHidden(h)
  PROVE  Inv'
<1>0. Formed /\ MetadataInv /\ StreamsAreLive
  BY DEF Inv
<1>1. TypeOK' /\ DescriptorsAreHandles'
  BY <1>0, FileTypes
<1>2. HandlesLead' /\ PathsLead'
  BY <1>0, LeadsOfFiles, PathsStep
<1>3. MetadataInv'
  <2>1. CASE Open(h, f, w)
    BY <1>0, <2>1, MetadataOfNames
  <2>2. CASE Write(h)
    <3>1. UNCHANGED <<mounted, metadir, entry, meta, cloud, left, removed>> /\ mounted
      BY <2>2 DEF Write, ssd, history
    <3> QED BY <1>0, <3>1, MetadataUntouched
  <2>3. CASE Release(h)
    BY <1>0, <2>3, MetadataReleased
  <2>4. CASE ReleaseHidden(h)
    BY <1>0, <2>4, MetadataOfHidden
  <2> QED BY <2>1, <2>2, <2>3, <2>4
<1>4. StreamsAreLive'
  BY <1>0, StreamsOfFiles
<1> QED BY <1>1, <1>2, <1>3, <1>4 DEF Inv, Formed

\* Starting, stopping, and what does nothing.
LEMMA RestInv ==
  ASSUME Inv, Mount \/ Unmount \/ UNCHANGED vars
  PROVE  Inv'
<1>0. Formed /\ MetadataInv /\ StreamsAreLive
  BY DEF Inv
<1>1. UNCHANGED <<entry, fh, removed>>
  BY DEF Mount, Unmount, vars, ssd, open, history
<1>2. TypeOK' /\ DescriptorsAreHandles'
  BY <1>0, StartTypes
<1>3. HandlesLead' /\ PathsLead'
  BY <1>0, <1>1 DEF Formed, HandlesLead, PathsLead
<1>4. MetadataInv' /\ StreamsAreLive'
  <2>1. CASE Mount \/ Unmount
    <3>1. PICK h \in Handles, f \in Files : TRUE
      BY NamesAssumption
    <3>2. TRUE \in BOOLEAN
      OBVIOUS
    <3> QED BY <1>0, <2>1, <3>1, <3>2, MetadataStarts, StreamsOfFiles
  <2>2. CASE UNCHANGED vars
    <3>1. UNCHANGED <<mounted, metadir, dirs, entry, meta, cloud, left, removed, dh, OpenDhs>>
      BY <2>2 DEF vars, ssd, open, history, OpenDhs
    <3>2. MetadataInv'
      BY <1>0, <3>1, MetadataUntouched
    <3>3. StreamsAreLive'
      BY <1>0, <3>1, StreamsUntouched DEF Formed
    <3> QED BY <3>2, <3>3
  <2> QED BY <2>1, <2>2
<1> QED BY <1>2, <1>3, <1>4 DEF Inv, Formed

\* Every step keeps the invariant.
LEMMA NextInv == Inv /\ [Next]_vars => Inv'
<1> SUFFICES ASSUME Inv, [Next]_vars PROVE Inv'
  OBVIOUS
<1>1. PICK hh \in Handles, ff \in Files, dd \in DirHandles : TRUE
  BY NamesAssumption
<1>2. ASSUME NEW d \in Dirs, Mkdir(d) \/ Rmdir(d) PROVE Inv'
  BY <1>1, <1>2, DirsInv
<1>3. ASSUME NEW h \in DirHandles, NEW d \in Dirs \cup {Root}, Opendir(h, d) PROVE Inv'
  BY <1>3, DirsInv
<1>4. ASSUME NEW h \in DirHandles, Readdir(h) \/ Releasedir(h) PROVE Inv'
  BY <1>4, DirsInv
<1>5. ASSUME NEW f \in Files, Mknod(f) \/ Utimens(f) \/ Unlink(f) \/ Hide(f) PROVE Inv'
  BY <1>5, NamesInv
<1>6. ASSUME NEW f \in Files, NEW h \in Handles, NEW w \in BOOLEAN, Open(h, f, w) PROVE Inv'
  BY <1>6, FilesInv
<1>7. ASSUME NEW h \in Handles, Write(h) \/ Release(h) \/ ReleaseHidden(h) PROVE Inv'
  <2>1. TRUE \in BOOLEAN
    OBVIOUS
  <2> QED BY <1>1, <1>7, <2>1, FilesInv
<1>8. CASE Mount \/ Unmount \/ UNCHANGED vars
  BY <1>8, RestInv
<1>9. CASE Ignored \/ \E h \in Handles : Flush(h)
  BY <1>9, RestInv DEF Ignored, Flush
<1> QED BY <1>2, <1>3, <1>4, <1>5, <1>6, <1>7, <1>8, <1>9 DEF Next

(***************************************************************************)
(* Locks.                                                                   *)
(***************************************************************************)
\* The handles that are open on a path of the key, and how many those are.
KeyOpens(k) == {h \in Handles : fh[h] # None /\ fh[h].path # Hidden /\ Key[fh[h].path] = k}

Opens(k) == Cardinality(KeyOpens(k))

\* The grants of each key beyond its handles, and the others.
Excess == {g \in Keys \X Nat : g[2] > 0 /\ g[2] + Opens(g[1]) <= locks[g[1]].i}

Matched == {g \in Keys \X Nat : g[2] > 0 /\ g[2] <= locks[g[1]].i /\ g[2] + Opens(g[1]) > locks[g[1]].i}

\* Only a handle that parted from its lock leaves a grant behind, and the release
\* that is going to send nothing is one of those handles.
LocksInv == IsFiniteSet(Excess) /\ Cardinality(Excess) + (IF skip THEN 1 ELSE 0) <= lost

\* The handles of a key are finitely many.
LEMMA OpensCount ==
  ASSUME NEW k
  PROVE  IsFiniteSet(KeyOpens(k)) /\ Opens(k) \in Nat
<1>1. IsFiniteSet(KeyOpens(k))
  BY NamesAssumption, FS_Subset DEF KeyOpens
<1> QED BY <1>1, FS_CardinalityType DEF Opens

\* The same after a step.
LEMMA OpensCountNext ==
  ASSUME NEW k
  PROVE  IsFiniteSet(KeyOpens(k)') /\ Opens(k)' \in Nat
<1>1. IsFiniteSet(KeyOpens(k)')
  BY NamesAssumption, FS_Subset DEF KeyOpens
<1> QED BY <1>1, FS_CardinalityType DEF Opens

\* A step that leaves no key more grants beyond its handles.
LEMMA ExcessStays ==
  ASSUME TypeOK, TypeOK', IsFiniteSet(Excess),
         \A k \in Keys : locks'[k].i > 0 => locks'[k].i + Opens(k) <= locks[k].i + Opens(k)'
  PROVE  IsFiniteSet(Excess') /\ Cardinality(Excess') <= Cardinality(Excess)
<1>1. \A g \in Excess' : g \in Excess
  <2> SUFFICES ASSUME NEW k \in Keys, NEW n \in Nat, n > 0, n + Opens(k)' <= locks'[k].i
               PROVE  n + Opens(k) <= locks[k].i
    BY DEF Excess
  <2>1. locks[k].i \in Nat /\ locks'[k].i \in Nat
    BY DEF TypeOK, LT!LockItems
  <2>2. Opens(k) \in Nat /\ Opens(k)' \in Nat
    BY OpensCount, OpensCountNext
  <2> QED BY <2>1, <2>2
<1> QED BY <1>1, FS_Subset

\* A step that leaves one key one more.
LEMMA ExcessGrows ==
  ASSUME TypeOK, TypeOK', IsFiniteSet(Excess), NEW l \in Keys,
         \A k \in Keys \ {l} : locks'[k].i + Opens(k) <= locks[k].i + Opens(k)',
         locks'[l].i + Opens(l) <= locks[l].i + Opens(l)' + 1
  PROVE  IsFiniteSet(Excess') /\ Cardinality(Excess') <= Cardinality(Excess) + 1
<1> DEFINE top == <<l, locks'[l].i - Opens(l)'>>
<1>1. \A g \in Excess' : g \in Excess \cup {top}
  <2> SUFFICES ASSUME NEW k \in Keys, NEW n \in Nat, n > 0, n + Opens(k)' <= locks'[k].i
               PROVE  n + Opens(k) <= locks[k].i \/ <<k, n>> = top
    BY DEF Excess
  <2>1. locks[k].i \in Nat /\ locks'[k].i \in Nat
    BY DEF TypeOK, LT!LockItems
  <2>2. Opens(k) \in Nat /\ Opens(k)' \in Nat
    BY OpensCount, OpensCountNext
  <2>3. CASE k = l /\ n + Opens(k)' = locks'[k].i
    <3>1. n = locks'[l].i - Opens(l)'
      BY <2>1, <2>2, <2>3
    <3> QED BY <3>1, <2>3
  <2>4. CASE ~(k = l /\ n + Opens(k)' = locks'[k].i)
    BY <2>1, <2>2, <2>4
  <2> QED BY <2>3, <2>4
<1>2. /\ IsFiniteSet(Excess \cup {top}) /\ Cardinality(Excess) \in Nat
      /\ Cardinality(Excess \cup {top}) <= Cardinality(Excess) + 1
  <2> HIDE DEF top
  <2>1. Cardinality(Excess) \in Nat
    BY FS_CardinalityType
  <2>2. /\ IsFiniteSet(Excess \cup {top})
        /\ Cardinality(Excess \cup {top}) \in {Cardinality(Excess), Cardinality(Excess) + 1}
    BY FS_AddElement
  <2> QED BY <2>1, <2>2
<1> HIDE DEF top
<1>3. IsFiniteSet(Excess') /\ Cardinality(Excess') <= Cardinality(Excess \cup {top})
  BY <1>1, <1>2, FS_Subset
<1>4. Cardinality(Excess') \in Nat /\ Cardinality(Excess \cup {top}) \in Nat
  BY <1>2, <1>3, FS_CardinalityType
<1> QED BY <1>2, <1>3, <1>4

\* A step that opens, hides and closes nothing (every handler but cloudfs_open,
\* cloudfs_release and what libfuse does for cloudfs_unlink).
LEMMA LocksRest ==
  ASSUME TypeOK, TypeOK', LocksInv, UNCHANGED <<locks, lost>>, skip' \in {skip, FALSE},
         \A h \in Handles :
           /\ fh'[h] # None /\ fh'[h].path # Hidden <=> fh[h] # None /\ fh[h].path # Hidden
           /\ fh[h] # None /\ fh[h].path # Hidden => fh'[h].path = fh[h].path
  PROVE  LocksInv'
<1>1. \A k \in Keys : Opens(k)' = Opens(k)
  <2> TAKE k \in Keys
  <2>1. KeyOpens(k)' = KeyOpens(k)
    BY DEF KeyOpens
  <2> QED BY <2>1 DEF Opens
<1>2. Excess' = Excess
  BY <1>1 DEF Excess
<1>3. IsFiniteSet(Excess) /\ Cardinality(Excess) \in Nat /\ lost \in Nat
  BY FS_CardinalityType DEF LocksInv, TypeOK
<1>4. Cardinality(Excess) <= lost /\ (skip => Cardinality(Excess) + 1 <= lost)
  BY <1>3 DEF LocksInv
<1>5. skip' => skip
  OBVIOUS
<1>6. Cardinality(Excess') <= lost' /\ (skip' => Cardinality(Excess') + 1 <= lost')
  BY <1>2, <1>4, <1>5
<1> QED BY <1>2, <1>3, <1>6 DEF LocksInv

\* An open gets the lock, or leaves word that the release is to send nothing
\* (acquire_lock_wrapper).
LEMMA LocksOpened ==
  ASSUME TypeOK, TypeOK', LocksInv, NEW h \in Handles, NEW f \in Files, NEW w \in BOOLEAN,
         Open(h, f, w)
  PROVE  LocksInv'
<1>1. /\ fh[h] = None /\ fh'[h] # None /\ fh'[h].path = f /\ f # Hidden
      /\ \A g \in Handles \ {h} : fh'[g] = fh[g]
  BY Opened, DistinctAssumption DEF Open
<1>2. Key[f] \in Keys
  BY NamesAssumption
<1>3. \A k \in Keys \ {Key[f]} : Opens(k)' = Opens(k)
  <2> TAKE k \in Keys \ {Key[f]}
  <2>1. KeyOpens(k)' = KeyOpens(k)
    BY <1>1 DEF KeyOpens
  <2> QED BY <2>1 DEF Opens
<1>4. Opens(Key[f])' = Opens(Key[f]) + 1
  <2>1. KeyOpens(Key[f])' = KeyOpens(Key[f]) \cup {h} /\ h \notin KeyOpens(Key[f])
    BY <1>1 DEF KeyOpens
  <2> QED BY <2>1, OpensCount, FS_AddElement DEF Opens
<1>5. /\ \A k \in Keys : k # Key[f] => locks'[k] = locks[k]
      /\ \/ locks'[Key[f]].i = locks[Key[f]].i + 1 /\ skip' = skip /\ lost' = lost
         \/ locks'[Key[f]] = locks[Key[f]] /\ skip' = TRUE /\ lost' = lost + 1
  <2>1. Acquire(Key[f], w)
    BY DEF Open
  <2>2. CASE LT!AcquireStatus(locks[Key[f]], None, LockType(w)) = "OK"
    <3> DEFINE item == LT!Acquired(locks[Key[f]], None, LockType(w))
    <3>1. item.i = locks[Key[f]].i + 1
      BY <2>2 DEF LT!AcquireStatus, LT!Acquired, LT!AlreadyGranted
    <3>2. locks' = [locks EXCEPT ![Key[f]] = item] /\ skip' = skip /\ lost' = lost
      BY <2>1, <2>2 DEF Acquire
    <3> HIDE DEF item
    <3> QED BY <1>2, <3>1, <3>2 DEF TypeOK
  <2>3. CASE LT!AcquireStatus(locks[Key[f]], None, LockType(w)) # "OK"
    BY <2>1, <2>3 DEF Acquire
  <2> QED BY <2>2, <2>3
<1>6. \A k \in Keys : locks[k].i \in Nat /\ Opens(k) \in Nat
  BY OpensCount DEF TypeOK, LT!LockItems
<1>7. \A k \in Keys : locks'[k].i + Opens(k) <= locks[k].i + Opens(k)'
  BY <1>2, <1>3, <1>4, <1>5, <1>6
<1>8. IsFiniteSet(Excess') /\ Cardinality(Excess') <= Cardinality(Excess)
  BY <1>7, ExcessStays DEF LocksInv
<1>9. Cardinality(Excess') \in Nat /\ Cardinality(Excess) \in Nat /\ lost \in Nat
  BY <1>8, FS_CardinalityType DEF LocksInv, TypeOK
<1>10. Cardinality(Excess) <= lost /\ (skip => Cardinality(Excess) + 1 <= lost)
  BY <1>9 DEF LocksInv
<1>11. Cardinality(Excess') <= lost' /\ (skip' => Cardinality(Excess') + 1 <= lost')
  BY <1>5, <1>8, <1>9, <1>10
<1> QED BY <1>8, <1>9, <1>11 DEF LocksInv

\* A removed file leaves its lock behind.
LEMMA LocksHidden ==
  ASSUME TypeOK, TypeOK', PathsLead, LocksInv, NEW f \in Files, Hide(f)
  PROVE  LocksInv'
<1>1. PICK h \in Handles : OpenOn(f) = {h}
  <2>1. PICK h \in Handles : h \in OpenOn(f)
    BY DEF Hide, OpenOn
  <2>2. \A g \in OpenOn(f) : g = entry[f]
    BY DistinctAssumption DEF OpenOn, PathsLead
  <2> QED BY <2>1, <2>2
<1>2. /\ fh[h] # None /\ fh[h].path = f /\ fh[h] \in OpenFiles
      /\ \A g \in Handles \ {h} : fh'[g] = fh[g]
  BY <1>1 DEF OpenOn, Hide, TypeOK
<1>3. fh'[h].path = Hidden
  BY <1>1, <1>2 DEF Hide, OpenFiles
<1>4. Key[f] \in Keys /\ f # Hidden
  BY NamesAssumption, DistinctAssumption
<1>5. \A k \in Keys \ {Key[f]} : Opens(k)' = Opens(k)
  <2> TAKE k \in Keys \ {Key[f]}
  <2>1. KeyOpens(k)' = KeyOpens(k)
    BY <1>2, <1>3 DEF KeyOpens
  <2> QED BY <2>1 DEF Opens
<1>6. Opens(Key[f]) = Opens(Key[f])' + 1
  <2>1. KeyOpens(Key[f]) = KeyOpens(Key[f])' \cup {h} /\ h \notin KeyOpens(Key[f])'
    BY <1>2, <1>3, <1>4 DEF KeyOpens
  <2> QED BY <2>1, OpensCountNext, FS_AddElement DEF Opens
<1>7. locks' = locks /\ skip' = skip /\ lost' = lost + 1
  BY DEF Hide
<1>8. \A k \in Keys : locks[k].i \in Nat /\ Opens(k) \in Nat /\ Opens(k)' \in Nat
  BY OpensCount, OpensCountNext DEF TypeOK, LT!LockItems
<1>9. IsFiniteSet(Excess') /\ Cardinality(Excess') <= Cardinality(Excess) + 1
  <2>1. \A k \in Keys \ {Key[f]} : locks'[k].i + Opens(k) <= locks[k].i + Opens(k)'
    BY <1>5, <1>7, <1>8
  <2>2. locks'[Key[f]].i + Opens(Key[f]) <= locks[Key[f]].i + Opens(Key[f])' + 1
    BY <1>4, <1>6, <1>7, <1>8
  <2> QED BY <1>4, <2>1, <2>2, ExcessGrows DEF LocksInv
<1>10. Cardinality(Excess') \in Nat /\ Cardinality(Excess) \in Nat /\ lost \in Nat
  BY <1>9, FS_CardinalityType DEF LocksInv, TypeOK
<1>11. Cardinality(Excess) <= lost /\ (skip => Cardinality(Excess) + 1 <= lost)
  BY <1>10 DEF LocksInv
<1>12. Cardinality(Excess') <= lost' /\ (skip' => Cardinality(Excess') + 1 <= lost')
  BY <1>7, <1>9, <1>10, <1>11
<1> QED BY <1>9, <1>10, <1>12 DEF LocksInv

\* A release gives the lock back, or is the one that sends nothing and leaves a
\* grant to another handle of the key (release_lock_wrapper).
LEMMA LocksReleased ==
  ASSUME TypeOK, TypeOK', LocksInv, NEW h \in Handles, Release(h)
  PROVE  LocksInv'
<1>1. PICK f \in Files : fh[h] # None /\ fh[h].path = f /\ f # Hidden
  BY DistinctAssumption DEF Release, TypeOK, OpenFiles
<1>2. fh'[h] = None /\ \A g \in Handles \ {h} : fh'[g] = fh[g]
  BY DEF Release, TypeOK
<1>3. Key[f] \in Keys
  BY NamesAssumption
<1>4. \A k \in Keys \ {Key[f]} : Opens(k)' = Opens(k)
  <2> TAKE k \in Keys \ {Key[f]}
  <2>1. KeyOpens(k)' = KeyOpens(k)
    BY <1>1, <1>2 DEF KeyOpens
  <2> QED BY <2>1 DEF Opens
<1>5. Opens(Key[f]) = Opens(Key[f])' + 1
  <2>1. KeyOpens(Key[f]) = KeyOpens(Key[f])' \cup {h} /\ h \notin KeyOpens(Key[f])'
    BY <1>1, <1>2, <1>3 DEF KeyOpens
  <2> QED BY <2>1, OpensCountNext, FS_AddElement DEF Opens
<1>6. \A k \in Keys : locks[k] \in LT!LockItems({None}) /\ locks[k].i \in Nat
  BY DEF TypeOK, LT!LockItems
<1>7. /\ \A k \in Keys : k # Key[f] => locks'[k] = locks[k]
      /\ \/ skip /\ locks'[Key[f]] = locks[Key[f]] /\ ~skip'
         \/ ~skip /\ locks'[Key[f]].i = 0 /\ ~skip'
         \/ ~skip /\ locks'[Key[f]].i = locks[Key[f]].i - 1 /\ ~skip'
  <2>1. Unlock(Key[f])
    BY <1>1 DEF Release
  <2>2. CASE skip
    BY <2>1, <2>2 DEF Unlock
  <2>3. CASE ~skip
    <3> DEFINE item == LT!Released(locks[Key[f]], None)
    <3>1. locks' = [locks EXCEPT ![Key[f]] = item] /\ skip' = skip
      BY <2>1, <2>3 DEF Unlock
    <3>2. item.i = 0 \/ item.i = locks[Key[f]].i - 1
      <4>1. CASE LT!Releasable(locks[Key[f]], None)
        BY <1>3, <1>6, <4>1 DEF LT!Released, LT!Unlocked, LT!LockItems
      <4>2. CASE ~LT!Releasable(locks[Key[f]], None)
        BY <1>3, <1>6, <4>2 DEF LT!Released, LT!Releasable
      <4> QED BY <4>1, <4>2
    <3> HIDE DEF item
    <3> QED BY <1>3, <2>3, <3>1, <3>2 DEF TypeOK
  <2> QED BY <2>2, <2>3
<1>8. \A k \in Keys : Opens(k) \in Nat /\ Opens(k)' \in Nat
  BY OpensCount, OpensCountNext
<1>9. IsFiniteSet(Excess') /\ Cardinality(Excess') <= Cardinality(Excess) + (IF skip THEN 1 ELSE 0)
  <2>1. \A k \in Keys \ {Key[f]} : locks'[k].i + Opens(k) <= locks[k].i + Opens(k)'
    BY <1>4, <1>6, <1>7, <1>8
  <2>2. CASE skip
    <3>1. locks'[Key[f]].i + Opens(Key[f]) <= locks[Key[f]].i + Opens(Key[f])' + 1
      BY <1>3, <1>5, <1>6, <1>7, <1>8, <2>2
    <3> QED BY <1>3, <2>1, <2>2, <3>1, ExcessGrows DEF LocksInv
  <2>3. CASE ~skip
    <3>1. locks'[Key[f]].i > 0
            => locks'[Key[f]].i + Opens(Key[f]) <= locks[Key[f]].i + Opens(Key[f])'
      BY <1>3, <1>5, <1>6, <1>7, <1>8, <2>3
    <3>2. IsFiniteSet(Excess') /\ Cardinality(Excess') <= Cardinality(Excess)
      BY <2>1, <3>1, ExcessStays DEF LocksInv
    <3>3. Cardinality(Excess) \in Nat
      BY FS_CardinalityType DEF LocksInv
    <3> QED BY <2>3, <3>2, <3>3
  <2> QED BY <2>2, <2>3
<1>10. Cardinality(Excess') \in Nat /\ Cardinality(Excess) \in Nat /\ lost \in Nat
  BY <1>9, FS_CardinalityType DEF LocksInv, TypeOK
<1>11. ~skip' /\ lost' = lost
  BY <1>7 DEF Release
<1>12. Cardinality(Excess) + (IF skip THEN 1 ELSE 0) <= lost
  BY DEF LocksInv
<1>13. Cardinality(Excess') <= lost'
  BY <1>9, <1>10, <1>11, <1>12
<1> QED BY <1>9, <1>10, <1>11, <1>13 DEF LocksInv

\* Every step keeps the locks accounted for.
LEMMA NextLocks == Inv /\ Inv' /\ LocksInv /\ [Next]_vars => LocksInv'
<1> SUFFICES ASSUME Inv, Inv', LocksInv, [Next]_vars PROVE LocksInv'
  OBVIOUS
<1>1. TypeOK /\ TypeOK' /\ HandlesLead /\ PathsLead
  BY DEF Inv, Formed
<1>2. CASE Ignored \/ Mount \/ Unmount \/ UNCHANGED vars
  <2>1. UNCHANGED <<locks, lost, fh>> /\ skip' \in {skip, FALSE}
    BY <1>2 DEF Ignored, Mount, Unmount, vars, open, lock
  <2> QED BY <1>1, <2>1, LocksRest
<1>3. ASSUME NEW d \in Dirs, Mkdir(d) \/ Rmdir(d) PROVE LocksInv'
  <2>1. UNCHANGED <<locks, lost, fh, skip>>
    BY <1>3 DEF Mkdir, Rmdir, lock
  <2> QED BY <1>1, <2>1, LocksRest
<1>4. ASSUME NEW h \in DirHandles, NEW d \in Dirs \cup {Root},
             Opendir(h, d) \/ Readdir(h) \/ Releasedir(h)
      PROVE  LocksInv'
  <2>1. UNCHANGED <<locks, lost, fh, skip>>
    BY <1>4 DEF Opendir, Readdir, Releasedir, lock
  <2> QED BY <1>1, <2>1, LocksRest
<1>5. ASSUME NEW h \in DirHandles, Readdir(h) \/ Releasedir(h) PROVE LocksInv'
  <2>1. Root \in Dirs \cup {Root}
    OBVIOUS
  <2> QED BY <1>4, <1>5, <2>1
<1>6. ASSUME NEW f \in Files, Mknod(f) \/ Unlink(f) PROVE LocksInv'
  <2>1. UNCHANGED <<locks, lost, fh, skip>>
    BY <1>6 DEF Mknod, Unlink, lock
  <2> QED BY <1>1, <2>1, LocksRest
<1>7. ASSUME NEW f \in Files, Utimens(f) PROVE LocksInv'
  <2>1. UNCHANGED <<locks, lost, skip>>
    BY <1>7 DEF Utimens, lock
  <2>2. CASE entry[f] \notin Handles
    <3>1. fh' = fh
      BY <1>7, <2>2 DEF Utimens
    <3> QED BY <1>1, <2>1, <3>1, LocksRest
  <2>3. CASE entry[f] \in Handles
    <3>1. fh[entry[f]] \in OpenFiles
      BY <1>1, <2>3 DEF HandlesLead, TypeOK
    <3>2. fh' = [fh EXCEPT ![entry[f]].stat.mtime = "set"]
      BY <1>7, <2>3, DistinctAssumption DEF Utimens
    <3>3. /\ fh'[entry[f]] # None /\ fh[entry[f]] # None /\ fh'[entry[f]].path = fh[entry[f]].path
          /\ \A h \in Handles : h # entry[f] => fh'[h] = fh[h]
      <4>1. [fh[entry[f]] EXCEPT !.stat.mtime = "set"] \in OpenFiles
        BY <3>1 DEF OpenFiles, Stats
      <4>2. fh'[entry[f]] = [fh[entry[f]] EXCEPT !.stat.mtime = "set"]
        BY <1>1, <2>3, <3>2 DEF TypeOK
      <4>3. fh'[entry[f]].path = fh[entry[f]].path
        BY <3>1, <4>2 DEF OpenFiles
      <4> QED BY <1>1, <2>3, <3>1, <3>2, <4>1, <4>2, <4>3, DistinctAssumption DEF TypeOK
    <3> QED BY <1>1, <2>1, <3>3, LocksRest
  <2> QED BY <2>2, <2>3
<1>8. ASSUME NEW h \in Handles, Write(h) PROVE LocksInv'
  <2>1. UNCHANGED <<locks, lost, skip>>
    BY <1>8 DEF Write, lock
  <2>2. fh[h] \in OpenFiles
    BY <1>1, <1>8 DEF Write, TypeOK
  <2>3. fh'[h] \in OpenFiles /\ fh'[h].path = fh[h].path
    BY <1>1, <1>8, <2>2 DEF Write, TypeOK, OpenFiles, Stats
  <2>4. fh'[h] # None /\ fh[h] # None /\ \A g \in Handles : g # h => fh'[g] = fh[g]
    BY <1>1, <1>8, <2>3, DistinctAssumption DEF Write, TypeOK
  <2> QED BY <1>1, <2>1, <2>3, <2>4, LocksRest
<1>9. ASSUME NEW h \in Handles, Flush(h) PROVE LocksInv'
  <2>1. UNCHANGED <<locks, lost, fh, skip>>
    BY <1>9 DEF Flush, vars, open, lock
  <2> QED BY <1>1, <2>1, LocksRest
<1>10. ASSUME NEW h \in Handles, ReleaseHidden(h) PROVE LocksInv'
  <2>1. UNCHANGED <<locks, lost>> /\ ~skip'
    BY <1>10 DEF ReleaseHidden
  <2>2. fh[h].path = Hidden /\ fh'[h] = None /\ \A g \in Handles : g # h => fh'[g] = fh[g]
    BY <1>1, <1>10 DEF ReleaseHidden, TypeOK
  <2>3. skip' \in {skip, FALSE}
    BY <1>10 DEF ReleaseHidden
  <2> QED BY <1>1, <2>1, <2>2, <2>3, LocksRest
<1>11. ASSUME NEW h \in Handles, Release(h) PROVE LocksInv'
  BY <1>1, <1>11, LocksReleased
<1>12. ASSUME NEW f \in Files, Hide(f) PROVE LocksInv'
  BY <1>1, <1>12, LocksHidden
<1>13. ASSUME NEW f \in Files, NEW h \in Handles, NEW w \in BOOLEAN, Open(h, f, w) PROVE LocksInv'
  BY <1>1, <1>13, LocksOpened
<1> QED BY <1>2, <1>3, <1>4, <1>5, <1>6, <1>7, <1>8, <1>9, <1>10, <1>11, <1>12, <1>13 DEF Next

\* The grants that are not beyond the handles of their keys are no more than the
\* open files.
LEMMA MatchedCount ==
  ASSUME TypeOK
  PROVE  IsFiniteSet(Matched) /\ Cardinality(Matched) <= Cardinality(OpenFds)
<1> DEFINE beyond(k) == IF locks[k].i > Opens(k) THEN locks[k].i - Opens(k) ELSE 0
<1>1. \A k \in Keys : locks[k].i \in Nat /\ Opens(k) \in Nat /\ beyond(k) \in Nat
  BY OpensCount DEF TypeOK, LT!LockItems
<1>2. \A k \in Keys : ExistsBijection(1..Opens(k), KeyOpens(k))
  BY OpensCount, FS_CardinalityType DEF Opens
<1>3. \A k \in Keys : \E b : b \in Bijection(1..Opens(k), KeyOpens(k))
  BY <1>2 DEF ExistsBijection
<1> DEFINE handle == [k \in Keys |-> CHOOSE b : b \in Bijection(1..Opens(k), KeyOpens(k))]
<1>4. \A k \in Keys : handle[k] \in Bijection(1..Opens(k), KeyOpens(k))
  BY <1>3
<1> HIDE DEF handle
<1>5. \A k \in Keys :
        /\ \A n \in 1..Opens(k) : handle[k][n] \in KeyOpens(k)
        /\ \A m, n \in 1..Opens(k) : handle[k][m] = handle[k][n] => m = n
  <2> TAKE k \in Keys
  <2>1. handle[k] \in Bijection(1..Opens(k), KeyOpens(k))
    BY <1>4
  <2>2. handle[k] \in [1..Opens(k) -> KeyOpens(k)] /\ IsInjective(handle[k])
    BY <2>1, Zenon DEF Bijection, Injection
  <2> QED BY <2>2 DEF IsInjective
<1> DEFINE place(g) == g[2] - beyond(g[1])
           to == [g \in Matched |-> handle[g[1]][place(g)]]
<1>6. \A g \in Matched : g[1] \in Keys /\ g[2] \in Nat /\ g = <<g[1], g[2]>> /\ place(g) \in 1..Opens(g[1])
  <2> SUFFICES ASSUME NEW k \in Keys, NEW n \in Nat, n > 0, n <= locks[k].i, n + Opens(k) > locks[k].i
               PROVE  n - beyond(k) \in 1..Opens(k)
    BY DEF Matched
  <2> QED BY <1>1
<1> HIDE DEF place
<1>7. \A g \in Matched : to[g] \in KeyOpens(g[1])
  BY <1>5, <1>6
<1>8. \A g \in Matched : to[g] \in OpenFds
  BY <1>7 DEF KeyOpens, OpenFds
<1>9. \A f, g \in Matched : to[f] = to[g] => f = g
  <2> SUFFICES ASSUME NEW f \in Matched, NEW g \in Matched, to[f] = to[g]
               PROVE  f = g
    BY Zenon
  <2>1. f[1] = g[1]
    BY <1>7 DEF KeyOpens
  <2>2. handle[f[1]][place(f)] = handle[f[1]][place(g)]
    BY <2>1
  <2>3. place(f) = place(g)
    BY <1>5, <1>6, <2>1, <2>2
  <2>4. f[2] = g[2]
    BY <1>1, <1>6, <2>1, <2>3 DEF place
  <2> QED BY <1>6, <2>1, <2>4
<1>10. to \in Injection(Matched, OpenFds)
  <2>1. to \in [Matched -> OpenFds]
    BY <1>8
  <2> HIDE DEF to
  <2>2. IsInjective(to)
    BY <1>9, <2>1 DEF IsInjective
  <2> QED BY <2>1, <2>2 DEF Injection
<1> HIDE DEF to
<1> QED BY <1>10, Counting, FS_Injection

\* What is accounted for beyond the handles, and the handles, are all the grants.
LEMMA GrantsCounted ==
  ASSUME TypeOK, LocksInv
  PROVE  LocksAreAccountedFor
<1>1. Grants = Excess \cup Matched
  <2>1. \A k \in Keys : locks[k].i \in Nat /\ Opens(k) \in Nat
    BY OpensCount DEF TypeOK, LT!LockItems
  <2>2. \A g \in Grants : g \in Excess \cup Matched
    <3> SUFFICES ASSUME NEW k \in Keys, NEW n \in 1..locks[k].i
                 PROVE  <<k, n>> \in Excess \cup Matched
      BY DEF Grants
    <3> QED BY <2>1 DEF Excess, Matched
  <2>3. \A g \in Excess \cup Matched : g \in Grants
    <3> SUFFICES ASSUME NEW k \in Keys, NEW n \in Nat, <<k, n>> \in Excess \cup Matched
                 PROVE  <<k, n>> \in Grants
      BY DEF Excess, Matched
    <3>1. n \in 1..locks[k].i
      BY <2>1 DEF Excess, Matched
    <3> QED BY <3>1 DEF Grants
  <2> QED BY <2>2, <2>3
<1>2. IsFiniteSet(Excess) /\ IsFiniteSet(Matched)
  BY MatchedCount DEF LocksInv
<1>3. Cardinality(Excess \cup Matched) <= Cardinality(Excess) + Cardinality(Matched)
  <2>1. /\ IsFiniteSet(Excess \cap Matched)
        /\ Cardinality(Excess \cup Matched)
             = Cardinality(Excess) + Cardinality(Matched) - Cardinality(Excess \cap Matched)
    BY <1>2, FS_Union, FS_Subset
  <2>2. /\ Cardinality(Excess) \in Nat /\ Cardinality(Matched) \in Nat
        /\ Cardinality(Excess \cap Matched) \in Nat
    BY <1>2, <2>1, FS_CardinalityType
  <2> QED BY <2>1, <2>2
<1>4. /\ Cardinality(Excess) \in Nat /\ Cardinality(Matched) \in Nat
      /\ IsFiniteSet(Grants) /\ Cardinality(Grants) \in Nat
      /\ lost \in Nat /\ Cardinality(OpenFds) \in Nat
  BY <1>1, <1>2, FS_Union, FS_CardinalityType, Counting DEF TypeOK
<1>5. Cardinality(Grants) + (IF skip THEN 1 ELSE 0) <= Cardinality(OpenFds) + lost
  <2>1. Cardinality(Matched) <= Cardinality(OpenFds)
    BY MatchedCount
  <2>2. Cardinality(Excess) <= lost /\ (skip => Cardinality(Excess) + 1 <= lost)
    BY <1>4 DEF LocksInv
  <2> QED BY <1>1, <1>3, <1>4, <2>1, <2>2
<1> QED BY <1>5 DEF LocksAreAccountedFor, Quantify, OpenFds

(***************************************************************************)
(* Theorems.                                                                *)
(***************************************************************************)
\* The invariant holds in every state, whatever the applications call.
LEMMA Invariant == Spec => []Inv
BY InitInv, NextInv, PTL DEF Spec

\* Types: every handler leaves entries, metadata, locks and open handles well
\* formed.
THEOREM TypeCorrect == Spec => []TypeOK
<1>1. Inv => TypeOK
  BY DEF Inv, Formed
<1> QED BY <1>1, Invariant, PTL

\* Where metadata can be kept, an object in the bucket has metadata and a name
\* that rm finds (cloudfs_release, cloudfs_unlink, get_key), whichever names
\* share its key.
THEOREM RemovalsLeaveNothing == Spec => []ObjectsCanBeRemoved
<1>1. Inv => ObjectsCanBeRemoved
  BY DEF Inv, MetadataInv
<1> QED BY <1>1, Invariant, PTL

\* stat of a closed proxy shows what the last session that published left
\* (cloudfs_getattr, cloudfs_release).
THEOREM LastWriterShown == Spec => []ProxyShowsLastWriter
<1>1. Inv => ProxyShowsLastWriter
  <2> SUFFICES ASSUME Inv, NEW f \in Files, entry[f] = Link, Getattr(f) # None
               PROVE  Getattr(f) = left[Key[f]]
    BY DEF ProxyShowsLastWriter
  <2>1. Getattr(f) = meta[Key[f]]
    BY DistinctAssumption DEF Getattr
  <2>2. Key[f] \in Keys
    BY NamesAssumption
  <2> QED BY <2>1, <2>2 DEF Inv, MetadataInv, MetadataIsLast
<1> QED BY <1>1, Invariant, PTL

\* What is not empty is in the cloud and not on the SSD, but for a file whose
\* removal while it was open went wrong (cloudfs_release, cloudfs_rename).
THEOREM OnlyRemovedStay == Spec => []OnlyRemovedFilesStay
<1>1. Inv => OnlyRemovedFilesStay
  <2> SUFFICES ASSUME Inv, metadir = "there", NEW f \in Files, OpenOn(f) = {},
                      entry[f] \notin {None, Link}, Stat(f).full
               PROVE  f \in removed
    BY DEF OnlyRemovedFilesStay
  <2>1. CASE entry[f] \in Handles
    BY <2>1 DEF Inv, Formed, HandlesLead, OpenOn
  <2>2. CASE entry[f] \notin Handles
    <3>1. entry[f] \in Stats /\ Stat(f) = entry[f]
      BY <2>2 DEF Inv, Formed, TypeOK, Stat
    <3> QED BY <3>1 DEF Inv, MetadataInv, KeptIsEmpty
  <2> QED BY <2>1, <2>2
<1> QED BY <1>1, Invariant, PTL

\* However opens fail, files are removed while they are open and the program is
\* started again, the lock server holds no grant that is not a handle's or accounted
\* for (acquire_lock_wrapper, release_lock_wrapper, cloudfs_rename).
THEOREM GrantsAccounted == Spec => []LocksAreAccountedFor
<1>1. Init => LocksInv
  <2> SUFFICES ASSUME Init PROVE LocksInv
    OBVIOUS
  <2>1. Excess = {}
    BY OpensCount DEF Init, Excess, LT!Unlocked
  <2>2. lost = 0 /\ ~skip
    BY DEF Init
  <2> QED BY <2>1, <2>2, FS_EmptySet DEF LocksInv
<1>2. Inv /\ LocksInv => LocksAreAccountedFor
  BY GrantsCounted DEF Inv, Formed
<1> QED BY <1>1, <1>2, NextLocks, Invariant, PTL DEF Spec

\* A listing through a handle is one of the directory that was opened, with
\* everything that stayed in it (cloudfs_opendir, cloudfs_readdir).
THEOREM ListingsTrue == Spec => []ListingIsOfThisDirectory
<1>1. Inv => ListingIsOfThisDirectory
  BY DEF Inv, StreamsAreLive, StreamOK, ListingIsOfThisDirectory
<1> QED BY <1>1, Invariant, PTL
=============================================================================
