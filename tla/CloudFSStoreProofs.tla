------------------------- MODULE CloudFSStoreProofs -------------------------
(***************************************************************************)
(* What applications see of the data path.  No update is lost: a session    *)
(* that is about to replace an object has seen it, with restarts, failed    *)
(* opens and failed uploads and deletions.  On any machines, cloudfs with   *)
(* threshold 0 implements SessionStore: close-to-open consistency.  On one  *)
(* machine, sizes and metadata tell the truth, and an open delivers the     *)
(* file that was looked up.                                                 *)
(***************************************************************************)
EXTENDS CloudFSProofs, FiniteSetTheorems

(***************************************************************************)
(* No lost update.                                                          *)
(***************************************************************************)
\* What the theorem needs: an open gets its lock and the whole object, a machine
\* has a file open once, and nobody truncates.
Orderly ==
  /\ ~MayGiveUp /\ ~Shared /\ ~MayTruncate
  /\ Faults \cap {"get", "disk"} = {}

(***************************************************************************)
(* The invariant: what one machine knows of its handlers ...                *)
(***************************************************************************)
\* Who only reads has nothing to publish, and so does not.
ReadersPublishNothing(m) ==
  /\ \A h \in Handles :
       fh[m][h] # None /\ fh[m][h].flags = "READ" =>
         ~fh[m][h].dirty /\ (~fh[m][h].proxy => fh[m][h].file = <<>>)
  /\ pc[m] \in {"put", "s3_delete"} => cur[m].flags = "WRITE"

LocalInv(m) ==
  HandlerMatches(m) /\ OpensAlone(m) /\ FilesNamed(m) /\ ReadersPublishNothing(m)

(***************************************************************************)
(* ... and what the lock server knows of all.                               *)
(***************************************************************************)
\* From the answer of the server until release_lock_wrapper.
Holds(m, h, k) ==
  \/ fh[m][h] # None /\ Key[fh[m][h].path] = k
  \/ pc[m] \in {"unlink", "get"} /\ cur[m].handle = h /\ CurKey(m) = k

Holders(k) == {s \in Machines \X Handles : Holds(s[1], s[2], k)}

LockedFor(s) == IF fh[s[1]][s[2]] # None THEN fh[s[1]][s[2]].flags ELSE cur[s[1]].flags

\* The server counts everybody who holds the lock, and those a restart or a failed
\* open made forget it; one writer is all it lets in.
LockCounts(k, item) ==
  /\ IsFiniteSet(Holders(k)) /\ Cardinality(Holders(k)) <= item.i
  /\ \A s \in Holders(k) : LockedFor(s) = item.operation
  /\ item.operation = "WRITE" => item.i <= 1
  /\ item.owners = {}

LocksCount == \A k \in Keys : LockCounts(k, locks[k])

\* Until a session has published, the object is the one it found or gone.
SessionsAreCurrent ==
  \A m \in Machines, h \in Handles :
    fh[m][h] # None /\ ~(pc[m] \in Done /\ cur[m].handle = h) =>
      cloud[Key[fh[m][h].path]] \in {None, fh[m][h].base}

UpdateInv ==
  (\A m \in Machines : ReadersPublishNothing(m)) /\ LocksCount /\ SessionsAreCurrent

(***************************************************************************)
(* One machine.                                                             *)
(***************************************************************************)
\* The lstat of cloudfs_release finds the file of the session, which is empty when
\* it is local and was only read.
LEMMA ReadersRelease ==
  ASSUME Formed, NEW m \in Machines, LocalInv(m), NEW h \in Handles, Release(m, h)
  PROVE  ReadersPublishNothing(m)'
<1> DEFINE f  == fh[m][h]
           st == Lstat(m, f.path)
<1>1. f \in FileHandlers /\ f.path \in Paths /\ pc[m] = "idle"
  BY ReleaseMakes
<1>2. st = [type |-> "file", size |-> Len(f.file)]
  <2>1. Entry(m, f.path) = h /\ h \notin {None, Link}
    BY <1>1, DistinctAssumption DEF LocalInv, FilesNamed
  <2> QED BY <2>1 DEF Lstat, File
<1>3. f.flags = "READ" => ReleaseStep(f, st) \in {"unlink_tmp", "unlock"}
  <2>1. f.file = <<>> => ~AboveThreshold(st)
    BY <1>2, CloudFSAssumption DEF AboveThreshold
  <2>2. st # None
    BY <1>1, <1>2, DistinctAssumption DEF Stats, FileHandlers, Contents
  <2>3. f # None
    BY <1>1, DistinctAssumption
  <2> QED BY <1>1, <2>1, <2>2, <2>3
          DEF ReleaseStep, LocalInv, ReadersPublishNothing, FileHandlers
<1>4. f.flags \in {"READ", "WRITE"}
  BY <1>1 DEF FileHandlers, LT!LockTypes
<1>5. UNCHANGED fh /\ pc'[m] = ReleaseStep(f, st) /\ cur'[m].flags = f.flags
  BY ReleaseMakes
<1> HIDE DEF f, st
<1> QED BY <1>3, <1>4, <1>5 DEF LocalInv, ReadersPublishNothing

LEMMA ReadersStep ==
  ASSUME Orderly, Formed, NEW m \in Machines, LocalInv(m), MachineStep(m)
  PROVE  ReadersPublishNothing(m)'
<1> USE DEF LocalInv, ReadersPublishNothing, At, Formed, TypeOK
<1>1. ASSUME NEW p \in Paths, Mknod(m, p) \/ Unlink(m, p)
      PROVE  ReadersPublishNothing(m)'
  BY <1>1 DEF Mknod, Unlink, Enter
<1>2. ASSUME NEW p \in Paths, NEW n \in 0..MaxLen
      PROVE  ~Truncate(m, p, n)
  BY DEF Truncate, Orderly
<1>3. ASSUME NEW p \in Paths, NEW h \in Handles, NEW flags \in LT!LockTypes, Open(m, h, p, flags)
      PROVE  ReadersPublishNothing(m)'
  BY <1>3 DEF Open, Enter
<1>4. ASSUME NEW h \in Handles, NEW offset \in 0..(MaxLen - 1), NEW b \in Blocks,
             Write(m, h, offset, b)
      PROVE  ReadersPublishNothing(m)'
  <2>1. /\ pc[m] = "idle" /\ UNCHANGED pc /\ fh[m][h].flags = "WRITE" /\ SameHandle(m, h)
        /\ \A g \in Handles \ {h} : fh'[m][g] = fh[m][g]
    <3> HIDE DEF Formed, TypeOK, LocalInv, ReadersPublishNothing
    <3> QED BY <1>4, WriteKeeps
  <2>2. fh'[m][h].flags = "WRITE" /\ pc'[m] = "idle"
    BY <2>1 DEF SameHandle
  <2>3. ASSUME NEW g \in Handles, fh'[m][g] # None, fh'[m][g].flags = "READ"
        PROVE  g # h /\ fh[m][g] # None /\ fh[m][g].flags = "READ" /\ fh'[m][g] = fh[m][g]
    BY <2>1, <2>2, <2>3
  <2> QED BY <2>2, <2>3
<1>5. ASSUME NEW h \in Handles, Release(m, h)
      PROVE  ReadersPublishNothing(m)'
  BY <1>5, ReadersRelease
<1>6. CASE LockGranted(m) \/ LockGivenUp(m) \/ OpenUnlinks(m) \/ OpenReturns(m)
  BY <1>6 DEF LockGranted, LockGivenUp, OpenUnlinks, OpenReturns, Goto, Return
<1>7. CASE OpenFetches(m)
  <2>1. /\ cur[m].handle \in Handles /\ CurKey(m) \in Keys /\ pc'[m] = "open"
        /\ \A h \in Handles \ {cur[m].handle} : fh'[m][h] = fh[m][h]
    BY <1>7, FetchedMakes
  <2>2. ~Fault("get") /\ ~Fault("disk")
    BY DEF Orderly, Fault
  <2>3. ~fh'[m][cur[m].handle].dirty
    BY <1>7, FetchedMakes
  <2>4. ~fh'[m][cur[m].handle].proxy => fh'[m][cur[m].handle].file = <<>>
    BY <1>7, <2>2, FetchedMakes
  <2> QED BY <2>1, <2>3, <2>4
<1>8. CASE OpenFails(m) \/ Unlock(m) \/ Crash(m)
  <2>1. PICK hs \in SUBSET Handles :
          /\ pc'[m] = "idle"
          /\ \A h \in Handles : fh'[m][h] = IF h \in hs THEN None ELSE fh[m][h]
    BY <1>8, ClosedMakes
  <2> QED BY <2>1
<1>9. CASE S3Delete(m) \/ S3Put(m)
  <2>1. ~At(m, "idle") /\ (fh' = Published(m) \/ UNCHANGED fh)
        /\ pc'[m] \in {"write_meta", "unlink_meta"}
    BY <1>9 DEF S3Delete, S3Put, Goto
  <2>2. \A h \in Handles : SameSession(m, h)
    BY <2>1, PublishedKeeps
  <2>3. ASSUME NEW h \in Handles, (fh[m][h] # None /\ fh[m][h].flags = "READ")'
        PROVE  (~fh[m][h].dirty /\ (~fh[m][h].proxy => fh[m][h].file = <<>>))'
    <3>1. SameSession(m, h)
      BY <2>2
    <3>2. ~fh[m][h].dirty /\ (~fh[m][h].proxy => fh[m][h].file = <<>>)
      BY <2>3, <3>1 DEF SameSession, SameHandle
    <3> QED BY <3>1, <3>2 DEF SameSession, SameHandle
  <2> QED BY <2>1, <2>3
<1>10. CASE UnlinkMeta(m) \/ WriteMeta(m) \/ UnlinkTmp(m) \/ Symlink(m)
  BY <1>10 DEF UnlinkMeta, WriteMeta, UnlinkTmp, Symlink, Goto
<1>11. CASE UnlinkEntry(m)
  BY <1>11 DEF UnlinkEntry, Return
<1> QED BY <1>1, <1>2, <1>3, <1>4, <1>5, <1>6, <1>7, <1>8, <1>9, <1>10, <1>11
        DEF MachineStep, HandlerStep

LEMMA ReadersElsewhere ==
  ASSUME Formed, NEW m \in Machines, MachineStep(m), NEW l \in Machines, l # m,
         ReadersPublishNothing(l)
  PROVE  ReadersPublishNothing(l)'
<1>1. Local(l)' = Local(l)
  BY OthersKeep
<1> QED BY <1>1 DEF Local, ReadersPublishNothing

(***************************************************************************)
(* The lock.                                                                *)
(***************************************************************************)
\* Nobody holds a lock for another machine.
LEMMA OthersHold ==
  ASSUME Formed, NEW m \in Machines, MachineStep(m), NEW l \in Machines, l # m,
         NEW h \in Handles, NEW k \in Keys
  PROVE  Holds(l, h, k)' = Holds(l, h, k) /\ LockedFor(<<l, h>>)' = LockedFor(<<l, h>>)
<1>1. Local(l)' = Local(l)
  BY OthersKeep
<1> QED BY <1>1 DEF Local, Holds, LockedFor, CurKey

\* Only the answer of the server makes a holder: fetching hands the lock of the
\* handler to the handle, for the same path and operation.
LEMMA HoldersStay ==
  ASSUME Orderly, Formed, NEW m \in Machines, LocalInv(m), MachineStep(m), ~LockGranted(m),
         NEW h \in Handles, NEW k \in Keys, Holds(m, h, k)'
  PROVE  Holds(m, h, k) /\ LockedFor(<<m, h>>)' = LockedFor(<<m, h>>)
<1> DEFINE Goal == Holds(m, h, k) /\ LockedFor(<<m, h>>)' = LockedFor(<<m, h>>)
<1> USE DEF Holds, LockedFor, CurKey, At, Formed, TypeOK
<1>1. ASSUME NEW p \in Paths,
             \/ Mknod(m, p) \/ Unlink(m, p)
             \/ \E n \in 0..MaxLen : Truncate(m, p, n)
             \/ \E g \in Handles, flags \in LT!LockTypes : Open(m, g, p, flags)
      PROVE  Goal
  BY <1>1 DEF Mknod, Unlink, Truncate, Orderly, Open, Enter
<1>2. ASSUME NEW g \in Handles, Release(m, g)
      PROVE  Goal
  <2>1. /\ UNCHANGED fh
        /\ pc'[m] = ReleaseStep(fh[m][g], Lstat(m, fh[m][g].path))
    BY <1>2 DEF Release, Enter
  <2>2. fh[m][g] \in FileHandlers
    BY <1>2 DEF Release
  <2>3. pc'[m] \notin {"unlink", "get"}
    BY <2>1, <2>2 DEF ReleaseStep, FileHandlers
  <2> QED BY <2>1, <2>3
<1>3. ASSUME NEW g \in Handles, NEW offset \in 0..(MaxLen - 1), NEW b \in Blocks,
             Write(m, g, offset, b)
      PROVE  Goal
  <2>1. UNCHANGED <<pc, cur>> /\ SameHandle(m, h)
    BY <1>3, WriteKeeps
  <2> QED BY <2>1 DEF SameHandle
<1>4. CASE LockGivenUp(m) \/ OpenUnlinks(m) \/ OpenReturns(m) \/ OpenFails(m)
  BY <1>4, RunningType
  DEF LockGivenUp, Orderly, OpenUnlinks, OpenReturns, OpenFails, Goto, Return
<1>5. CASE OpenFetches(m)
  <2>1. PICK proxy, data : Fetched(m, proxy, data)
    BY <1>5 DEF OpenFetches
  <2>2. /\ cur[m].handle \in Handles /\ fh[m][cur[m].handle] = None
        /\ At(m, "get") /\ Goto(m, "open")
    BY <1>5, RunningType DEF OpenFetches, LocalInv, HandlerMatches, Opening
  <2>3. fh'[m][cur[m].handle] = NewHandler(cur[m].path, cur[m].flags, proxy, data)
    BY <2>1, <2>2 DEF Fetched
  <2>4. h # cur[m].handle => fh'[m][h] = fh[m][h]
    BY <2>1, <2>2 DEF Fetched
  <2>5. pc'[m] = "open" /\ cur' = cur
    BY <2>2 DEF Goto
  <2> QED BY <2>2, <2>3, <2>4, <2>5 DEF NewHandler
<1>6. CASE S3Delete(m) \/ S3Put(m)
  <2>1. /\ pc[m] \in {"put", "s3_delete"} /\ pc'[m] \in {"write_meta", "unlink_meta"}
        /\ UNCHANGED ssd /\ (fh' = Published(m) \/ UNCHANGED fh)
    BY <1>6 DEF S3Delete, S3Put, Goto
  <2>2. SameSession(m, h)
    BY <2>1, PublishedKeeps
  <2> QED BY <2>1, <2>2 DEF SameSession, SameHandle
<1>7. CASE UnlinkMeta(m) \/ WriteMeta(m) \/ UnlinkTmp(m) \/ Symlink(m)
  BY <1>7 DEF UnlinkMeta, WriteMeta, UnlinkTmp, Symlink, Goto
<1>8. CASE Unlock(m) \/ UnlinkEntry(m) \/ Crash(m)
  BY <1>8, RunningType DEF Unlock, UnlinkEntry, Crash, Return
<1> QED BY <1>1, <1>2, <1>3, <1>4, <1>5, <1>6, <1>7, <1>8 DEF MachineStep, HandlerStep

\* Only the wrappers send anything to the lock server.
LEMMA LocksKept ==
  ASSUME NEW m \in Machines, MachineStep(m), ~LockGranted(m), ~Unlock(m)
  PROVE  UNCHANGED locks
<1>1. ASSUME NEW p \in Paths,
             \/ Mknod(m, p) \/ Unlink(m, p)
             \/ \E n \in 0..MaxLen : Truncate(m, p, n)
             \/ \E h \in Handles, flags \in LT!LockTypes : Open(m, h, p, flags)
      PROVE  UNCHANGED locks
  BY <1>1 DEF Mknod, Unlink, Truncate, Open
<1>2. ASSUME NEW h \in Handles,
             \/ Release(m, h)
             \/ \E offset \in 0..(MaxLen - 1), b \in Blocks : Write(m, h, offset, b)
      PROVE  UNCHANGED locks
  BY <1>2 DEF Release, Write
<1>3. CASE \/ LockGivenUp(m) \/ OpenUnlinks(m) \/ OpenFetches(m) \/ OpenReturns(m) \/ OpenFails(m)
  BY <1>3 DEF LockGivenUp, OpenUnlinks, OpenFetches, OpenReturns, OpenFails
<1>4. CASE \/ S3Delete(m) \/ S3Put(m) \/ UnlinkMeta(m) \/ WriteMeta(m) \/ UnlinkTmp(m) \/ Symlink(m)
           \/ UnlinkEntry(m) \/ Crash(m)
  BY <1>4 DEF S3Delete, S3Put, UnlinkMeta, WriteMeta, UnlinkTmp, Symlink, UnlinkEntry, Crash
<1> QED BY <1>1, <1>2, <1>3, <1>4 DEF MachineStep, HandlerStep

\* Fewer holders leave the count an upper bound.
LEMMA FewerHolders ==
  ASSUME NEW k \in Keys, NEW item \in LT!LockItems(Machines), LockCounts(k, item),
         \A s \in Holders(k)' : s \in Holders(k) /\ LockedFor(s)' = LockedFor(s)
  PROVE  LockCounts(k, item)'
<1>1. IsFiniteSet(Holders(k)') /\ Cardinality(Holders(k)') <= Cardinality(Holders(k))
  BY FS_Subset DEF LockCounts
<1>2. Cardinality(Holders(k)) \in Nat /\ Cardinality(Holders(k)') \in Nat /\ item.i \in Nat
  BY <1>1, FS_CardinalityType DEF LockCounts, LT!LockItems
<1> QED BY <1>1, <1>2 DEF LockCounts

\* Two holders of a lock only read.
LEMMA WritersAreAlone ==
  ASSUME NEW k \in Keys, NEW item \in LT!LockItems(Machines), LockCounts(k, item),
         NEW s \in Holders(k), NEW t \in Holders(k), s # t
  PROVE  LockedFor(s) # "WRITE"
<1> SUFFICES ASSUME LockedFor(s) = "WRITE" PROVE FALSE
  OBVIOUS
<1>1. item.i <= 1 /\ item.i \in Nat
  BY DEF LockCounts, LT!LockItems
<1>2. IsFiniteSet(Holders(k)) /\ Cardinality(Holders(k)) <= 1
  BY <1>1, FS_CardinalityType DEF LockCounts
<1>3. IsFiniteSet(Holders(k) \ {s}) /\ Cardinality(Holders(k) \ {s}) = Cardinality(Holders(k)) - 1
  BY <1>2, FS_RemoveElement
<1>4. Cardinality(Holders(k) \ {s}) = 0
  BY <1>2, <1>3, FS_CardinalityType
<1> QED BY <1>3, <1>4, FS_EmptySet

\* A grant adds one holder and one to the count: a writer where nobody is, a reader
\* where only readers are (Compatible).
LEMMA GrantCounted ==
  ASSUME Orderly, Formed, NEW m \in Machines, LocalInv(m), LocksCount, LockGranted(m)
  PROVE  LocksCount'
<1>0. PICK h, c : h = cur[m].handle /\ c = CurKey(m)
  OBVIOUS
<1>1. /\ h \in Handles /\ fh[m][h] = None /\ c \in Keys /\ cur[m].flags \in LT!LockTypes
      /\ At(m, "acquire") /\ Goto(m, "unlink") /\ UNCHANGED fh
  BY <1>0, RunningType DEF LockGranted, LocalInv, HandlerMatches, Opening, At
<1>2. pc'[m] = "unlink" /\ cur' = cur /\ \A l \in Machines : l # m => pc'[l] = pc[l]
  BY <1>1 DEF Goto, Formed, TypeOK
<1>3. \A k \in Keys : Holders(k)' = IF k = c THEN Holders(k) \cup {<<m, h>>} ELSE Holders(k)
  BY <1>0, <1>1, <1>2 DEF Holders, Holds, CurKey, At
<1>4. \A k \in Keys : \A s \in Holders(k) : LockedFor(s)' = LockedFor(s)
  BY <1>1, <1>2 DEF LockedFor
<1>5. ASSUME NEW k \in Keys, k # c
      PROVE  LockCounts(k, locks[k])'
  <2>1. locks'[k] = locks[k]
    BY <1>0, <1>1, <1>5 DEF LockGranted, Formed, TypeOK
  <2> QED BY <1>3, <1>4, <1>5, <2>1 DEF LocksCount, LockCounts
<1>6. LockCounts(c, locks[c])'
  <2>1. PICK old \in LT!LockItems(Machines) : old = locks[c]
    BY <1>1 DEF Formed, TypeOK
  <2>2. LockCounts(c, old)
    BY <1>1, <2>1 DEF LocksCount
  <2>3. old.i \in Nat /\ LT!Compatible(old, cur[m].flags)
    BY <1>0, <2>1 DEF LockGranted, LT!AcquireStatus, LT!AlreadyGranted, LT!LockItems
  <2>4. locks'[c] = [operation |-> cur[m].flags, i |-> old.i + 1, owners |-> {}]
    BY <1>0, <1>1, <2>1, <2>2, <2>3
    DEF LockGranted, LT!Acquired, LT!AlreadyGranted, LockCounts, Formed, TypeOK
  <2>5. IsFiniteSet(Holders(c)') /\ Cardinality(Holders(c)') <= old.i + 1
    <3>1. /\ IsFiniteSet(Holders(c)) /\ Cardinality(Holders(c)) \in Nat
          /\ Cardinality(Holders(c)) <= old.i
      BY <2>2, FS_CardinalityType DEF LockCounts
    <3>2. <<m, h>> \notin Holders(c)
      BY <1>0, <1>1 DEF Holders, Holds, At
    <3>3. /\ IsFiniteSet(Holders(c) \cup {<<m, h>>})
          /\ Cardinality(Holders(c) \cup {<<m, h>>}) = Cardinality(Holders(c)) + 1
      BY <3>1, <3>2, FS_AddElement
    <3>4. Holders(c)' = Holders(c) \cup {<<m, h>>}
      BY <1>1, <1>3
    <3> QED BY <2>3, <3>1, <3>3, <3>4
  <2>6. ASSUME NEW s \in Holders(c)'
        PROVE  LockedFor(s)' = cur[m].flags
    <3>1. CASE s = <<m, h>>
      BY <1>0, <1>1, <1>2, <3>1 DEF LockedFor
    <3>2. CASE s # <<m, h>>
      <4>1. s \in Holders(c) /\ LockedFor(s)' = LockedFor(s) /\ LockedFor(s) = old.operation
        BY <1>1, <1>3, <1>4, <2>2, <2>6, <3>2 DEF LockCounts
      <4>2. old.i # 0
        BY <2>2, <4>1, FS_EmptySet, FS_CardinalityType DEF LockCounts
      <4> QED BY <2>3, <4>1, <4>2 DEF LT!Compatible, LT!Free
    <3> QED BY <3>1, <3>2
  <2>7. cur[m].flags = "WRITE" => old.i + 1 <= 1
    BY <2>3 DEF LT!Compatible, LT!Free
  <2> QED BY <2>4, <2>5, <2>6, <2>7 DEF LockCounts
<1> QED BY <1>5, <1>6 DEF LocksCount

\* A release takes away one holder and at most one from the count.
LEMMA ReleaseCounted ==
  ASSUME Orderly, Formed, NEW m \in Machines, LocalInv(m), LocksCount, Unlock(m),
         \A k \in Keys : \A s \in Holders(k)' : s \in Holders(k) /\ LockedFor(s)' = LockedFor(s)
  PROVE  LocksCount'
<1>0. PICK h, c : h = cur[m].handle /\ c = CurKey(m)
  OBVIOUS
<1>1. h \in Handles /\ c \in Keys /\ fh[m][h] # None /\ Key[fh[m][h].path] = c /\ At(m, "unlock")
  BY <1>0, RunningType DEF Unlock, LocalInv, HandlerMatches, Done, At, CurKey
<1>2. ASSUME NEW k \in Keys, locks'[k] = locks[k]
      PROVE  LockCounts(k, locks[k])'
  <2>1. PICK item \in LT!LockItems(Machines) : item = locks[k]
    BY DEF Formed, TypeOK
  <2>2. LockCounts(k, item)'
    BY <2>1, FewerHolders DEF LocksCount
  <2> QED BY <1>2, <2>1, <2>2 DEF LockCounts
<1>3. ASSUME locks' = [locks EXCEPT ![c] = LT!Released(@, m)]
      PROVE  LockCounts(c, locks[c])'
  <2>1. PICK old \in LT!LockItems(Machines) : old = locks[c]
    BY <1>1 DEF Formed, TypeOK
  <2>2. LockCounts(c, old)
    BY <1>1, <2>1 DEF LocksCount
  <2>3. <<m, h>> \in Holders(c) /\ <<m, h>> \notin Holders(c)'
    <3>1. <<m, h>> \in Holders(c)
      BY <1>1 DEF Holders, Holds
    <3>2. fh'[m][h] = None /\ pc'[m] = "idle"
      BY <1>0, <1>1 DEF Unlock, Return, Formed, TypeOK
    <3> QED BY <3>1, <3>2 DEF Holders, Holds
  <2>4. /\ IsFiniteSet(Holders(c)) /\ Cardinality(Holders(c)) \in Nat
        /\ Cardinality(Holders(c)) <= old.i
    BY <2>2, FS_CardinalityType DEF LockCounts
  <2>5. /\ IsFiniteSet(Holders(c) \ {<<m, h>>})
        /\ Cardinality(Holders(c) \ {<<m, h>>}) = Cardinality(Holders(c)) - 1
    BY <2>3, <2>4, FS_RemoveElement
  <2>6. IsFiniteSet(Holders(c)') /\ Cardinality(Holders(c)') <= Cardinality(Holders(c)) - 1
    <3>1. Holders(c)' \subseteq Holders(c) \ {<<m, h>>}
      BY <1>1, <2>3
    <3> QED BY <2>5, <3>1, FS_Subset
  <2>7. Cardinality(Holders(c)') \in Nat
    BY <2>6, FS_CardinalityType
  <2>8. old.i \in Nat /\ old.i > 0
    BY <2>4, <2>6, <2>7 DEF LT!LockItems
  <2>9. locks'[c] = LT!Released(old, m)
    BY <1>1, <1>3, <2>1 DEF Formed, TypeOK
  <2>10. LT!Releasable(old, m)
    BY <2>8 DEF LT!Releasable
  <2>11. /\ locks'[c].i = old.i - 1 /\ locks'[c].owners = {}
         /\ old.i # 1 => locks'[c].operation = old.operation
         /\ old.i = 1 => locks'[c].operation = "UNDEFINED"
    <3> DEFINE left == [old EXCEPT !.i = old.i - 1, !.owners = old.owners \ {m}]
    <3>1. left.i = old.i - 1 /\ left.owners = {} /\ left.operation = old.operation
      BY <2>2 DEF LT!LockItems, LockCounts
    <3>2. locks'[c] = IF LT!Free(left) THEN LT!Unlocked ELSE left
      BY <2>9, <2>10 DEF LT!Released
    <3> HIDE DEF left
    <3>3. CASE old.i = 1
      <4>1. locks'[c] = LT!Unlocked
        BY <3>1, <3>2, <3>3 DEF LT!Free
      <4> QED BY <3>3, <4>1 DEF LT!Unlocked
    <3>4. CASE old.i # 1
      <4>1. locks'[c] = left
        BY <2>8, <3>1, <3>2, <3>4 DEF LT!Free
      <4> QED BY <3>1, <3>4, <4>1
    <3> QED BY <3>3, <3>4
  <2>12. ASSUME NEW s \in Holders(c)'
        PROVE  old.i # 1 /\ LockedFor(s)' = old.operation
    <3>1. Cardinality(Holders(c)') # 0
      BY <2>6, <2>12, FS_EmptySet
    <3> QED BY <1>1, <2>2, <2>4, <2>6, <2>7, <2>12, <3>1 DEF LockCounts
  <2>13. old.operation = "WRITE" => old.i <= 1
    BY <2>2 DEF LockCounts
  <2>14. Cardinality(Holders(c)') <= old.i - 1
    BY <2>4, <2>6, <2>7, <2>8
  <2> QED BY <2>6, <2>8, <2>11, <2>12, <2>13, <2>14 DEF LockCounts
<1>4. ASSUME NEW k \in Keys
      PROVE  LockCounts(k, locks[k])'
  <2>1. \/ UNCHANGED locks
        \/ locks' = [locks EXCEPT ![c] = LT!Released(@, m)]
    BY <1>0 DEF Unlock
  <2>2. locks'[k] = locks[k] \/ (k = c /\ locks' = [locks EXCEPT ![c] = LT!Released(@, m)])
    BY <2>1 DEF Formed, TypeOK
  <2> QED BY <1>2, <1>3, <2>2
<1> QED BY <1>4 DEF LocksCount

LEMMA LocksStep ==
  ASSUME Orderly, Formed, NEW m \in Machines, LocalInv(m), LocksCount, MachineStep(m)
  PROVE  LocksCount'
<1>1. CASE LockGranted(m)
  BY <1>1, GrantCounted
<1>2. CASE ~LockGranted(m)
  <2>1. ASSUME NEW k \in Keys, NEW s \in Holders(k)'
        PROVE  s \in Holders(k) /\ LockedFor(s)' = LockedFor(s)
    <3>1. PICK l \in Machines, h \in Handles : s = <<l, h>> /\ Holds(l, h, k)'
      BY <2>1 DEF Holders
    <3>2. Holds(l, h, k) /\ LockedFor(<<l, h>>)' = LockedFor(<<l, h>>)
      BY <1>2, <3>1, OthersHold, HoldersStay
    <3> QED BY <3>1, <3>2 DEF Holders
  <2>2. CASE Unlock(m)
    BY <2>1, <2>2, ReleaseCounted
  <2>3. CASE ~Unlock(m)
    <3>1. UNCHANGED locks
      BY <1>2, <2>3, LocksKept
    <3>2. ASSUME NEW k \in Keys
          PROVE  LockCounts(k, locks[k])'
      <4>1. PICK item \in LT!LockItems(Machines) : item = locks[k]
        BY DEF Formed, TypeOK
      <4>2. LockCounts(k, item)'
        BY <2>1, <4>1, FewerHolders DEF LocksCount
      <4> QED BY <3>1, <4>1, <4>2 DEF LockCounts
    <3> QED BY <3>2 DEF LocksCount
  <2> QED BY <2>2, <2>3
<1> QED BY <1>1, <1>2

(***************************************************************************)
(* Objects.                                                                 *)
(***************************************************************************)
Unpublished(m, h) == fh[m][h] # None /\ ~(pc[m] \in Done /\ cur[m].handle = h)

\* A session that has not published yet was there before, the same, unless it is the
\* one that fetches.
LEMMA UnpublishedStay ==
  ASSUME Orderly, Formed, NEW m \in Machines, LocalInv(m), MachineStep(m), ~OpenFetches(m),
         NEW h \in Handles, Unpublished(m, h)'
  PROVE  /\ Unpublished(m, h)
         /\ fh'[m][h].path = fh[m][h].path /\ fh'[m][h].base = fh[m][h].base
<1> DEFINE Goal == /\ Unpublished(m, h)
                   /\ fh'[m][h].path = fh[m][h].path /\ fh'[m][h].base = fh[m][h].base
<1> USE DEF Unpublished, Done, At, Formed, TypeOK
<1>1. ASSUME NEW p \in Paths,
             \/ Mknod(m, p) \/ Unlink(m, p)
             \/ \E n \in 0..MaxLen : Truncate(m, p, n)
             \/ \E g \in Handles, flags \in LT!LockTypes : Open(m, g, p, flags)
      PROVE  Goal
  BY <1>1 DEF Mknod, Unlink, Truncate, Orderly, Open
<1>2. ASSUME NEW g \in Handles, Release(m, g)
      PROVE  Goal
  BY <1>2 DEF Release
<1>3. ASSUME NEW g \in Handles, NEW offset \in 0..(MaxLen - 1), NEW b \in Blocks,
             Write(m, g, offset, b)
      PROVE  Goal
  <2>1. UNCHANGED <<pc, cur>> /\ pc[m] = "idle" /\ SameHandle(m, h)
    BY <1>3, WriteKeeps
  <2> QED BY <2>1 DEF SameHandle
<1>4. CASE LockGranted(m) \/ LockGivenUp(m) \/ OpenUnlinks(m) \/ OpenReturns(m)
  BY <1>4 DEF LockGranted, LockGivenUp, OpenUnlinks, OpenReturns
<1>5. CASE OpenFails(m)
  <2>1. pc[m] = "open" /\ pc'[m] = "idle"
    BY <1>5 DEF OpenFails, Return
  <2>2. h # cur[m].handle /\ fh'[m][h] = fh[m][h]
    BY <1>5 DEF OpenFails
  <2> QED BY <2>1, <2>2
<1>6. CASE S3Delete(m) \/ S3Put(m)
  <2>1. /\ pc[m] \in {"put", "s3_delete"} /\ UNCHANGED ssd
        /\ (fh' = Published(m) \/ UNCHANGED fh)
    BY <1>6 DEF S3Delete, S3Put
  <2>2. SameSession(m, h)
    BY <2>1, PublishedKeeps
  <2> QED BY <2>1, <2>2 DEF SameSession, SameHandle
<1>7. CASE UnlinkMeta(m) \/ WriteMeta(m) \/ UnlinkTmp(m) \/ Symlink(m)
  BY <1>7, DistinctAssumption DEF UnlinkMeta, WriteMeta, UnlinkTmp, Symlink, Goto
<1>8. CASE Unlock(m)
  BY <1>8 DEF Unlock
<1>9. CASE UnlinkEntry(m) \/ Crash(m)
  BY <1>9 DEF UnlinkEntry, Crash
<1> QED BY <1>1, <1>2, <1>3, <1>4, <1>5, <1>6, <1>7, <1>8, <1>9 DEF MachineStep, HandlerStep

\* Whoever replaces an object is alone with it and done.
LEMMA PutKeepsOthers ==
  ASSUME Orderly, Formed, NEW m \in Machines, LocalInv(m), LocksCount, S3Put(m),
         NEW l \in Machines, NEW h \in Handles, Unpublished(l, h)', Unpublished(l, h)
  PROVE  cloud'[Key[fh[l][h].path]] = cloud[Key[fh[l][h].path]]
<1> PICK g, c : g = cur[m].handle /\ c = CurKey(m)
  OBVIOUS
<1>1. /\ g \in Handles /\ c \in Keys /\ fh[m][g] # None /\ Key[fh[m][g].path] = c
      /\ fh[m][g].flags = "WRITE"
  BY RunningType DEF S3Put, LocalInv, HandlerMatches, ReadersPublishNothing, At, CurKey
<1>2. fh[l][h] \in FileHandlers /\ Key[fh[l][h].path] \in Keys
  BY KeyType DEF Unpublished, Formed, TypeOK, FileHandlers
<1>3. CASE Key[fh[l][h].path] # c
  BY <1>1, <1>2, <1>3 DEF S3Put, Formed, TypeOK
<1>4. CASE Key[fh[l][h].path] = c
  <2>1. <<m, g>> \in Holders(c) /\ <<l, h>> \in Holders(c)
    BY <1>1, <1>4 DEF Holders, Holds, Unpublished
  <2>2. LockedFor(<<m, g>>) = "WRITE"
    BY <1>1 DEF LockedFor
  <2>3. <<m, g>> = <<l, h>>
    BY <1>1, <2>1, <2>2, WritersAreAlone DEF LocksCount, Formed, TypeOK
  <2>4. pc'[m] \in Done /\ cur'[m].handle = g
    BY DEF S3Put, Goto, Done, Formed, TypeOK
  <2> QED BY <2>3, <2>4 DEF Unpublished
<1> QED BY <1>3, <1>4

LEMMA SessionsStep ==
  ASSUME Orderly, Formed, NEW m \in Machines, LocalInv(m), LocksCount, SessionsAreCurrent,
         MachineStep(m)
  PROVE  SessionsAreCurrent'
<1> SUFFICES ASSUME NEW l \in Machines, NEW h \in Handles, Unpublished(l, h)'
             PROVE  (cloud[Key[fh[l][h].path]] \in {None, fh[l][h].base})'
  BY DEF SessionsAreCurrent, Unpublished
<1>1. CASE l = m /\ h = cur[m].handle /\ OpenFetches(m)
  <2>1. cur[m].path \in Paths /\ CurKey(m) \in Keys
    BY <1>1, RunningType DEF OpenFetches, At
  <2>2. PICK proxy, data :
          /\ Fetched(m, proxy, data)
          /\ cloud[CurKey(m)] \in {None, data}
    BY <1>1 DEF OpenFetches, Orderly, Fault
  <2>3. fh'[m][h] = NewHandler(cur[m].path, cur[m].flags, proxy, data)
    BY <1>1, <2>2 DEF Fetched, Formed, TypeOK
  <2>4. fh'[m][h].path = cur[m].path /\ fh'[m][h].base = data
    BY <2>3 DEF NewHandler
  <2>5. UNCHANGED cloud
    BY <1>1 DEF OpenFetches
  <2> QED BY <1>1, <2>2, <2>4, <2>5 DEF CurKey
<1>2. CASE ~(l = m /\ h = cur[m].handle /\ OpenFetches(m))
  <2>1. /\ Unpublished(l, h)
        /\ fh'[l][h].path = fh[l][h].path /\ fh'[l][h].base = fh[l][h].base
    <3>1. CASE l # m
      <4>1. Local(l)' = Local(l)
        BY <3>1, OthersKeep
      <4> QED BY <4>1 DEF Local, Unpublished
    <3>2. CASE l = m /\ ~OpenFetches(m)
      BY <3>2, UnpublishedStay
    <3>3. CASE l = m /\ OpenFetches(m)
      <4>1. PICK proxy, data : Fetched(m, proxy, data)
        BY <3>3 DEF OpenFetches
      <4>2. fh'[m][h] = fh[m][h] /\ pc[m] = "get"
        BY <1>2, <3>3, <4>1 DEF OpenFetches, Fetched, Formed, TypeOK, At
      <4> QED BY <3>3, <4>2 DEF Unpublished, Done
    <3> QED BY <3>1, <3>2, <3>3
  <2>2. fh[l][h] \in FileHandlers /\ Key[fh[l][h].path] \in Keys
    BY <2>1, KeyType DEF Unpublished, Formed, TypeOK, FileHandlers
  <2>3. cloud[Key[fh[l][h].path]] \in {None, fh[l][h].base}
    BY <2>1 DEF SessionsAreCurrent, Unpublished
  <2>4. cloud'[Key[fh[l][h].path]] \in {None, cloud[Key[fh[l][h].path]]}
    <3>1. CASE S3Put(m)
      BY <2>1, <3>1, PutKeepsOthers
    <3>2. CASE S3Delete(m)
      BY <2>2, <3>2 DEF S3Delete, Formed, TypeOK
    <3>3. CASE ~S3Put(m) /\ ~S3Delete(m)
      BY <3>3, ObjectsKept
    <3> QED BY <3>1, <3>2, <3>3
  <2> QED BY <2>1, <2>3, <2>4
<1> QED BY <1>1, <1>2

(***************************************************************************)
(* The theorem.                                                             *)
(***************************************************************************)
LEMMA InitUpdateInv == Init => UpdateInv
<1> SUFFICES ASSUME Init PROVE UpdateInv
  OBVIOUS
<1>1. \A m \in Machines : ReadersPublishNothing(m)
  BY DEF Init, ReadersPublishNothing
<1>2. \A k \in Keys : Holders(k) = {}
  BY DEF Init, Holders, Holds
<1>3. LocksCount
  <2> SUFFICES ASSUME NEW k \in Keys PROVE LockCounts(k, locks[k])
    BY DEF LocksCount
  <2>1. locks[k].i = 0 /\ locks[k].owners = {} /\ locks[k].operation = "UNDEFINED"
    BY DEF Init, LT!Unlocked
  <2> QED BY <1>2, <2>1, FS_EmptySet DEF LockCounts
<1>4. SessionsAreCurrent
  BY DEF Init, SessionsAreCurrent
<1> QED BY <1>1, <1>3, <1>4 DEF UpdateInv

LEMMA UpdateInvStep ==
  ASSUME Orderly PROVE Sound /\ OpenOnce /\ UpdateInv /\ [Next]_vars => UpdateInv'
<1> SUFFICES ASSUME Sound, OpenOnce, UpdateInv, [Next]_vars PROVE UpdateInv'
  OBVIOUS
<1>1. CASE UNCHANGED vars
  <2>1. \A m \in Machines : ReadersPublishNothing(m)'
    BY <1>1 DEF UpdateInv, vars, ReadersPublishNothing
  <2>2. \A k \in Keys : Holders(k)' = Holders(k)
    BY <1>1 DEF vars, Holders, Holds, CurKey
  <2>3. LocksCount'
    BY <1>1, <2>2 DEF UpdateInv, vars, LocksCount, LockCounts, LockedFor
  <2>4. SessionsAreCurrent'
    BY <1>1 DEF UpdateInv, vars, SessionsAreCurrent
  <2> QED BY <2>1, <2>3, <2>4 DEF UpdateInv
<1>2. ASSUME NEW m \in Machines, MachineStep(m)
      PROVE  UpdateInv'
  <2>1. Formed /\ LocalInv(m) /\ LocksCount /\ SessionsAreCurrent
    BY DEF Sound, HandlesMatch, OpenOnce, UpdateInv, LocalInv
  <2>2. \A l \in Machines : ReadersPublishNothing(l)'
    BY <1>2, <2>1, ReadersStep, ReadersElsewhere DEF UpdateInv
  <2> QED BY <1>2, <2>1, <2>2, LocksStep, SessionsStep DEF UpdateInv
<1> QED BY <1>1, <1>2, NextIsMachines

\* No update is lost: what a close is about to replace or delete in the cloud is what
\* its session found when it opened the file. For any machines, paths, keys and
\* handles, with restarts, failed opens, and failed uploads and deletions
\* (acquire_lock_wrapper around s3_cloudfs_get, s3_cloudfs_put and s3_delete).
THEOREM UpdatesAreKept ==
  ASSUME Orderly PROVE Spec => []PublishersAreCurrent
<1>0. ~Shared
  BY DEF Orderly
<1>1. Spec => []UpdateInv
  BY <1>0, InitUpdateInv, UpdateInvStep, AlwaysSound, AlwaysOnce, PTL DEF Spec
<1>2. Sound /\ UpdateInv => PublishersAreCurrent
  <2> SUFFICES ASSUME Sound, UpdateInv, NEW m \in Machines,
                      pc[m] \in {"put", "s3_delete"}, cur[m].handle # None,
                      cloud[CurKey(m)] # None
               PROVE  cloud[CurKey(m)] = fh[m][cur[m].handle].base
    BY DEF PublishersAreCurrent
  <2>1. cur[m].handle \in Handles
    BY RunningType DEF Sound, At
  <2>2. fh[m][cur[m].handle] # None /\ fh[m][cur[m].handle].path = cur[m].path
    BY DEF Sound, HandlesMatch, HandlerMatches, At
  <2>3. pc[m] \notin Done
    BY DEF Done
  <2> QED BY <2>1, <2>2, <2>3 DEF UpdateInv, SessionsAreCurrent, CurKey
<1> QED BY <1>1, <1>2, AlwaysSound, PTL

(***************************************************************************)
(* Close-to-open consistency.                                               *)
(***************************************************************************)
\* What the theorem needs: every file is above the threshold, a machine has it open
\* once, nobody truncates, and nothing goes wrong but that machines restart.
CloseToOpen == Threshold = 0 /\ ~Shared /\ ~MayTruncate /\ Faults \subseteq {"crash"}

\* The handle is open, and its release has not come to an end in the cloud.
Unfinished(m, h) == fh[m][h] # None /\ ~(pc[m] \in Done /\ cur[m].handle = h)

\* The dirty bit of a proxy and the contents of a local file tell whether there are
\* edits to publish.
EditsShow(f) ==
  /\ f.dirty <=> f.proxy /\ f.changed
  /\ ~f.proxy /\ ~f.changed => f.file = <<>>
  /\ f.changed => f.file # <<>>

\* Who uploads has edits, nothing else goes by way of s3_delete in a release, and
\* who is done has published.
ClosesPublish(m) ==
  /\ pc[m] = "put" => fh[m][cur[m].handle].changed
  /\ pc[m] = "s3_delete" => cur[m].handle = None
  /\ pc[m] \in Done /\ cur[m].handle # None => ~fh[m][cur[m].handle].changed

SessionInv(m) ==
  /\ \A h \in Handles : Unfinished(m, h) => EditsShow(fh[m][h])
  /\ \A h \in Handles : fh[m][h] # None => Len(fh[m][h].file) <= MaxLen
  /\ ClosesPublish(m)

ObjectsBounded == \A k \in Keys : cloud[k] # None => Len(cloud[k]) <= MaxLen

StoreInv == ObjectsBounded /\ \A m \in Machines : SessionInv(m)

LEMMA WrittenBounded ==
  ASSUME NEW c \in Contents, Len(c) <= MaxLen, NEW offset \in 0..(MaxLen - 1), NEW b \in Blocks
  PROVE  Len(Written(c, offset, b)) <= MaxLen /\ Written(c, offset, b) # <<>>
<1> DEFINE n == IF offset < Len(c) THEN Len(c) ELSE offset + 1
<1>1. n \in Nat /\ n <= MaxLen /\ n > 0
  BY CloudFSAssumption DEF Contents
<1>2. Resized(c, n) \in Contents /\ Len(Resized(c, n)) = n
  BY <1>1, ResizedType
<1> HIDE DEF n
<1>3. Len([Resized(c, n) EXCEPT ![offset + 1] = b]) = n
  BY <1>2 DEF Contents
<1>4. Len(Written(c, offset, b)) = n
  BY <1>3 DEF Written, n
<1> QED BY <1>1, <1>4

LEMMA BoundedType ==
  ASSUME NEW c \in Contents, Len(c) <= MaxLen
  PROVE  c \in BoundedContents
BY CloudFSAssumption DEF Contents, BoundedContents

\* The file that a release finds under its name is its own.
LEMMA ReleaseFinds ==
  ASSUME Sound, OpenOnce, NEW m \in Machines, NEW h \in Handles, Release(m, h)
  PROVE  /\ Lstat(m, fh[m][h].path) = [type |-> "file", size |-> Len(fh[m][h].file)]
         /\ Lstat(m, fh[m][h].path) # None
         /\ fh[m][h].file \in Contents
<1>1. fh[m][h] \in FileHandlers /\ pc[m] = "idle"
  BY ReleaseMakes DEF Sound
<1>2. Entry(m, fh[m][h].path) = h
  BY <1>1, DistinctAssumption DEF OpenOnce, FilesNamed
<1>3. Lstat(m, fh[m][h].path) = [type |-> "file", size |-> Len(fh[m][h].file)]
  BY <1>2, DistinctAssumption DEF Lstat, File
<1>4. fh[m][h].file \in Contents
  BY <1>1 DEF FileHandlers
<1>5. Lstat(m, fh[m][h].path) \in Stats
  BY <1>3, <1>4 DEF Stats, Contents
<1> QED BY <1>3, <1>4, <1>5, DistinctAssumption

\* What s3_cloudfs_put sends is the file of the session.
LEMMA PutSends ==
  ASSUME Sound, OpenOnce, NEW m \in Machines, At(m, "put")
  PROVE  /\ cur[m].handle \in Handles /\ CurKey(m) \in Keys
         /\ fh[m][cur[m].handle] \in FileHandlers
         /\ Key[fh[m][cur[m].handle].path] = CurKey(m)
         /\ Entry(m, cur[m].path) = cur[m].handle
         /\ Uploaded(m) = fh[m][cur[m].handle].file
         /\ Uploaded(m) \in Contents /\ Uploaded(m) # None
<1>1. Formed /\ HandlerMatches(m) /\ FilesNamed(m) /\ pc[m] = "put"
  BY DEF Sound, HandlesMatch, OpenOnce, At
<1>2. cur[m].handle \in Handles /\ CurKey(m) \in Keys /\ fh[m][cur[m].handle] # None
      /\ fh[m][cur[m].handle].path = cur[m].path
  BY <1>1, RunningType DEF HandlerMatches, At
<1>3. fh[m][cur[m].handle] \in FileHandlers
  BY <1>1, <1>2 DEF Formed, TypeOK
<1>4. Entry(m, cur[m].path) = cur[m].handle
  BY <1>1, <1>2 DEF FilesNamed
<1>5. Uploaded(m) = fh[m][cur[m].handle].file
  BY <1>2, <1>4, DistinctAssumption DEF Uploaded, File
<1> QED BY <1>2, <1>3, <1>4, <1>5, DistinctAssumption DEF CurKey, FileHandlers

LEMMA SessionApplication ==
  ASSUME CloseToOpen, Sound, OpenOnce, NEW m \in Machines, SessionInv(m)
  PROVE  /\ \A p \in Paths :
              /\ Mknod(m, p) \/ Unlink(m, p) => SessionInv(m)'
              /\ \A n \in 0..MaxLen : ~Truncate(m, p, n)
              /\ \A h \in Handles, flags \in LT!LockTypes : Open(m, h, p, flags) => SessionInv(m)'
         /\ \A h \in Handles :
              /\ Release(m, h) => SessionInv(m)'
              /\ \A offset \in 0..(MaxLen - 1), b \in Blocks :
                   Write(m, h, offset, b) => SessionInv(m)'
<1>0. Formed
  BY DEF Sound
<1>1. ASSUME NEW p \in Paths,
             \/ Mknod(m, p) \/ Unlink(m, p)
             \/ \E h \in Handles, flags \in LT!LockTypes : Open(m, h, p, flags)
      PROVE  SessionInv(m)'
  <2>1. UNCHANGED fh /\ pc[m] = "idle"
    BY <1>1 DEF Mknod, Unlink, Open, At
  <2>2. \/ pc'[m] \in {"idle", "acquire", "unlink_entry"}
        \/ pc'[m] = "s3_delete" /\ cur'[m].handle = None
    BY <1>0, <1>1, <2>1 DEF Mknod, Unlink, Open, Enter, Formed, TypeOK
  <2> QED BY <2>1, <2>2 DEF SessionInv, Unfinished, ClosesPublish, Done
<1>2. ASSUME NEW p \in Paths, NEW n \in 0..MaxLen
      PROVE  ~Truncate(m, p, n)
  BY DEF Truncate, CloseToOpen
<1>3. ASSUME NEW h \in Handles, Release(m, h)
      PROVE  SessionInv(m)'
  <2> DEFINE f == fh[m][h]
  <2>1. /\ pc[m] = "idle" /\ UNCHANGED fh /\ f \in FileHandlers
        /\ pc'[m] = ReleaseStep(f, Lstat(m, f.path)) /\ cur'[m].handle = h
    BY <1>0, <1>3, ReleaseMakes
  <2>2. /\ Lstat(m, f.path) = [type |-> "file", size |-> Len(f.file)]
        /\ Lstat(m, f.path) # None /\ f.file \in Contents
    BY <1>3, ReleaseFinds
  <2>3. AboveThreshold(Lstat(m, f.path)) <=> f.file # <<>>
    BY <2>2 DEF AboveThreshold, CloseToOpen, Contents
  <2>4. EditsShow(f)
    BY <2>1, DistinctAssumption DEF SessionInv, Unfinished, Done
  <2>5. f.proxy \in BOOLEAN /\ f.dirty \in BOOLEAN /\ f.changed \in BOOLEAN
    BY <2>1 DEF FileHandlers
  <2>6. pc'[m] = IF f.changed THEN "put" ELSE IF f.proxy THEN "unlink_tmp" ELSE "unlock"
    BY <2>1, <2>2, <2>3, <2>4, <2>5 DEF ReleaseStep, EditsShow
  <2>7. ClosesPublish(m)'
    BY <2>1, <2>6 DEF ClosesPublish, Done
  <2> QED BY <2>1, <2>7 DEF SessionInv, Unfinished, Done
<1>4. ASSUME NEW h \in Handles, NEW offset \in 0..(MaxLen - 1), NEW b \in Blocks,
             Write(m, h, offset, b)
      PROVE  SessionInv(m)'
  <2>1. /\ pc[m] = "idle" /\ UNCHANGED pc
        /\ fh[m][h] \in FileHandlers /\ fh'[m][h] \in FileHandlers
        /\ \A g \in Handles \ {h} : fh'[m][g] = fh[m][g]
        /\ fh'[m][h].file = Written(fh[m][h].file, offset, b)
        /\ fh'[m][h].dirty = (fh[m][h].dirty \/ fh[m][h].proxy)
        /\ fh'[m][h].changed = TRUE /\ SameHandle(m, h)
    BY <1>0, <1>4, WriteKeeps
  <2>2. fh[m][h] # None /\ Unfinished(m, h)
    BY <2>1, DistinctAssumption DEF Unfinished, Done
  <2>3. fh[m][h].file \in Contents /\ Len(fh[m][h].file) <= MaxLen /\ EditsShow(fh[m][h])
    BY <2>1, <2>2 DEF SessionInv, FileHandlers
  <2>4. Len(fh'[m][h].file) <= MaxLen /\ fh'[m][h].file # <<>>
    BY <2>1, <2>3, WrittenBounded
  <2>5. EditsShow(fh'[m][h])
    BY <2>1, <2>3, <2>4 DEF EditsShow, FileHandlers, SameHandle
  <2> QED BY <2>1, <2>4, <2>5 DEF SessionInv, Unfinished, ClosesPublish, Done
<1> QED BY <1>1, <1>2, <1>3, <1>4

LEMMA SessionHandler ==
  ASSUME CloseToOpen, Sound, OpenOnce, NEW m \in Machines, SessionInv(m), ObjectsBounded,
         HandlerStep(m) \/ Crash(m)
  PROVE  SessionInv(m)'
<1>0. Formed /\ HandlerMatches(m)
  BY DEF Sound, HandlesMatch
<1> USE <1>0 DEF At
<1>1. CASE LockGranted(m) \/ LockGivenUp(m) \/ OpenUnlinks(m) \/ OpenReturns(m) \/ UnlinkEntry(m)
  <2>1. /\ UNCHANGED fh /\ pc[m] \notin Done
        /\ pc'[m] \in {"unlink", "get", "idle"}
    BY <1>1 DEF LockGranted, LockGivenUp, OpenUnlinks, OpenReturns, UnlinkEntry, Goto, Return,
                Done, Formed, TypeOK
  <2> QED BY <2>1 DEF SessionInv, Unfinished, ClosesPublish, Done
<1>2. CASE OpenFetches(m)
  <2> DEFINE f == fh'[m][cur[m].handle]
             object == cloud[CurKey(m)]
  <2>1. /\ cur[m].handle \in Handles /\ CurKey(m) \in Keys /\ pc[m] = "get" /\ pc'[m] = "open"
        /\ \A h \in Handles \ {cur[m].handle} : fh'[m][h] = fh[m][h]
        /\ f \in FileHandlers /\ ~f.dirty /\ ~f.changed
    BY <1>2, FetchedMakes
  <2>2. ~Fault("get") /\ ~Fault("disk")
    BY DEF Fault, CloseToOpen
  <2>3. f.proxy = (object # None) /\ f.file = IF object = None THEN <<>> ELSE object
    BY <1>2, <2>2, FetchedMakes
  <2> HIDE DEF f
  <2>4. EditsShow(f) /\ Len(f.file) <= MaxLen
    <3>1. CASE object = None
      BY <2>1, <2>3, <3>1, CloudFSAssumption DEF EditsShow, FileHandlers
    <3>2. CASE object # None
      BY <2>1, <2>3, <3>2 DEF EditsShow, ObjectsBounded, FileHandlers
    <3> QED BY <3>1, <3>2
  <2> QED BY <2>1, <2>4 DEF SessionInv, Unfinished, ClosesPublish, Done, f
<1>3. CASE OpenFails(m)
  BY <1>3 DEF OpenFails, Fault, CloseToOpen
<1>4. CASE Unlock(m) \/ Crash(m)
  <2>1. PICK hs \in SUBSET Handles :
          /\ hs = IF Crash(m) THEN Handles ELSE {cur[m].handle}
          /\ pc'[m] = "idle"
          /\ \A h \in Handles : fh'[m][h] = IF h \in hs THEN None ELSE fh[m][h]
    BY <1>4, ClosedMakes
  <2>2. \A h \in Handles : fh'[m][h] # None => fh'[m][h] = fh[m][h] /\ h # cur[m].handle
    BY <2>1
  <2> QED BY <2>1, <2>2 DEF SessionInv, Unfinished, ClosesPublish, Done
<1>5. CASE S3Delete(m)
  <2>1. cur[m].handle = None /\ pc[m] = "s3_delete"
    BY <1>5 DEF S3Delete, SessionInv, ClosesPublish
  <2>2. pc'[m] = "unlink_meta" /\ UNCHANGED <<fh, cur>>
    BY <1>5, <2>1 DEF S3Delete, Published, Goto, Formed, TypeOK
  <2> QED BY <2>1, <2>2, DistinctAssumption DEF SessionInv, Unfinished, ClosesPublish, Done
<1>6. CASE S3Put(m)
  <2>1. /\ cur[m].handle \in Handles /\ fh[m][cur[m].handle] \in FileHandlers
        /\ Entry(m, cur[m].path) = cur[m].handle
    BY <1>6, PutSends DEF S3Put
  <2>2. ~Fault("put")
    BY DEF Fault, CloseToOpen
  <2>3. fh' = [fh EXCEPT ![m][cur[m].handle].changed = FALSE]
    BY <1>6, <2>1, <2>2, DistinctAssumption DEF S3Put, Published
  <2>4. fh'[m][cur[m].handle].changed = FALSE
    BY <2>1, <2>3 DEF Formed, TypeOK, FileHandlers
  <2>5. pc'[m] = "write_meta" /\ cur' = cur /\ pc[m] = "put"
    BY <1>6 DEF S3Put, Goto, Formed, TypeOK
  <2>6. \A h \in Handles : SameSession(m, h)
    BY <1>6, PublishedKeeps DEF S3Put
  <2>7. \A h \in Handles \ {cur[m].handle} : fh'[m][h] = fh[m][h]
    BY <2>1, <2>3 DEF Formed, TypeOK
  <2>8. ASSUME NEW h \in Handles, fh'[m][h] # None
        PROVE  Len(fh'[m][h].file) <= MaxLen
    BY <2>6, <2>8 DEF SessionInv, SameSession, SameHandle
  <2>9. ASSUME NEW h \in Handles, Unfinished(m, h)'
        PROVE  EditsShow(fh'[m][h])
    BY <2>5, <2>7, <2>9 DEF SessionInv, Unfinished, Done
  <2> QED BY <2>4, <2>5, <2>8, <2>9 DEF SessionInv, ClosesPublish
<1>7. CASE UnlinkMeta(m) \/ WriteMeta(m) \/ UnlinkTmp(m) \/ Symlink(m)
  <2>1. /\ UNCHANGED <<fh, cur>> /\ pc[m] \in Done
        /\ pc'[m] \in Done \/ (cur[m].handle = None /\ pc'[m] = "unlink_entry")
    BY <1>7 DEF UnlinkMeta, WriteMeta, UnlinkTmp, Symlink, Goto, Done, Formed, TypeOK
  <2> QED BY <2>1, DistinctAssumption DEF SessionInv, Unfinished, ClosesPublish, Done
<1> QED BY <1>1, <1>2, <1>3, <1>4, <1>5, <1>6, <1>7 DEF HandlerStep

LEMMA StoreInvStep ==
  ASSUME CloseToOpen
  PROVE  Sound /\ OpenOnce /\ StoreInv /\ [Next]_vars => StoreInv'
<1> SUFFICES ASSUME Sound, OpenOnce, StoreInv, [Next]_vars PROVE StoreInv'
  OBVIOUS
<1>0. Formed
  BY DEF Sound
<1>1. CASE UNCHANGED vars
  BY <1>1 DEF vars, StoreInv, ObjectsBounded, SessionInv, Unfinished, ClosesPublish
<1>2. ASSUME NEW m \in Machines, MachineStep(m)
      PROVE  StoreInv'
  <2>1. SessionInv(m)'
    BY <1>2, SessionApplication, SessionHandler DEF MachineStep, StoreInv
  <2>2. ASSUME NEW l \in Machines, l # m
        PROVE  SessionInv(l)'
    <3>1. Local(l)' = Local(l)
      BY <1>0, <1>2, <2>2, OthersKeep
    <3> QED BY <3>1 DEF Local, StoreInv, SessionInv, Unfinished, ClosesPublish
  <2>3. ObjectsBounded'
    <3>1. CASE S3Put(m)
      <4>1. /\ CurKey(m) \in Keys /\ cur[m].handle \in Handles
            /\ fh[m][cur[m].handle] \in FileHandlers
            /\ Uploaded(m) = fh[m][cur[m].handle].file
        BY <3>1, PutSends DEF S3Put
      <4>2. Len(Uploaded(m)) <= MaxLen
        BY <4>1, DistinctAssumption DEF StoreInv, SessionInv
      <4> QED BY <1>0, <3>1, <4>1, <4>2
              DEF S3Put, StoreInv, ObjectsBounded, Formed, TypeOK
    <3>2. CASE S3Delete(m)
      BY <1>0, <3>2 DEF S3Delete, StoreInv, ObjectsBounded, Formed, TypeOK
    <3>3. CASE ~S3Put(m) /\ ~S3Delete(m)
      <4>1. UNCHANGED cloud
        BY <1>2, <3>3, ObjectsKept
      <4> QED BY <4>1 DEF StoreInv, ObjectsBounded
    <3> QED BY <3>1, <3>2, <3>3
  <2> QED BY <2>1, <2>2, <2>3 DEF StoreInv
<1> QED BY <1>1, <1>2, NextIsMachines

(***************************************************************************)
(* The steps of the store.                                                  *)
(***************************************************************************)
Seen == <<StoreSeen, SessionSeen>>

\* What a step does to one session is all it does.
LEMMA OneSession ==
  ASSUME Formed, NEW m \in Machines, NEW h \in Handles, NEW new,
         \A l \in Machines, g \in Handles :
           ~(l = m /\ g = h) => SessionSeen'[<<l, g>>] = SessionSeen[<<l, g>>],
         SessionSeen'[<<m, h>>] = new
  PROVE  SessionSeen' = [SessionSeen EXCEPT ![<<m, h>>] = new]
<1> DEFINE S == Machines \X Handles
<1>1. /\ SessionSeen = [s \in S |-> SessionSeen[s]]
      /\ SessionSeen' = [s \in S |-> SessionSeen'[s]]
  BY DEF SessionSeen
<1>2. \A s \in S : SessionSeen'[s] = IF s = <<m, h>> THEN new ELSE SessionSeen[s]
  OBVIOUS
<1> QED BY <1>1, <1>2

LEMMA SeenAt ==
  ASSUME NEW m \in Machines, NEW h \in Handles
  PROVE  SessionSeen[<<m, h>>] =
           IF fh[m][h] = None THEN None
           ELSE [key |-> Key[fh[m][h].path], data |-> fh[m][h].file, changed |-> fh[m][h].changed]
BY DEF SessionSeen

LEMMA SeenNext ==
  ASSUME NEW m \in Machines, NEW h \in Handles
  PROVE  SessionSeen'[<<m, h>>] =
           IF fh'[m][h] = None THEN None
           ELSE [key |-> Key[fh'[m][h].path], data |-> fh'[m][h].file,
                 changed |-> fh'[m][h].changed]
BY DEF SessionSeen

LEMMA SeenKept ==
  ASSUME NEW m \in Machines, NEW h \in Handles,
         \A l \in Machines, g \in Handles : ~(l = m /\ g = h) => fh'[l][g] = fh[l][g]
  PROVE  \A l \in Machines, g \in Handles :
           ~(l = m /\ g = h) => SessionSeen'[<<l, g>>] = SessionSeen[<<l, g>>]
<1>1. ASSUME NEW l \in Machines, NEW g \in Handles, fh'[l][g] = fh[l][g]
      PROVE  SessionSeen'[<<l, g>>] = SessionSeen[<<l, g>>]
  <2>1. SessionSeen[<<l, g>>] =
          IF fh[l][g] = None THEN None
          ELSE [key |-> Key[fh[l][g].path], data |-> fh[l][g].file, changed |-> fh[l][g].changed]
    BY SeenAt
  <2>2. SessionSeen'[<<l, g>>] =
          IF fh'[l][g] = None THEN None
          ELSE [key |-> Key[fh'[l][g].path], data |-> fh'[l][g].file,
                changed |-> fh'[l][g].changed]
    BY SeenNext
  <2> QED BY <1>1, <2>1, <2>2
<1> QED BY <1>1

LEMMA SeenType ==
  ASSUME Formed, NEW m \in Machines, NEW h \in Handles, fh[m][h] # None
  PROVE  /\ SessionSeen[<<m, h>>] =
              [key |-> Key[fh[m][h].path], data |-> fh[m][h].file, changed |-> fh[m][h].changed]
         /\ SessionSeen[<<m, h>>] # None
         /\ Key[fh[m][h].path] \in Keys
<1>1. fh[m][h] \in FileHandlers
  BY DEF Formed, TypeOK
<1>2. Key[fh[m][h].path] \in Keys /\ fh[m][h].file \in Contents /\ fh[m][h].changed \in BOOLEAN
  BY <1>1, KeyType DEF FileHandlers
<1> QED BY <1>2, SeenAt, SessionAssumption

LEMMA SeenFields ==
  ASSUME Formed, NEW m \in Machines, NEW h \in Handles, fh[m][h] # None
  PROVE  /\ SessionSeen[<<m, h>>].key = Key[fh[m][h].path]
         /\ SessionSeen[<<m, h>>].data = fh[m][h].file
         /\ SessionSeen[<<m, h>>].changed = fh[m][h].changed
<1> PICK s : s = SessionSeen[<<m, h>>]
  OBVIOUS
<1>1. s = [key |-> Key[fh[m][h].path], data |-> fh[m][h].file, changed |-> fh[m][h].changed]
  BY SeenType
<1>2. /\ s.key = Key[fh[m][h].path] /\ s.data = fh[m][h].file
      /\ s.changed = fh[m][h].changed
  BY <1>1
<1> QED BY <1>2

\* A write is an edit of its session.
LEMMA WriteEdits ==
  ASSUME CloseToOpen, Sound, OpenOnce, StoreInv, NEW m \in Machines, NEW h \in Handles,
         NEW offset \in 0..(MaxLen - 1), NEW b \in Blocks, Write(m, h, offset, b)
  PROVE  \E d \in BoundedContents : Store!Edit(<<m, h>>, d)
<1>0. Formed
  BY DEF Sound
<1> DEFINE d == Written(fh[m][h].file, offset, b)
<1>1. /\ fh[m][h] \in FileHandlers /\ fh'[m][h] \in FileHandlers
      /\ \A g \in Handles \ {h} : fh'[m][g] = fh[m][g]
      /\ fh'[m][h].file = d /\ fh'[m][h].changed = TRUE /\ SameHandle(m, h)
  BY <1>0, WriteKeeps
<1>2. fh[m][h] # None /\ fh'[m][h] # None
  BY <1>1, DistinctAssumption
<1>3. d \in BoundedContents
  <2>1. fh[m][h].file \in Contents /\ Len(fh[m][h].file) <= MaxLen
    BY <1>1, <1>2 DEF StoreInv, SessionInv, FileHandlers
  <2>2. d \in Contents
    BY <2>1, CloudFSAssumption, WrittenType DEF Data
  <2> QED BY <2>1, <2>2, WrittenBounded, BoundedType
<1> HIDE DEF d
<1>4. SessionSeen'[<<m, h>>] = [key |-> Key[fh[m][h].path], data |-> d, changed |-> TRUE]
  <2>1. /\ fh'[m][h].path = fh[m][h].path /\ fh'[m][h].file = d
        /\ fh'[m][h].changed = TRUE
    BY <1>1 DEF SameHandle
  <2> QED BY <1>2, <2>1, SeenNext
<1>5. \A l \in Machines, g \in Handles :
        ~(l = m /\ g = h) => SessionSeen'[<<l, g>>] = SessionSeen[<<l, g>>]
  <2>1. \A l \in Machines \ {m} : fh'[l] = fh[l]
    BY <1>0 DEF Write, Formed, TypeOK
  <2> QED BY <1>1, <2>1, SeenKept
<1>6. SessionSeen' = [SessionSeen EXCEPT ![<<m, h>>] =
                        [key |-> Key[fh[m][h].path], data |-> d, changed |-> TRUE]]
  BY <1>0, <1>4, <1>5, OneSession
<1>7. SessionSeen[<<m, h>>] # None /\ SessionSeen[<<m, h>>].key = Key[fh[m][h].path]
  BY <1>0, <1>2, SeenType, SeenFields
<1>8. UNCHANGED StoreSeen
  BY DEF Write, StoreSeen
<1> QED BY <1>3, <1>6, <1>7, <1>8 DEF Store!Edit, Store!Have

\* The fetch of cloudfs_open opens a session on what is published.
LEMMA FetchOpens ==
  ASSUME CloseToOpen, Sound, NEW m \in Machines, OpenFetches(m)
  PROVE  \E s \in Machines \X Handles, k \in Keys : Store!Open(s, k)
<1>0. Formed /\ HandlerMatches(m)
  BY DEF Sound, HandlesMatch
<1> PICK h, k : h = cur[m].handle /\ k = CurKey(m)
  OBVIOUS
<1> DEFINE f == fh'[m][h]
<1>1. /\ h \in Handles /\ k \in Keys /\ fh[m][h] = None
      /\ UNCHANGED cloud
      /\ \A g \in Handles \ {h} : fh'[m][g] = fh[m][g]
      /\ f \in FileHandlers /\ Key[f.path] = k /\ ~f.changed
  BY <1>0, FetchedMakes DEF CurKey
<1>2. ~Fault("get") /\ ~Fault("disk")
  BY DEF Fault, CloseToOpen
<1>3. f.file = StoreSeen[k]
  BY <1>0, <1>1, <1>2, FetchedMakes DEF StoreSeen
<1>4. f.changed = FALSE /\ f # None
  BY <1>1, DistinctAssumption DEF FileHandlers
<1>5. SessionSeen'[<<m, h>>] = [key |-> k, data |-> StoreSeen[k], changed |-> FALSE]
  BY <1>1, <1>3, <1>4 DEF SessionSeen
<1>6. \A l \in Machines, g \in Handles :
        ~(l = m /\ g = h) => SessionSeen'[<<l, g>>] = SessionSeen[<<l, g>>]
  <2>1. \A l \in Machines \ {m} : fh'[l] = fh[l]
    <3>1. PICK proxy, data : Fetched(m, proxy, data)
      BY DEF OpenFetches
    <3> QED BY <1>0, <3>1 DEF Fetched, Formed, TypeOK
  <2> QED BY <1>1, <2>1, SeenKept
<1>7. SessionSeen' = [SessionSeen EXCEPT ![<<m, h>>] =
                        [key |-> k, data |-> StoreSeen[k], changed |-> FALSE]]
  BY <1>0, <1>1, <1>5, <1>6, OneSession
<1>8. SessionSeen[<<m, h>>] = None /\ UNCHANGED StoreSeen
  BY <1>1, SeenAt DEF StoreSeen
<1>9. Store!Open(<<m, h>>, k)
  BY <1>7, <1>8 DEF Store!Open, Store!Have
<1> QED BY <1>1, <1>9

\* s3_cloudfs_put publishes the session that closes.
LEMMA PutPublishes ==
  ASSUME CloseToOpen, Sound, OpenOnce, StoreInv, NEW m \in Machines, S3Put(m)
  PROVE  \E s \in Machines \X Handles : Store!Publish(s)
<1>0. Formed
  BY DEF Sound
<1> PICK h, k : h = cur[m].handle /\ k = CurKey(m)
  OBVIOUS
<1> DEFINE f == fh[m][h]
<1>1. /\ h \in Handles /\ k \in Keys /\ f \in FileHandlers /\ Key[f.path] = k
      /\ Entry(m, cur[m].path) = h
      /\ Uploaded(m) = f.file /\ Uploaded(m) # None
  BY PutSends DEF S3Put
<1>2. f # None /\ f.changed
  BY <1>1, DistinctAssumption DEF S3Put, At, StoreInv, SessionInv, ClosesPublish
<1>3. ~Fault("put")
  BY DEF Fault, CloseToOpen
<1>4. cloud' = [cloud EXCEPT ![k] = f.file] /\ fh' = [fh EXCEPT ![m][h].changed = FALSE]
  BY <1>1, <1>3, DistinctAssumption DEF S3Put, Published
<1>5. /\ fh'[m][h] = [f EXCEPT !.changed = FALSE]
      /\ \A l \in Machines, g \in Handles : ~(l = m /\ g = h) => fh'[l][g] = fh[l][g]
  BY <1>0, <1>1, <1>4 DEF Formed, TypeOK
<1>6. /\ fh'[m][h].path = f.path /\ fh'[m][h].file = f.file /\ fh'[m][h].changed = FALSE
      /\ fh'[m][h] \in FileHandlers
  BY <1>1, <1>5 DEF FileHandlers
<1>7. fh'[m][h] # None
  BY <1>6, DistinctAssumption
<1>8. /\ SessionSeen[<<m, h>>] # None
      /\ SessionSeen[<<m, h>>].key = k /\ SessionSeen[<<m, h>>].data = fh[m][h].file
      /\ SessionSeen[<<m, h>>].changed
  BY <1>0, <1>1, <1>2, SeenType, SeenFields
<1>9. SessionSeen'[<<m, h>>] = [key |-> k, data |-> fh[m][h].file, changed |-> FALSE]
  BY <1>1, <1>6, <1>7, SeenNext
<1>10. \A l \in Machines, g \in Handles :
         ~(l = m /\ g = h) => SessionSeen'[<<l, g>>] = SessionSeen[<<l, g>>]
  BY <1>1, <1>5, SeenKept
<1>11. SessionSeen' = [SessionSeen EXCEPT ![<<m, h>>] =
                         [key |-> k, data |-> fh[m][h].file, changed |-> FALSE]]
  BY <1>0, <1>1, <1>9, <1>10, OneSession
<1>13. StoreSeen' = [StoreSeen EXCEPT ![k] = f.file]
  <2>1. \A c \in Keys : cloud'[c] = IF c = k THEN f.file ELSE cloud[c]
    BY <1>0, <1>1, <1>4 DEF Formed, TypeOK
  <2>2. f.file # None
    BY <1>1
  <2> HIDE DEF f
  <2> QED BY <2>1, <2>2 DEF StoreSeen
<1>14. Store!Publish(<<m, h>>)
  BY <1>8, <1>11, <1>13 DEF Store!Publish, Store!Have
<1> QED BY <1>1, <1>14

\* The end of a close ends the session.
LEMMA UnlockEnds ==
  ASSUME Sound, StoreInv, NEW m \in Machines, Unlock(m)
  PROVE  \E s \in Machines \X Handles : Store!End(s)
<1>0. Formed /\ HandlerMatches(m) /\ pc[m] = "unlock"
  BY DEF Sound, HandlesMatch, Unlock, At
<1> PICK h : h = cur[m].handle
  OBVIOUS
<1>1. h \in Handles /\ h # None /\ fh[m][h] # None
  BY <1>0, RunningType DEF HandlerMatches, Done, At
<1>2. ~fh[m][h].changed
  BY <1>0, <1>1 DEF StoreInv, SessionInv, ClosesPublish, Done
<1>3. fh' = [fh EXCEPT ![m][h] = None] /\ UNCHANGED cloud
  BY DEF Unlock
<1>4. SessionSeen'[<<m, h>>] = None
  BY <1>0, <1>1, <1>3 DEF SessionSeen, Formed, TypeOK
<1>5. \A l \in Machines, g \in Handles :
        ~(l = m /\ g = h) => SessionSeen'[<<l, g>>] = SessionSeen[<<l, g>>]
  BY <1>0, <1>1, <1>3 DEF SessionSeen, Formed, TypeOK
<1>6. SessionSeen' = [SessionSeen EXCEPT ![<<m, h>>] = None]
  BY <1>0, <1>1, <1>4, <1>5, OneSession
<1>7. SessionSeen[<<m, h>>] # None /\ ~SessionSeen[<<m, h>>].changed
  <2>1. SessionSeen[<<m, h>>].changed = fh[m][h].changed
    BY <1>0, <1>1, SeenFields
  <2>2. SessionSeen[<<m, h>>] # None
    BY <1>0, <1>1, SeenType
  <2> QED BY <1>2, <2>1, <2>2
<1>8. UNCHANGED StoreSeen
  BY <1>3 DEF StoreSeen
<1>9. Store!End(<<m, h>>)
  BY <1>6, <1>7, <1>8 DEF Store!End
<1> QED BY <1>1, <1>9

\* What cloudfs_unlink removes from the cloud is deleted, in no session.
LEMMA UnlinkDeletes ==
  ASSUME CloseToOpen, Sound, StoreInv, NEW m \in Machines, S3Delete(m)
  PROVE  \E k \in Keys : Store!Delete(k)
<1>0. Formed
  BY DEF Sound
<1> PICK k : k = CurKey(m)
  OBVIOUS
<1>1. k \in Keys /\ cur[m].handle = None
  BY <1>0, RunningType DEF S3Delete, At, StoreInv, SessionInv, ClosesPublish
<1>2. ~Fault("delete")
  BY DEF Fault, CloseToOpen
<1>3. cloud' = [cloud EXCEPT ![k] = None] /\ UNCHANGED fh
  BY <1>1, <1>2 DEF S3Delete, Published
<1>4. StoreSeen' = [StoreSeen EXCEPT ![k] = <<>>]
  <2>1. \A c \in Keys : cloud'[c] = IF c = k THEN None ELSE cloud[c]
    BY <1>0, <1>1, <1>3 DEF Formed, TypeOK
  <2> QED BY <2>1 DEF StoreSeen
<1>5. UNCHANGED SessionSeen
  BY <1>3 DEF SessionSeen
<1>6. Store!Delete(k)
  BY <1>4, <1>5 DEF Store!Delete
<1> QED BY <1>1, <1>6

\* A restart loses the sessions of its machine.
LEMMA CrashLoses ==
  ASSUME Sound, NEW m \in Machines, Crash(m)
  PROVE  \E lost \in SUBSET (Machines \X Handles) : Store!Lose(lost)
<1>0. Formed
  BY DEF Sound
<1> DEFINE lost == {m} \X Handles
<1>1. \A l \in Machines, h \in Handles : fh'[l][h] = IF l = m THEN None ELSE fh[l][h]
  BY <1>0 DEF Crash, Formed, TypeOK
<1>2. SessionSeen' = [s \in Machines \X Handles |-> IF s \in lost THEN None ELSE SessionSeen[s]]
  BY <1>1 DEF SessionSeen
<1>3. UNCHANGED StoreSeen
  BY DEF Crash, StoreSeen
<1>4. "crash" \in Faults
  BY DEF Crash, Fault
<1>5. Store!Lose(lost)
  BY <1>2, <1>3, <1>4 DEF Store!Lose
<1>6. lost \in SUBSET (Machines \X Handles)
  OBVIOUS
<1> QED BY <1>5, <1>6

\* Everything else is not seen: mknod, looking for the lock, unlinking and linking
\* names, metadata.
LEMMA RestUnseen ==
  ASSUME CloseToOpen, NEW m \in Machines, MachineStep(m),
         \A h \in Handles, offset \in 0..(MaxLen - 1), b \in Blocks : ~Write(m, h, offset, b),
         ~OpenFetches(m), ~S3Put(m), ~S3Delete(m), ~Unlock(m), ~Crash(m)
  PROVE  UNCHANGED Seen
<1>1. UNCHANGED <<cloud, fh>>
  <2>1. ASSUME NEW p \in Paths,
               \/ Mknod(m, p) \/ Unlink(m, p)
               \/ \E n \in 0..MaxLen : Truncate(m, p, n)
               \/ \E h \in Handles, flags \in LT!LockTypes : Open(m, h, p, flags)
        PROVE  UNCHANGED <<cloud, fh>>
    BY <2>1 DEF Mknod, Unlink, Truncate, Open, CloseToOpen
  <2>2. ASSUME NEW h \in Handles, Release(m, h)
        PROVE  UNCHANGED <<cloud, fh>>
    BY <2>2 DEF Release
  <2>3. CASE LockGranted(m) \/ LockGivenUp(m) \/ OpenUnlinks(m) \/ OpenReturns(m) \/ OpenFails(m)
    BY <2>3 DEF LockGranted, LockGivenUp, OpenUnlinks, OpenReturns, OpenFails, Fault, CloseToOpen
  <2>4. CASE UnlinkMeta(m) \/ WriteMeta(m) \/ UnlinkTmp(m) \/ Symlink(m) \/ UnlinkEntry(m)
    BY <2>4 DEF UnlinkMeta, WriteMeta, UnlinkTmp, Symlink, UnlinkEntry
  <2> QED BY <2>1, <2>2, <2>3, <2>4 DEF MachineStep, HandlerStep
<1> QED BY <1>1 DEF Seen, StoreSeen, SessionSeen

LEMMA StepSeen ==
  ASSUME CloseToOpen, Sound, OpenOnce, StoreInv, [Next]_vars
  PROVE  Store!Next \/ UNCHANGED Seen
<1>1. CASE UNCHANGED vars
  BY <1>1 DEF vars, Seen, StoreSeen, SessionSeen
<1>2. ASSUME NEW m \in Machines, MachineStep(m)
      PROVE  Store!Next \/ UNCHANGED Seen
  <2>1. ASSUME NEW h \in Handles, NEW offset \in 0..(MaxLen - 1), NEW b \in Blocks,
               Write(m, h, offset, b)
        PROVE  Store!Next
    <3>1. PICK d \in BoundedContents : Store!Edit(<<m, h>>, d)
      BY <2>1, WriteEdits
    <3> QED BY <3>1 DEF Store!Next
  <2>2. CASE OpenFetches(m)
    <3>1. PICK s \in Machines \X Handles, k \in Keys : Store!Open(s, k)
      BY <2>2, FetchOpens
    <3> QED BY <3>1 DEF Store!Next
  <2>3. CASE S3Put(m)
    <3>1. PICK s \in Machines \X Handles : Store!Publish(s)
      BY <2>3, PutPublishes
    <3> QED BY <3>1 DEF Store!Next
  <2>4. CASE Unlock(m)
    <3>1. PICK s \in Machines \X Handles : Store!End(s)
      BY <2>4, UnlockEnds
    <3> QED BY <3>1 DEF Store!Next
  <2>5. CASE S3Delete(m)
    <3>1. PICK k \in Keys : Store!Delete(k)
      BY <2>5, UnlinkDeletes
    <3> QED BY <3>1 DEF Store!Next
  <2>6. CASE Crash(m)
    <3>1. PICK lost \in SUBSET (Machines \X Handles) : Store!Lose(lost)
      BY <2>6, CrashLoses
    <3> QED BY <3>1 DEF Store!Next
  <2> QED BY <1>2, <2>1, <2>2, <2>3, <2>4, <2>5, <2>6, RestUnseen
<1> QED BY <1>1, <1>2, NextIsMachines

\* Close-to-open consistency: with threshold 0, for any machines, paths, keys (shared
\* by paths or not) and handles, with restarts and with locks that were given up, a
\* session reads what was last published when it fetches, what it wrote is published
\* whole and before it ends, and only what was written is published.
THEOREM SessionStoreImplemented ==
  ASSUME CloseToOpen PROVE Spec => ImplementsSessionStore
<1>0. ~Shared
  BY DEF CloseToOpen
<1>1. Init => StoreInv /\ Store!Init
  <2> SUFFICES ASSUME Init PROVE StoreInv /\ Store!Init
    OBVIOUS
  <2>1. StoreInv
    BY DEF Init, StoreInv, ObjectsBounded, SessionInv, Unfinished, ClosesPublish, Done
  <2>2. Store!Init
    BY DEF Init, Store!Init, StoreSeen, SessionSeen
  <2> QED BY <2>1, <2>2
<1>2. Spec => []StoreInv
  BY <1>0, <1>1, StoreInvStep, AlwaysSound, AlwaysOnce, PTL DEF Spec
<1>3. Sound /\ OpenOnce /\ StoreInv /\ [Next]_vars => [Store!Next]_<<StoreSeen, SessionSeen>>
  BY StepSeen DEF Seen
<1> QED BY <1>0, <1>1, <1>2, <1>3, AlwaysSound, AlwaysOnce, PTL
        DEF Spec, ImplementsSessionStore, Store!Spec

(***************************************************************************)
(* One machine.                                                             *)
(***************************************************************************)
\* What the theorems need: one machine, whose names have keys of their own and are
\* open once; nobody truncates and nothing goes wrong.  A lock may be given up.
Alone ==
  /\ \A l, m \in Machines : l = m
  /\ \A p, q \in Paths : Key[p] = Key[q] => p = q
  /\ ~Shared /\ ~MayTruncate /\ Faults = {}

\* lstat of a file of n blocks.
FileStat(n) == [type |-> "file", size |-> n]

\* The cloud has no object of k and the machine no metadata, or it has both and they agree.
Absent(m, k)   == cloud[k] = None /\ meta[m][k] = None
Truthful(m, k) == cloud[k] # None /\ meta[m][k] = FileStat(Len(cloud[k]))

\* Links are the names of objects; a file that is open is a proxy if it has one, any
\* other has none.
Settled(m, p) ==
  LET e == Entry(m, p)
  IN  /\ Absent(m, Key[p]) \/ Truthful(m, Key[p])
      /\ e = Link => Truthful(m, Key[p])
      /\ e \notin Handles \cup {Link} => Absent(m, Key[p])
      /\ e \in Handles => (fh[m][e].proxy <=> cloud[Key[p]] # None)

\* How far the handler that runs has come with its own name.
Moving(m) ==
  LET p == cur[m].path
      k == CurKey(m)
      h == cur[m].handle
  IN  /\ pc[m] \in {"acquire", "unlink", "open"} => Settled(m, p)
      /\ pc[m] = "get" => Absent(m, k) \/ Truthful(m, k)
      /\ pc[m] = "put" => cur[m].stat = FileStat(Len(fh[m][h].file))
      /\ pc[m] = "write_meta" => cloud[k] # None /\ cur[m].stat = FileStat(Len(cloud[k]))
      /\ pc[m] \in {"unlink_tmp", "symlink"} => Truthful(m, k)
      /\ pc[m] = "unlink_meta" => cloud[k] = None
      /\ pc[m] = "unlock" => \/ Entry(m, p) = Link /\ Truthful(m, k)
                             \/ Entry(m, p) = h /\ Absent(m, k)
      /\ pc[m] = "unlink_entry" => Absent(m, k)

NamesSettled(m) ==
  /\ \A p \in Paths : pc[m] = "idle" \/ cur[m].path # p => Settled(m, p)
  /\ Moving(m)

\* A step that leaves alone what is under p, its metadata and its object.
Keeps(m, p) ==
  /\ Entry(m, p)' = Entry(m, p)
  /\ meta'[m][Key[p]] = meta[m][Key[p]] /\ cloud'[Key[p]] = cloud[Key[p]]
  /\ Entry(m, p) \in Handles => fh'[m][Entry(m, p)].proxy = fh[m][Entry(m, p)].proxy

LEMMA KeepsSettled ==
  ASSUME NEW m \in Machines, NEW p \in Paths, Keeps(m, p), Settled(m, p)
  PROVE  Settled(m, p)'
<1>1. Absent(m, Key[p])' <=> Absent(m, Key[p])
  BY DEF Keeps, Absent
<1>2. Truthful(m, Key[p])' <=> Truthful(m, Key[p])
  BY DEF Keeps, Truthful
<1> QED BY <1>1, <1>2 DEF Keeps, Settled

\* A handler works on its own name.
LEMMA HandlerKeeps ==
  ASSUME Alone, Sound, NEW m \in Machines, HandlerStep(m), NEW q \in Paths, cur[m].path # q
  PROVE  Keeps(m, q)
<1>0. Formed /\ HandlerMatches(m) /\ NamesMatch(m)
  BY DEF Sound, HandlesMatch
<1>a. pc[m] # "idle"
  BY DEF HandlerStep, LockGranted, LockGivenUp, OpenUnlinks, OpenFetches, OpenReturns, OpenFails,
         S3Delete, UnlinkMeta, S3Put, WriteMeta, UnlinkTmp, Symlink, Unlock, UnlinkEntry, At
<1>b. cur[m].path \in Paths /\ Key[q] # CurKey(m) /\ CurKey(m) \in Keys
  BY <1>0, <1>a, RunningType DEF Alone, At, CurKey
<1>c. Entry(m, q) \in Handles => fh[m][Entry(m, q)] # None /\ fh[m][Entry(m, q)].path = q
  BY <1>0, DistinctAssumption DEF NamesMatch, Formed, HandlesAreLive, Entry
<1>d. Key[q] \in Keys
  BY KeyType
<1>1. CASE LockGranted(m) \/ LockGivenUp(m) \/ OpenReturns(m)
  BY <1>1 DEF LockGranted, LockGivenUp, OpenReturns, Keeps, Entry
<1>2. CASE OpenUnlinks(m) \/ UnlinkTmp(m) \/ Symlink(m) \/ UnlinkEntry(m)
  <2>1. Entry(m, q)' = Entry(m, q) /\ UNCHANGED <<meta, cloud, fh>>
    BY <1>0, <1>b, <1>2
    DEF OpenUnlinks, UnlinkTmp, Symlink, UnlinkEntry, SetEntry, Entry, Formed, TypeOK
  <2> QED BY <2>1 DEF Keeps
<1>3. CASE OpenFetches(m)
  <2>1. /\ UNCHANGED <<meta, cloud>> /\ Entry(m, q)' = Entry(m, q) /\ fh[m][cur[m].handle] = None
        /\ \A h \in Handles \ {cur[m].handle} : fh'[m][h] = fh[m][h]
    BY <1>0, <1>3, FetchedMakes
  <2> QED BY <1>c, <2>1 DEF Keeps
<1>4. CASE S3Delete(m) \/ S3Put(m)
  <2>1. UNCHANGED <<ssd, meta>> /\ (fh' = Published(m) \/ UNCHANGED fh)
    BY <1>4 DEF S3Delete, S3Put
  <2>2. cloud'[Key[q]] = cloud[Key[q]]
    BY <1>0, <1>b, <1>d, <1>4 DEF S3Delete, S3Put, Formed, TypeOK
  <2>3. ASSUME Entry(m, q) \in Handles
        PROVE  fh'[m][Entry(m, q)].proxy = fh[m][Entry(m, q)].proxy
    BY <1>0, <1>a, <2>1, <2>3, PublishedKeeps DEF At, SameSession, SameHandle
  <2> QED BY <2>1, <2>2, <2>3 DEF Keeps, Entry
<1>5. CASE UnlinkMeta(m) \/ WriteMeta(m)
  <2>1. UNCHANGED <<ssd, cloud, fh>> /\ meta'[m][Key[q]] = meta[m][Key[q]]
    BY <1>0, <1>b, <1>d, <1>5 DEF UnlinkMeta, WriteMeta, Formed, TypeOK
  <2> QED BY <2>1 DEF Keeps, Entry
<1>6. CASE Unlock(m)
  <2>1. UNCHANGED <<meta, cloud>> /\ pc[m] = "unlock"
    BY <1>6 DEF Unlock, At
  <2>2. PICK hs \in SUBSET Handles :
          /\ hs = IF Crash(m) THEN Handles ELSE {cur[m].handle}
          /\ \A h \in Handles : fh'[m][h] = IF h \in hs THEN None ELSE fh[m][h]
          /\ \A p \in Paths :
               Entry(m, p)' = IF Entry(m, p) \in hs THEN fh[m][Entry(m, p)].file ELSE Entry(m, p)
    BY <1>0, <1>6, ClosedMakes
  <2>3. hs = {cur[m].handle}
    BY <2>2 DEF Crash, Fault, Alone
  <2>4. cur[m].handle # None /\ fh[m][cur[m].handle].path = cur[m].path
    BY <1>0, <2>1 DEF HandlerMatches, At, Done
  <2>5. Entry(m, q) # cur[m].handle
    BY <1>c, <2>2, <2>3, <2>4
  <2> QED BY <2>1, <2>2, <2>3, <2>5 DEF Keeps
<1>7. CASE OpenFails(m)
  BY <1>7 DEF OpenFails, Fault, Alone
<1> QED BY <1>1, <1>2, <1>3, <1>4, <1>5, <1>6, <1>7 DEF HandlerStep

\* Applications find all names settled and start handlers where they may.
LEMMA SettledApplication ==
  ASSUME Alone, Sound, OpenOnce, NEW m \in Machines, NamesSettled(m)
  PROVE  /\ \A p \in Paths :
              /\ Mknod(m, p) \/ Unlink(m, p) => NamesSettled(m)'
              /\ \A n \in 0..MaxLen : ~Truncate(m, p, n)
              /\ \A h \in Handles, flags \in LT!LockTypes :
                   Open(m, h, p, flags) => NamesSettled(m)'
         /\ \A h \in Handles :
              /\ Release(m, h) => NamesSettled(m)'
              /\ \A offset \in 0..(MaxLen - 1), b \in Blocks :
                   Write(m, h, offset, b) => NamesSettled(m)'
<1>0. Formed
  BY DEF Sound
<1>1. ASSUME NEW p \in Paths, Mknod(m, p)
      PROVE  NamesSettled(m)'
  <2>1. /\ pc[m] = "idle" /\ UNCHANGED <<pc, meta, cloud, fh>> /\ Entry(m, p) = None
        /\ \A q \in Paths : Entry(m, q)' = IF q = p THEN <<>> ELSE Entry(m, q)
    BY <1>0, <1>1 DEF Mknod, At, SetEntry, Entry, Formed, TypeOK
  <2>2. <<>> \in Contents
    BY DEF Contents
  <2>3. None \notin Handles \cup {Link} /\ <<>> \notin Handles \cup {Link}
    BY <2>2, DistinctAssumption
  <2>4. Absent(m, Key[p])
    BY <2>1, <2>3 DEF NamesSettled, Settled
  <2>5. Settled(m, p)'
    BY <2>1, <2>3, <2>4 DEF Settled, Absent
  <2>6. ASSUME NEW q \in Paths, q # p
        PROVE  Settled(m, q)'
    BY <2>1, <2>6, KeepsSettled DEF NamesSettled, Keeps
  <2> QED BY <2>1, <2>5, <2>6 DEF NamesSettled, Moving
<1>2. ASSUME NEW p \in Paths, NEW n \in 0..MaxLen
      PROVE  ~Truncate(m, p, n)
  BY DEF Truncate, Alone
<1>3. ASSUME NEW p \in Paths, NEW h \in Handles, NEW flags \in LT!LockTypes, Open(m, h, p, flags)
      PROVE  NamesSettled(m)'
  <2>1. /\ pc[m] = "idle" /\ UNCHANGED <<ssd, meta, cloud, fh>>
        /\ pc'[m] = "acquire" /\ cur'[m].path = p
    BY <1>0, <1>3 DEF Open, At, Enter, Formed, TypeOK
  <2>2. \A q \in Paths : Settled(m, q)'
    BY <2>1 DEF NamesSettled, Settled, Absent, Truthful, Entry
  <2> QED BY <2>1, <2>2 DEF NamesSettled, Moving
<1>4. ASSUME NEW p \in Paths, Unlink(m, p)
      PROVE  NamesSettled(m)'
  <2>1. /\ pc[m] = "idle" /\ UNCHANGED <<ssd, meta, cloud, fh>>
        /\ pc'[m] = IF meta[m][Key[p]] # None THEN "s3_delete" ELSE "unlink_entry"
        /\ cur'[m].path = p
    BY <1>0, <1>4 DEF Unlink, At, Enter, Formed, TypeOK
  <2>2. \A q \in Paths : Settled(m, q)'
    BY <2>1 DEF NamesSettled, Settled, Absent, Truthful, Entry
  <2>3. ASSUME meta[m][Key[p]] = None
        PROVE  Absent(m, Key[p])'
    <3>1. Key[p] \in Keys /\ Settled(m, p)
      BY <2>1, KeyType DEF NamesSettled
    <3>2. ~Truthful(m, Key[p])
      <4>1. ASSUME cloud[Key[p]] # None PROVE FileStat(Len(cloud[Key[p]])) # None
        <5>1. cloud[Key[p]] \in Contents
          BY <1>0, <3>1, <4>1 DEF Formed, TypeOK
        <5>2. FileStat(Len(cloud[Key[p]])) \in Stats
          BY <5>1 DEF FileStat, Stats, Contents
        <5> QED BY <5>2, DistinctAssumption
      <4> QED BY <2>3, <4>1 DEF Truthful
    <3> QED BY <2>1, <3>1, <3>2 DEF Settled, Absent
  <2> QED BY <2>1, <2>2, <2>3 DEF NamesSettled, Moving, CurKey
<1>5. ASSUME NEW h \in Handles, Release(m, h)
      PROVE  NamesSettled(m)'
  <2> DEFINE f == fh[m][h]
             p == fh[m][h].path
  <2>1. /\ pc[m] = "idle" /\ UNCHANGED <<ssd, meta, cloud, fh>>
        /\ f \in FileHandlers /\ p \in Paths
        /\ pc'[m] = ReleaseStep(f, Lstat(m, p))
        /\ pc'[m] \in {"put", "s3_delete", "unlink_tmp", "unlock"}
        /\ cur'[m].path = p /\ cur'[m].handle = h /\ cur'[m].stat = Lstat(m, p)
    BY <1>0, <1>5, ReleaseMakes
  <2>2. /\ Lstat(m, p) = FileStat(Len(f.file)) /\ Lstat(m, p) # None
    BY <1>5, ReleaseFinds DEF FileStat
  <2>3. Entry(m, p) = h /\ Settled(m, p)
    BY <2>1, DistinctAssumption DEF OpenOnce, FilesNamed, NamesSettled
  <2>4. f.proxy \in BOOLEAN /\ f.dirty \in BOOLEAN
    BY <2>1 DEF FileHandlers
  <2>5. f.proxy <=> cloud[Key[p]] # None
    BY <2>3 DEF Settled
  <2>6. pc'[m] = "unlink_tmp" => f.proxy
    BY <2>1, <2>2, <2>4 DEF ReleaseStep
  <2>7. pc'[m] = "unlock" => ~f.proxy
    BY <2>1, <2>2, <2>4 DEF ReleaseStep
  <2>8. pc'[m] = "unlink_tmp" => Truthful(m, Key[p])'
    BY <2>1, <2>3, <2>5, <2>6 DEF Settled, Absent, Truthful
  <2>9. pc'[m] = "unlock" => Absent(m, Key[p])'
    BY <2>1, <2>3, <2>5, <2>7 DEF Settled, Absent, Truthful
  <2>10. \A q \in Paths : Settled(m, q)'
    BY <2>1 DEF NamesSettled, Settled, Absent, Truthful, Entry
  <2>11. Entry(m, p)' = h
    BY <2>1, <2>3 DEF Entry
  <2>12. Moving(m)'
    BY <2>1, <2>2, <2>8, <2>9, <2>11 DEF Moving, CurKey
  <2> QED BY <2>10, <2>12 DEF NamesSettled
<1>6. ASSUME NEW h \in Handles, NEW offset \in 0..(MaxLen - 1), NEW b \in Blocks,
             Write(m, h, offset, b)
      PROVE  NamesSettled(m)'
  <2>1. /\ pc[m] = "idle" /\ UNCHANGED <<ssd, pc, cur, meta, cloud>>
        /\ \A g \in Handles : SameHandle(m, g)
    BY <1>0, <1>6, WriteKeeps DEF Write
  <2>2. \A p \in Paths : Settled(m, p)'
    BY <2>1, KeepsSettled DEF NamesSettled, Keeps, Entry, SameHandle
  <2> QED BY <2>1, <2>2 DEF NamesSettled, Moving
<1> QED BY <1>1, <1>2, <1>3, <1>4, <1>5, <1>6

LEMMA MovingHandler ==
  ASSUME Alone, Sound, OpenOnce, NEW m \in Machines, NamesSettled(m), HandlerStep(m),
         NEW p, p = cur[m].path
  PROVE  Moving(m)' /\ (pc'[m] = "idle" => Settled(m, p)')
<1>0. Formed /\ HandlerMatches(m) /\ NamesMatch(m) /\ FilesNamed(m) /\ Moving(m)
  BY DEF Sound, HandlesMatch, OpenOnce, NamesSettled
<1> PICK k, h : k = CurKey(m) /\ h = cur[m].handle
  OBVIOUS
<1>a. pc[m] # "idle"
  BY DEF HandlerStep, LockGranted, LockGivenUp, OpenUnlinks, OpenFetches, OpenReturns, OpenFails,
         S3Delete, UnlinkMeta, S3Put, WriteMeta, UnlinkTmp, Symlink, Unlock, UnlinkEntry, At
<1>b. p \in Paths /\ k \in Keys /\ h \in Handles \cup {None} /\ k = Key[p]
  BY <1>0, <1>a, RunningType DEF At, CurKey
<1>n. \A kind : ~Fault(kind)
  BY DEF Fault, Alone
<1>1. CASE LockGranted(m) \/ LockGivenUp(m)
  <2>1. UNCHANGED <<ssd, meta, cloud, fh, cur>> /\ pc[m] = "acquire" /\ pc'[m] = "unlink"
    BY <1>0, <1>1 DEF LockGranted, LockGivenUp, At, Goto, Formed, TypeOK
  <2> QED BY <1>0, <2>1 DEF Moving, Settled, Absent, Truthful, Entry
<1>2. CASE OpenUnlinks(m)
  <2>1. UNCHANGED <<meta, cloud, fh, cur>> /\ pc[m] = "unlink" /\ pc'[m] = "get"
    BY <1>0, <1>2 DEF OpenUnlinks, At, Goto, Formed, TypeOK
  <2> QED BY <1>0, <1>b, <2>1 DEF Moving, Settled, Absent, Truthful, CurKey
<1>3. CASE OpenFetches(m)
  <2>1. /\ h \in Handles /\ pc[m] = "get" /\ pc'[m] = "open" /\ cur' = cur
        /\ UNCHANGED <<meta, cloud>> /\ Entry(m, p)' = h
        /\ fh'[m][h].proxy = (cloud[k] # None)
    BY <1>0, <1>3, <1>n, FetchedMakes
  <2>2. h # Link
    BY <2>1, DistinctAssumption
  <2>3. Absent(m, k)' \/ Truthful(m, k)'
    BY <1>0, <2>1 DEF Moving, Absent, Truthful
  <2>4. Settled(m, p)'
    BY <1>b, <2>1, <2>2, <2>3 DEF Settled
  <2> QED BY <2>1, <2>4 DEF Moving
<1>4. CASE OpenReturns(m)
  <2>1. UNCHANGED <<ssd, meta, cloud, fh>> /\ pc[m] = "open" /\ pc'[m] = "idle"
    BY <1>0, <1>4 DEF OpenReturns, At, Return, Formed, TypeOK
  <2>2. Settled(m, p)'
    BY <1>0, <2>1 DEF Moving, Settled, Absent, Truthful, Entry
  <2> QED BY <2>1, <2>2 DEF Moving
<1>5. CASE OpenFails(m)
  BY <1>5, <1>n DEF OpenFails
<1>6. CASE S3Delete(m)
  <2>1. cloud' = [cloud EXCEPT ![k] = None] /\ pc'[m] = "unlink_meta" /\ cur' = cur
    BY <1>0, <1>6, <1>n DEF S3Delete, Goto, Formed, TypeOK
  <2>2. cloud'[k] = None
    BY <1>0, <1>b, <2>1 DEF Formed, TypeOK
  <2> QED BY <2>1, <2>2 DEF Moving, CurKey
<1>7. CASE S3Put(m)
  <2>1. pc[m] = "put" /\ pc'[m] = "write_meta" /\ cur' = cur
    BY <1>0, <1>7 DEF S3Put, At, Goto, Formed, TypeOK
  <2>2. Uploaded(m) = fh[m][h].file /\ Uploaded(m) # None
    BY <1>7, PutSends DEF S3Put
  <2>3. cloud'[k] = fh[m][h].file
    BY <1>0, <1>b, <1>7, <1>n, <2>2 DEF S3Put, Formed, TypeOK
  <2> QED BY <1>0, <2>1, <2>2, <2>3 DEF Moving, CurKey
<1>8. CASE WriteMeta(m)
  <2>1. /\ meta' = [meta EXCEPT ![m][k] = cur[m].stat] /\ UNCHANGED cloud
        /\ pc[m] = "write_meta" /\ pc'[m] = "unlink_tmp" /\ cur' = cur
    BY <1>0, <1>8, <1>n DEF WriteMeta, At, Goto, Formed, TypeOK
  <2>2. meta'[m][k] = cur[m].stat
    BY <1>0, <1>b, <2>1 DEF Formed, TypeOK
  <2>3. Truthful(m, k)'
    BY <1>0, <2>1, <2>2 DEF Moving, Truthful, CurKey
  <2> QED BY <2>1, <2>3 DEF Moving, CurKey
<1>9. CASE UnlinkTmp(m)
  <2>1. /\ UNCHANGED <<meta, cloud>>
        /\ pc[m] = "unlink_tmp" /\ pc'[m] = "symlink" /\ cur' = cur
    BY <1>0, <1>9 DEF UnlinkTmp, At, Goto, Formed, TypeOK
  <2>2. Truthful(m, k)'
    BY <1>0, <2>1 DEF Moving, Truthful, CurKey
  <2> QED BY <2>1, <2>2 DEF Moving, CurKey
<1>10. CASE Symlink(m)
  <2>1. /\ UNCHANGED <<meta, cloud>> /\ Entry(m, p)' = Link
        /\ pc[m] = "symlink" /\ pc'[m] = "unlock" /\ cur' = cur
    BY <1>0, <1>b, <1>10 DEF Symlink, At, Goto, SetEntry, Entry, Formed, TypeOK
  <2>2. Truthful(m, k)'
    BY <1>0, <2>1 DEF Moving, Truthful, CurKey
  <2> QED BY <2>1, <2>2 DEF Moving, CurKey
<1>11. CASE UnlinkMeta(m)
  <2>1. /\ meta'[m][k] = None /\ UNCHANGED <<ssd, cloud>>
        /\ pc[m] = "unlink_meta" /\ cur' = cur
        /\ pc'[m] = IF h = None THEN "unlink_entry" ELSE "unlock"
    BY <1>0, <1>b, <1>11 DEF UnlinkMeta, At, Goto, Formed, TypeOK
  <2>2. Absent(m, k)'
    BY <1>0, <2>1 DEF Moving, Absent, CurKey
  <2>3. h # None => Entry(m, p)' = h
    <3>1. h # None => h \in Handles /\ fh[m][h] # None /\ fh[m][h].path = p
      BY <1>0, <1>b, <2>1 DEF HandlerMatches, At, Done
    <3> QED BY <1>0, <2>1, <3>1 DEF FilesNamed, Entry
  <2> QED BY <2>1, <2>2, <2>3 DEF Moving, CurKey
<1>12. CASE Unlock(m)
  <2>1. /\ UNCHANGED <<meta, cloud>> /\ pc[m] = "unlock"
    BY <1>12 DEF Unlock, At
  <2>2. PICK hs \in SUBSET Handles :
          /\ hs = IF Crash(m) THEN Handles ELSE {h}
          /\ pc'[m] = "idle"
          /\ \A q \in Paths :
               Entry(m, q)' = IF Entry(m, q) \in hs THEN fh[m][Entry(m, q)].file ELSE Entry(m, q)
    BY <1>0, <1>12, ClosedMakes
  <2>3. hs = {h} /\ h \in Handles
    BY <1>n, <2>2 DEF Crash
  <2>4. fh[m][h] # None
    BY <1>0, <2>1, <2>3, DistinctAssumption DEF HandlerMatches, At, Done
  <2>5. fh[m][h].file \in Contents
    BY <1>0, <2>3, <2>4 DEF Formed, TypeOK, FileHandlers
  <2>6. Settled(m, p)'
    <3>1. CASE Entry(m, p) = Link /\ Truthful(m, k)
      <4>1. Entry(m, p)' = Link /\ Link \notin Handles
        BY <1>b, <2>2, <2>3, <3>1, DistinctAssumption
      <4>2. Truthful(m, Key[p])'
        BY <2>1, <3>1 DEF Truthful, CurKey
      <4> QED BY <4>1, <4>2 DEF Settled
    <3>2. CASE Entry(m, p) = h /\ Absent(m, k)
      <4>1. Entry(m, p)' = fh[m][h].file
        BY <1>b, <2>2, <2>3, <3>2
      <4>2. Entry(m, p)' \notin Handles \cup {Link}
        BY <2>5, <4>1, DistinctAssumption
      <4>3. Absent(m, Key[p])'
        BY <2>1, <3>2 DEF Absent, CurKey
      <4> QED BY <4>2, <4>3 DEF Settled
    <3> QED BY <1>0, <2>1, <3>1, <3>2 DEF Moving
  <2> QED BY <2>2, <2>6 DEF Moving
<1>13. CASE UnlinkEntry(m)
  <2>1. /\ UNCHANGED <<meta, cloud>> /\ Entry(m, p)' = None
        /\ pc[m] = "unlink_entry" /\ pc'[m] = "idle"
    BY <1>0, <1>b, <1>13 DEF UnlinkEntry, At, Return, SetEntry, Entry, Formed, TypeOK
  <2>2. Absent(m, Key[p])'
    BY <1>0, <2>1 DEF Moving, Absent, CurKey
  <2>3. None \notin Handles \cup {Link}
    BY DistinctAssumption
  <2>4. Settled(m, p)'
    BY <2>1, <2>2, <2>3 DEF Settled
  <2> QED BY <2>1, <2>4 DEF Moving
<1> QED BY <1>1, <1>2, <1>3, <1>4, <1>5, <1>6, <1>7, <1>8, <1>9, <1>10, <1>11, <1>12, <1>13
        DEF HandlerStep

LEMMA SettledStep ==
  ASSUME Alone
  PROVE  Sound /\ OpenOnce /\ (\A m \in Machines : NamesSettled(m)) /\ [Next]_vars
           => (\A m \in Machines : NamesSettled(m))'
<1> SUFFICES ASSUME Sound, OpenOnce, \A m \in Machines : NamesSettled(m), [Next]_vars,
                    NEW m \in Machines
             PROVE  NamesSettled(m)'
  OBVIOUS
<1>1. CASE UNCHANGED vars
  BY <1>1 DEF vars, NamesSettled, Moving, Settled, Absent, Truthful, Entry, CurKey
<1>2. CASE MachineStep(m)
  <2>1. CASE HandlerStep(m)
    <3>1. PICK p : p = cur[m].path
      OBVIOUS
    <3>2. Moving(m)' /\ (pc'[m] = "idle" => Settled(m, p)')
      BY <2>1, <3>1, MovingHandler
    <3>3. pc'[m] = "idle" \/ cur'[m].path = p
      BY <2>1, <3>1
      DEF HandlerStep, LockGranted, LockGivenUp, OpenUnlinks, OpenFetches, OpenReturns, OpenFails,
          S3Delete, UnlinkMeta, S3Put, WriteMeta, UnlinkTmp, Symlink, Unlock, UnlinkEntry, Goto,
          Return, Sound, Formed, TypeOK
    <3>4. ASSUME NEW q \in Paths, q # p
          PROVE  Settled(m, q)'
      BY <2>1, <3>1, <3>4, HandlerKeeps, KeepsSettled DEF NamesSettled
    <3> QED BY <3>2, <3>3, <3>4 DEF NamesSettled
  <2>2. ~Crash(m)
    BY DEF Crash, Fault, Alone
  <2> QED BY <1>2, <2>1, <2>2, SettledApplication DEF MachineStep
<1> QED BY <1>1, <1>2, NextIsMachines DEF Alone

LEMMA AlwaysSettled ==
  ASSUME Alone PROVE Spec => [](\A m \in Machines : NamesSettled(m))
<1>1. Init => \A m \in Machines : NamesSettled(m)
  <2> SUFFICES ASSUME Init, NEW m \in Machines PROVE NamesSettled(m)
    OBVIOUS
  <2>1. pc[m] = "idle"
    BY DEF Init
  <2>2. ASSUME NEW p \in Paths
        PROVE  Settled(m, p)
    <3>1. Entry(m, p) = None /\ Absent(m, Key[p])
      BY KeyType DEF Init, Entry, Absent
    <3> QED BY <3>1, DistinctAssumption DEF Settled
  <2> QED BY <2>1, <2>2 DEF NamesSettled, Moving
<1> QED BY <1>1, SettledStep, AlwaysSound, AlwaysOnce, PTL DEF Spec, Alone

\* ls is right without the cloud, for any number of names and handles, any threshold
\* and whether or not locks are given up: the metadata behind the link of a closed file
\* describes the object an open would fetch (write_meta against s3_cloudfs_put).
THEOREM LinksTellTheTruth ==
  ASSUME Alone PROVE Spec => []GetattrTruthful
<1>1. (\A m \in Machines : NamesSettled(m)) => GetattrTruthful
  BY DEF NamesSettled, Settled, Truthful, FileStat, GetattrTruthful, ClosedOn, At
<1> QED BY <1>1, AlwaysSettled, PTL

\* Keys that no name has are never used.
KeysUsed == \A k \in Keys : (\A p \in Paths : Key[p] # k) =>
              cloud[k] = None /\ \A m \in Machines : meta[m][k] = None

LEMMA KeysUsedStep == ASSUME ~MayTruncate PROVE Formed /\ KeysUsed /\ [Next]_vars => KeysUsed'
<1> SUFFICES ASSUME ~MayTruncate, Formed, KeysUsed, [Next]_vars, NEW k \in Keys,
                    \A p \in Paths : Key[p] # k
             PROVE  cloud'[k] = cloud[k] /\ \A l \in Machines : meta'[l][k] = meta[l][k]
  BY DEF KeysUsed
<1>1. CASE UNCHANGED vars
  BY <1>1 DEF vars
<1>2. ASSUME NEW m \in Machines, MachineStep(m)
      PROVE  cloud'[k] = cloud[k] /\ \A l \in Machines : meta'[l][k] = meta[l][k]
  <2>1. CASE HandlerStep(m)
    <3>1. pc[m] # "idle"
      BY <2>1 DEF HandlerStep, LockGranted, LockGivenUp, OpenUnlinks, OpenFetches, OpenReturns,
             OpenFails, S3Delete, UnlinkMeta, S3Put, WriteMeta, UnlinkTmp, Symlink, Unlock,
             UnlinkEntry, At
    <3>2. CurKey(m) # k /\ CurKey(m) \in Keys
      BY <3>1, RunningType DEF At, CurKey
    <3>3. CASE S3Delete(m) \/ S3Put(m)
      BY <3>2, <3>3 DEF S3Delete, S3Put, Formed, TypeOK
    <3>4. CASE UnlinkMeta(m) \/ WriteMeta(m)
      <4>1. PICK st : meta' = [meta EXCEPT ![m][CurKey(m)] = st]
        BY <3>4 DEF UnlinkMeta, WriteMeta
      <4>2. \A l \in Machines : meta'[l][k] = meta[l][k]
        BY <3>2, <4>1 DEF Formed, TypeOK
      <4>3. UNCHANGED cloud
        BY <3>4 DEF UnlinkMeta, WriteMeta
      <4> QED BY <4>2, <4>3
    <3>5. CASE ~S3Delete(m) /\ ~S3Put(m) /\ ~UnlinkMeta(m) /\ ~WriteMeta(m)
      BY <2>1, <3>5 DEF HandlerStep, LockGranted, LockGivenUp, OpenUnlinks, OpenFetches,
             OpenReturns, OpenFails, UnlinkTmp, Symlink, Unlock, UnlinkEntry
    <3> QED BY <3>3, <3>4, <3>5
  <2>2. CASE ~HandlerStep(m)
    BY <1>2, <2>2 DEF MachineStep, Mknod, Unlink, Truncate, Open, Release, Write, Crash
  <2> QED BY <2>1, <2>2
<1> QED BY <1>1, <1>2, NextIsMachines

\* What rm has to find to clean up, with the same generality: when no handler runs,
\* exactly the keys with an object have metadata, and metadata belongs to a name that
\* still exists (cloudfs_release and cloudfs_unlink, each in the order of its calls).
THEOREM MetadataAndObjectsAgree ==
  ASSUME Alone PROVE Spec => []MetadataMatchesCloud
<1>1. Init => KeysUsed
  BY DEF Init, KeysUsed
<1>2. Formed /\ KeysUsed /\ (\A m \in Machines : NamesSettled(m)) => MetadataMatchesCloud
  <2> SUFFICES ASSUME Formed, KeysUsed, Quiet, NEW m \in Machines, NamesSettled(m), NEW k \in Keys
               PROVE  /\ (cloud[k] # None) = (meta[m][k] # None)
                      /\ meta[m][k] # None => \E p \in Paths : Key[p] = k /\ Entry(m, p) # None
    BY DEF MetadataMatchesCloud
  <2>1. CASE \A p \in Paths : Key[p] # k
    BY <2>1 DEF KeysUsed
  <2>2. ASSUME NEW p \in Paths, Key[p] = k
        PROVE  /\ (cloud[k] # None) = (meta[m][k] # None)
               /\ meta[m][k] # None => Entry(m, p) # None
    <3>1. Settled(m, p)
      BY DEF Quiet, At, NamesSettled
    <3>2. Truthful(m, k) => meta[m][k] # None
      <4>1. ASSUME cloud[k] # None
            PROVE  FileStat(Len(cloud[k])) # None
        <5>1. cloud[k] \in Contents
          BY <4>1 DEF Formed, TypeOK
        <5>2. FileStat(Len(cloud[k])) \in Stats
          BY <5>1 DEF FileStat, Stats, Contents
        <5> QED BY <5>2, DistinctAssumption
      <4> QED BY <4>1 DEF Truthful
    <3>3. (cloud[k] # None) = (meta[m][k] # None)
      BY <2>2, <3>1, <3>2 DEF Settled, Absent, Truthful
    <3>4. Entry(m, p) = None => meta[m][k] = None
      BY <2>2, <3>1, DistinctAssumption DEF Settled, Absent
    <3> QED BY <3>3, <3>4
  <2> QED BY <2>1, <2>2
<1> QED BY <1>1, <1>2, KeysUsedStep, AlwaysSettled, AlwaysFormed, PTL DEF Spec, Alone

\* While cloudfs_open runs, the object is what getattr took for the file.
Delivers(m) ==
  /\ pc[m] \in Opening => cur[m].stat = FileStat(Len(StoreSeen[CurKey(m)]))
  /\ pc[m] = "open" => cur[m].stat = FileStat(Len(fh[m][cur[m].handle].file))

LEMMA DeliversStep ==
  ASSUME Alone, Threshold = 0, Sound, OpenOnce, NEW m \in Machines, NamesSettled(m),
         FilesSmall(m), Delivers(m), MachineStep(m)
  PROVE  Delivers(m)'
<1>0. Formed /\ HandlerMatches(m) /\ NamesMatch(m)
  BY DEF Sound, HandlesMatch
<1>n. \A kind : ~Fault(kind)
  BY DEF Fault, Alone
<1>1. ASSUME NEW p \in Paths, NEW h \in Handles, NEW flags \in LT!LockTypes, Open(m, h, p, flags)
      PROVE  Delivers(m)'
  <2>1. /\ pc[m] = "idle" /\ UNCHANGED cloud /\ OpenOn(m, p) = {}
        /\ pc'[m] = "acquire" /\ cur'[m].path = p /\ cur'[m].stat = Getattr(m, p)
    BY <1>0, <1>1 DEF Open, At, Enter, Formed, TypeOK, Alone
  <2>2. Getattr(m, p) = FileStat(Len(StoreSeen[Key[p]]))
    <3>1. Settled(m, p) /\ Key[p] \in Keys
      BY <2>1, KeyType DEF NamesSettled
    <3>2. CASE Entry(m, p) = Link
      BY <3>1, <3>2 DEF Getattr, Settled, Truthful, StoreSeen
    <3>3. CASE Entry(m, p) # Link
      <4>1. Entry(m, p) \notin Handles
        BY <1>0, <2>1, DistinctAssumption DEF NamesMatch, OpenOn, Formed, HandlesAreLive, Entry
      <4>2. Entry(m, p) # None
        BY <1>1, <3>3, DistinctAssumption DEF Open, IsFile, Getattr, Lstat, Stats
      <4>3. Entry(m, p) \in Contents
        BY <1>0, <3>3, <4>1, <4>2 DEF Formed, TypeOK, Entry, Entries
      <4>4. Len(Entry(m, p)) = 0
        BY <4>3 DEF FilesSmall, Contents
      <4>5. StoreSeen[Key[p]] = <<>>
        BY <3>1, <3>3, <4>1 DEF Settled, Absent, StoreSeen
      <4>6. Getattr(m, p) = FileStat(Len(Entry(m, p)))
        BY <3>3, <4>1, <4>2 DEF Getattr, Lstat, File, FileStat
      <4> QED BY <4>4, <4>5, <4>6
    <3> QED BY <3>2, <3>3
  <2> QED BY <2>1, <2>2 DEF Delivers, CurKey, StoreSeen
<1>2. ASSUME NEW p \in Paths,
             \/ Mknod(m, p) \/ Unlink(m, p)
             \/ \E n \in 0..MaxLen : Truncate(m, p, n)
      PROVE  Delivers(m)'
  <2>1. pc'[m] \in {"idle", "s3_delete", "unlink_entry"}
    BY <1>0, <1>2 DEF Mknod, Unlink, Truncate, At, Enter, Formed, TypeOK
  <2> QED BY <2>1 DEF Delivers, Opening
<1>3. ASSUME NEW h \in Handles,
             \/ Release(m, h)
             \/ \E offset \in 0..(MaxLen - 1), b \in Blocks : Write(m, h, offset, b)
      PROVE  Delivers(m)'
  <2>1. pc'[m] \in {"put", "s3_delete", "unlink_tmp", "unlock", "idle"}
    BY <1>0, <1>3, ReleaseMakes DEF Write, At, Formed, TypeOK
  <2> QED BY <2>1 DEF Delivers, Opening
<1>4. CASE LockGranted(m) \/ LockGivenUp(m) \/ OpenUnlinks(m)
  <2>1. UNCHANGED <<cloud, cur>> /\ pc[m] \in Opening /\ pc'[m] \in {"unlink", "get"}
    BY <1>0, <1>4 DEF LockGranted, LockGivenUp, OpenUnlinks, At, Goto, Opening, Formed, TypeOK
  <2> QED BY <2>1 DEF Delivers, Opening, CurKey, StoreSeen
<1>5. CASE OpenFetches(m)
  <2> PICK h, k : h = cur[m].handle /\ k = CurKey(m)
    OBVIOUS
  <2>1. /\ k \in Keys /\ cur' = cur /\ pc[m] = "get" /\ pc'[m] = "open"
        /\ fh'[m][h].file = IF cloud[k] = None THEN <<>> ELSE cloud[k]
    BY <1>0, <1>5, <1>n, FetchedMakes
  <2>2. fh'[m][h].file = StoreSeen[k]
    BY <2>1 DEF StoreSeen
  <2> QED BY <2>1, <2>2 DEF Delivers, Opening
<1>6. CASE HandlerStep(m) /\ ~(LockGranted(m) \/ LockGivenUp(m) \/ OpenUnlinks(m) \/ OpenFetches(m))
  <2>1. pc'[m] \notin Opening \cup {"open"}
    BY <1>0, <1>6
    DEF HandlerStep, OpenReturns, OpenFails, S3Delete, UnlinkMeta, S3Put, WriteMeta, UnlinkTmp,
        Symlink, Unlock, UnlinkEntry, Goto, Return, Opening, Formed, TypeOK
  <2> QED BY <2>1 DEF Delivers
<1>7. ~Crash(m)
  BY <1>n DEF Crash
<1> QED BY <1>1, <1>2, <1>3, <1>4, <1>5, <1>6, <1>7 DEF MachineStep

\* An open delivers a file of the size that getattr gave for the name, be it a proxy or
\* a file kept on the SSD, with threshold 0 and any number of names and handles: unlinking
\* the name, fetching into a new file and falling back to it on a miss lose nothing.
THEOREM OpensDeliver ==
  ASSUME Alone, Threshold = 0 PROVE Spec => []OpenDeliversFile
<1> DEFINE Names == \A m \in Machines : NamesSettled(m)
           Small == \A m \in Machines : FilesSmall(m)
           Deliver == \A m \in Machines : Delivers(m)
<1>0. Undisturbed /\ ~Shared
  BY DEF Undisturbed, Alone
<1>1. Init => Small /\ Deliver
  BY DistinctAssumption DEF Init, FilesSmall, Entry, Delivers, Opening
<1>2. Sound /\ OpenOnce /\ Names /\ Small /\ Deliver /\ [Next]_vars => Deliver'
  <2> SUFFICES ASSUME Sound, OpenOnce, Names, Small, Deliver, [Next]_vars, NEW m \in Machines
               PROVE  Delivers(m)'
    OBVIOUS
  <2>1. CASE UNCHANGED vars
    BY <2>1 DEF vars, Delivers, CurKey, StoreSeen
  <2>2. CASE MachineStep(m)
    BY <2>2, DeliversStep
  <2> QED BY <2>1, <2>2, NextIsMachines DEF Alone
<1>3. Sound /\ Small /\ [Next]_vars => Small'
  BY <1>0, SmallStep
<1>4. Formed /\ Deliver => OpenDeliversFile
  <2>1. \A n : FileStat(n).size = n
    BY DEF FileStat
  <2> QED BY <2>1 DEF OpenDeliversFile, Delivers, At
<1>5. Sound => Formed
  BY DEF Sound
<1> HIDE DEF Names, Small, Deliver
<1>6. Spec => []Names
  BY AlwaysSettled DEF Names
<1> QED BY <1>0, <1>1, <1>2, <1>3, <1>4, <1>5, <1>6, AlwaysSound, AlwaysOnce, PTL DEF Spec
=============================================================================
