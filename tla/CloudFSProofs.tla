--------------------------- MODULE CloudFSProofs ----------------------------
(***************************************************************************)
(* Type correctness of the data path and, from it, that only files above    *)
(* the threshold are ever in the cloud: for any machines, paths, keys,      *)
(* handles and threshold, and whatever goes wrong.                          *)
(***************************************************************************)
EXTENDS CloudFS, TLAPS

(***************************************************************************)
(* The invariant.                                                           *)
(***************************************************************************)

\* A name leads to a file that a handler has: closing a handle, by a release, a
\* failed open or a restart, leaves no name behind that still refers to it.
HandlesAreLive ==
  \A m \in Machines, p \in Paths :
    Entry(m, p) \in Handles => fh[m][Entry(m, p)] \in FileHandlers

\* A handler that runs has its arguments.
HandlersHaveCalls == \A m \in Machines : ~At(m, "idle") => cur[m] \in Calls

Formed == TypeOK /\ HandlesAreLive /\ HandlersHaveCalls

\* From the lstat of cloudfs_release until its s3_cloudfs_put nothing on the
\* machine changes the file: what is uploaded has the size that was read.
UploadsAreBig ==
  \A m \in Machines :
    At(m, "put") => Uploaded(m) = None \/ Len(Uploaded(m)) > Threshold

(***************************************************************************)
(* Files.                                                                   *)
(***************************************************************************)
LEMMA ResizedType ==
  ASSUME NEW c \in Contents, NEW n \in Nat
  PROVE  Resized(c, n) \in Contents /\ Len(Resized(c, n)) = n
<1>1. \A i \in 1..n : (IF i <= Len(c) THEN c[i] ELSE Zero) \in Data
  BY DEF Contents, Data
<1> QED BY <1>1 DEF Resized, Contents

LEMMA WrittenType ==
  ASSUME NEW c \in Contents, NEW offset \in Nat, NEW b \in Data
  PROVE  Written(c, offset, b) \in Contents
<1> DEFINE n == IF offset < Len(c) THEN Len(c) ELSE offset + 1
<1>1. n \in Nat /\ offset + 1 \in 1..n
  BY DEF Contents
<1>2. Resized(c, n) \in Contents /\ Len(Resized(c, n)) = n
  BY <1>1, ResizedType
<1> QED BY <1>1, <1>2 DEF Written, Contents

\* What is stored under a name that is neither absent nor a link (File).
LEMMA FileType ==
  ASSUME TypeOK, HandlesAreLive, NEW m \in Machines, NEW p \in Paths,
         Entry(m, p) \notin {None, Link}
  PROVE  File(m, p) \in Contents
BY DEF TypeOK, HandlesAreLive, Entry, Entries, File, FileHandlers

LEMMA LstatType ==
  ASSUME TypeOK, HandlesAreLive, NEW m \in Machines, NEW p \in Paths
  PROVE  Lstat(m, p) \in Stats \cup {None}
BY FileType DEF Lstat, Stats, Contents

\* A name whose handle is gone has the file, the others what they had (Closed).
LEMMA ClosedType ==
  ASSUME TypeOK, HandlesAreLive, NEW m \in Machines, NEW hs \in SUBSET (Handles \cup {None})
  PROVE  /\ Closed(m, hs) \in [Paths -> Entries]
         /\ \A p \in Paths :
              Closed(m, hs)[p] \in Handles =>
                /\ Closed(m, hs)[p] \notin hs
                /\ fh[m][Closed(m, hs)[p]] \in FileHandlers
<1> SUFFICES ASSUME NEW p \in Paths
             PROVE  /\ Closed(m, hs)[p] \in Entries
                    /\ Closed(m, hs)[p] \in Handles =>
                         /\ Closed(m, hs)[p] \notin hs
                         /\ fh[m][Closed(m, hs)[p]] \in FileHandlers
  BY DEF Closed
<1>1. Entry(m, p) \in Entries
  BY DEF TypeOK, Entry
<1>2. CASE Entry(m, p) \in Handles
  <2>1. File(m, p) \in Contents /\ File(m, p) \notin Handles
    BY <1>2, FileType, DistinctAssumption
  <2> QED BY <1>1, <1>2, <2>1 DEF Closed, Entries, HandlesAreLive
<1>3. CASE Entry(m, p) \notin Handles
  BY <1>1, <1>3 DEF Closed, File
<1> QED BY <1>2, <1>3

LEMMA KeyType == ASSUME NEW p \in Paths PROVE Key[p] \in Keys
BY CloudFSAssumption

(***************************************************************************)
(* The entries of the lock server.                                          *)
(***************************************************************************)
LEMMA AcquiredType ==
  ASSUME NEW item \in LT!LockItems(Machines), NEW m \in Machines, NEW op \in LT!LockTypes
  PROVE  LT!Acquired(item, m, op) \in LT!LockItems(Machines)
BY DEF LT!Acquired, LT!LockItems, LT!AlreadyGranted

LEMMA ReleasedType ==
  ASSUME NEW item \in LT!LockItems(Machines), NEW m \in Machines
  PROVE  LT!Released(item, m) \in LT!LockItems(Machines)
<1> DEFINE left == [item EXCEPT !.i = IF FALSE THEN @ ELSE @ - 1, !.owners = @ \ {m}]
<1>1. CASE ~LT!Releasable(item, m)
  BY <1>1 DEF LT!Released
<1>2. CASE LT!Releasable(item, m)
  <2>1. left \in LT!LockItems(Machines)
    <3>1. item.i \in Nat /\ item.i > 0 /\ item.owners \ {m} \subseteq Machines
      BY <1>2 DEF LT!Releasable, LT!LockItems
    <3>2. (IF FALSE THEN item.i ELSE item.i - 1) \in Nat
      BY <3>1
    <3> QED BY <3>1, <3>2 DEF LT!LockItems
  <2>2. LT!Unlocked \in LT!LockItems(Machines)
    BY DEF LT!Unlocked, LT!LockItems
  <2> QED BY <1>2, <2>1, <2>2 DEF LT!Released
<1> QED BY <1>1, <1>2

(***************************************************************************)
(* Type correctness.                                                        *)
(***************************************************************************)
LEMMA InitFormed == Init => Formed
<1> SUFFICES ASSUME Init PROVE Formed
  OBVIOUS
<1>1. LT!Unlocked \in LT!LockItems(Machines)
  BY DEF LT!Unlocked, LT!LockItems
<1>2. TypeOK
  BY <1>1 DEF Init, TypeOK, Entries, Labels
<1>3. HandlesAreLive
  BY DistinctAssumption DEF Init, HandlesAreLive, Entry
<1>4. HandlersHaveCalls
  BY DEF Init, HandlersHaveCalls, At
<1> QED BY <1>2, <1>3, <1>4 DEF Formed

\* What a handler that runs may rely on.
LEMMA RunningType ==
  ASSUME Formed, NEW m \in Machines, ~At(m, "idle")
  PROVE  /\ cur[m] \in Calls
         /\ cur[m].path \in Paths /\ CurKey(m) \in Keys
         /\ cur[m].flags \in LT!LockTypes
         /\ cur[m].handle \in Handles \cup {None}
         /\ cur[m].stat \in Stats \cup {None}
BY KeyType DEF Formed, HandlersHaveCalls, Calls, CurKey

\* A handler moves on with the arguments it has (Goto).
LEMMA GotoFormed ==
  ASSUME Formed, NEW m \in Machines, ~At(m, "idle"), NEW label \in Labels, Goto(m, label)
  PROVE  /\ pc' \in [Machines -> Labels]
         /\ cur' \in [Machines -> Calls \cup {None}]
         /\ HandlersHaveCalls'
BY DEF Formed, TypeOK, HandlersHaveCalls, At, Goto

\* What goes wrong is counted.
LEMMA FaultsType ==
  ASSUME Formed, NoFault \/ \E kind \in FaultKinds : Fault(kind)
  PROVE  faults' \in Nat
<1>1. faults \in Nat
  BY DEF Formed, TypeOK
<1> QED BY <1>1 DEF NoFault, Fault

\* A handler starts (Enter).
LEMMA EnterFormed ==
  ASSUME Formed, NEW m \in Machines, NEW label \in Labels, NEW call \in Calls,
         Enter(m, label, call)
  PROVE  /\ pc' \in [Machines -> Labels]
         /\ cur' \in [Machines -> Calls \cup {None}]
         /\ HandlersHaveCalls'
BY DEF Formed, TypeOK, HandlersHaveCalls, At, Enter

\* A handler returns (Return).
LEMMA ReturnFormed ==
  ASSUME Formed, NEW m \in Machines, Return(m)
  PROVE  /\ pc' \in [Machines -> Labels]
         /\ cur' \in [Machines -> Calls \cup {None}]
         /\ HandlersHaveCalls'
BY DEF Formed, TypeOK, HandlersHaveCalls, At, Return, Labels

\* A name gets an entry that does not refer to a handle (SetEntry).
LEMMA SetEntryFormed ==
  ASSUME Formed, NEW m \in Machines, NEW p, NEW e \in Contents \cup {None, Link},
         SetEntry(m, p, e), UNCHANGED fh
  PROVE  ssd' \in [Machines -> [Paths -> Entries]] /\ HandlesAreLive'
BY DistinctAssumption DEF Formed, TypeOK, HandlesAreLive, Entry, Entries, SetEntry

\* Handles are closed and the names they had keep the files (Closed).
LEMMA ClosedFormed ==
  ASSUME Formed, NEW m \in Machines, NEW hs \in SUBSET (Handles \cup {None}),
         ssd' = [ssd EXCEPT ![m] = Closed(m, hs)],
         fh' \in [Machines -> [Handles -> FileHandlers \cup {None}]],
         \A n \in Machines, h \in Handles : n # m \/ h \notin hs => fh'[n][h] = fh[n][h]
  PROVE  ssd' \in [Machines -> [Paths -> Entries]] /\ HandlesAreLive'
<1>1. /\ Closed(m, hs) \in [Paths -> Entries]
      /\ \A p \in Paths :
           Closed(m, hs)[p] \in Handles =>
             /\ Closed(m, hs)[p] \notin hs
             /\ fh[m][Closed(m, hs)[p]] \in FileHandlers
  BY ClosedType DEF Formed
<1> QED BY <1>1 DEF Formed, TypeOK, HandlesAreLive, Entry

\* Every file_handler that was there still is, and names do not change.
LEMMA HandlersKept ==
  ASSUME Formed, UNCHANGED ssd,
         \A m \in Machines, h \in Handles :
           fh[m][h] \in FileHandlers => fh'[m][h] \in FileHandlers
  PROVE  HandlesAreLive'
BY DEF Formed, HandlesAreLive, Entry

\* The edits of a session are published (Published).
LEMMA PublishedFormed ==
  ASSUME Formed, NEW m \in Machines, ~At(m, "idle"), fh' = Published(m) \/ UNCHANGED fh,
         UNCHANGED ssd
  PROVE  fh' \in [Machines -> [Handles -> FileHandlers \cup {None}]] /\ HandlesAreLive'
<1>1. CASE UNCHANGED fh
  BY <1>1 DEF Formed, TypeOK, HandlesAreLive, Entry
<1>2. ASSUME NEW h \in Handles, fh[m][h] \in FileHandlers,
             fh' = [fh EXCEPT ![m][h].changed = FALSE]
      PROVE  fh' \in [Machines -> [Handles -> FileHandlers \cup {None}]] /\ HandlesAreLive'
  <2>1. /\ fh' \in [Machines -> [Handles -> FileHandlers \cup {None}]]
        /\ \A l \in Machines, g \in Handles :
             fh[l][g] \in FileHandlers => fh'[l][g] \in FileHandlers
    BY <1>2 DEF Formed, TypeOK, FileHandlers
  <2> QED BY <2>1, HandlersKept
<1>3. CASE fh' = Published(m) /\ fh' # fh
  <2> PICK h : h = cur[m].handle
    OBVIOUS
  <2>1. /\ h # None /\ Entry(m, cur[m].path) = h
        /\ fh' = [fh EXCEPT ![m][h].changed = FALSE]
    BY <1>3 DEF Published
  <2>2. h \in Handles /\ cur[m].path \in Paths
    BY <2>1, RunningType
  <2>3. fh[m][h] \in FileHandlers
    BY <2>1, <2>2 DEF Formed, HandlesAreLive
  <2> QED BY <1>2, <2>1, <2>2, <2>3
<1> QED BY <1>1, <1>3

\* What s3_cloudfs_put sends is a file, one block of metadata, or nothing.
LEMMA UploadedType ==
  ASSUME Formed, NEW m \in Machines, ~At(m, "idle")
  PROVE  Uploaded(m) \in Contents \cup {None}
<1> DEFINE p == cur[m].path
<1>1. p \in Paths
  BY RunningType
<1>2. <<StatBlock>> \in Contents
  BY DEF Contents, Data
<1>3. Entry(m, p) \notin {None, Link} => File(m, p) \in Contents
  BY <1>1, FileType DEF Formed
<1> QED BY <1>2, <1>3 DEF Uploaded

\* Applications: mknod, truncate, open, write, close and rm.
LEMMA ApplicationStep ==
  ASSUME Formed, NEW m \in Machines
  PROVE  /\ \A p \in Paths :
              /\ Mknod(m, p) => Formed'
              /\ \A n \in 0..MaxLen : Truncate(m, p, n) => Formed'
              /\ \A h \in Handles, flags \in LT!LockTypes : Open(m, h, p, flags) => Formed'
              /\ Unlink(m, p) => Formed'
         /\ \A h \in Handles :
              /\ \A offset \in 0..(MaxLen - 1), b \in Blocks : Write(m, h, offset, b) => Formed'
              /\ Release(m, h) => Formed'
<1> USE CloudFSAssumption
<1>1. ASSUME NEW p \in Paths, Mknod(m, p)
      PROVE  Formed'
  <2>1. <<>> \in Contents
    BY DEF Contents
  <2>2. ssd' \in [Machines -> [Paths -> Entries]] /\ HandlesAreLive'
    BY <1>1, <2>1, SetEntryFormed DEF Mknod
  <2> QED BY <1>1, <2>2 DEF Mknod, Formed, TypeOK, HandlersHaveCalls, At
<1>2. ASSUME NEW p \in Paths, NEW n \in 0..MaxLen, Truncate(m, p, n)
      PROVE  Formed'
  <2>1. UNCHANGED <<cloud, pc, cur, skip, locks, faults>>
    BY <1>2 DEF Truncate
  <2>2. CASE TruncateFile(m, p, n)
    <3>1. Entry(m, p) # None /\ Entry(m, p) # Link
      BY <1>2, <2>2, DistinctAssumption
      DEF Truncate, TruncateFile, IsFile, Getattr, Lstat, Stats
    <3>2. CASE Entry(m, p) \in Handles
      <4> PICK h \in Handles : h = Entry(m, p)
        BY <3>2
      <4>1. fh[m][h] \in FileHandlers
        BY DEF Formed, HandlesAreLive
      <4>2. Resized(fh[m][h].file, n) \in Contents
        BY <4>1, ResizedType DEF FileHandlers
      <4>3. /\ UNCHANGED ssd /\ UNCHANGED meta
            /\ fh' = [fh EXCEPT ![m][h].file = Resized(@, n), ![m][h].changed = TRUE]
        BY <2>2, <3>2 DEF TruncateFile
      <4>4. fh' \in [Machines -> [Handles -> FileHandlers \cup {None}]]
        BY <4>1, <4>2, <4>3 DEF Formed, TypeOK, FileHandlers
      <4>5. \A l \in Machines, g \in Handles :
              fh[l][g] \in FileHandlers => fh'[l][g] \in FileHandlers
        BY <4>1, <4>2, <4>3 DEF Formed, TypeOK, FileHandlers
      <4>6. HandlesAreLive'
        BY <4>3, <4>5, HandlersKept
      <4> QED BY <2>1, <4>3, <4>4, <4>6 DEF Formed, TypeOK, HandlersHaveCalls, At
    <3>3. CASE Entry(m, p) \notin Handles
      <4>1. Entry(m, p) \in Contents
        BY <3>1, <3>3 DEF Formed, TypeOK, Entry, Entries
      <4>2. Resized(Entry(m, p), n) \in Contents
        BY <4>1, ResizedType
      <4>3. SetEntry(m, p, Resized(Entry(m, p), n)) /\ UNCHANGED fh /\ UNCHANGED meta
        BY <2>2, <3>3 DEF TruncateFile
      <4>4. ssd' \in [Machines -> [Paths -> Entries]] /\ HandlesAreLive'
        BY <4>2, <4>3, SetEntryFormed
      <4> QED BY <2>1, <4>3, <4>4 DEF Formed, TypeOK, HandlersHaveCalls, At
    <3> QED BY <3>2, <3>3
  <2>3. CASE TruncateLink(m, p, n)
    BY <2>1, <2>3, KeyType
    DEF TruncateLink, Formed, TypeOK, HandlesAreLive, HandlersHaveCalls, At, Entry
  <2> QED BY <1>2, <2>2, <2>3 DEF Truncate
<1>3. ASSUME NEW p \in Paths, NEW h \in Handles, NEW flags \in LT!LockTypes,
             Open(m, h, p, flags)
      PROVE  Formed'
  <2> DEFINE call == [path |-> p, flags |-> flags, handle |-> h, stat |-> Getattr(m, p)]
  <2>1. Getattr(m, p) \in Stats
    BY <1>3 DEF Open, IsFile, Stats
  <2>2. call \in Calls /\ "acquire" \in Labels
    BY <2>1 DEF Calls, Labels
  <2>3. /\ pc' \in [Machines -> Labels]
        /\ cur' \in [Machines -> Calls \cup {None}]
        /\ HandlersHaveCalls'
    BY <1>3, <2>2, EnterFormed DEF Open
  <2> QED BY <1>3, <2>3 DEF Open, Formed, TypeOK, HandlesAreLive, Entry
<1>4. ASSUME NEW p \in Paths, Unlink(m, p)
      PROVE  Formed'
  <2> DEFINE call  == [path |-> p, flags |-> "WRITE", handle |-> None, stat |-> None]
             label == IF meta[m][Key[p]] # None THEN "s3_delete" ELSE "unlink_entry"
  <2>1. call \in Calls
    BY DEF Calls, LT!LockTypes
  <2>2. label \in Labels
    BY DEF Labels
  <2>3. Enter(m, label, call)
    BY <1>4 DEF Unlink
  <2> HIDE DEF call, label
  <2>4. /\ pc' \in [Machines -> Labels]
        /\ cur' \in [Machines -> Calls \cup {None}]
        /\ HandlersHaveCalls'
    BY <2>1, <2>2, <2>3, EnterFormed
  <2> QED BY <1>4, <2>4 DEF Unlink, Formed, TypeOK, HandlesAreLive, Entry
<1>5. ASSUME NEW h \in Handles, NEW offset \in 0..(MaxLen - 1), NEW b \in Blocks,
             Write(m, h, offset, b)
      PROVE  Formed'
  <2>1. fh[m][h] \in FileHandlers
    BY <1>5 DEF Write, Formed, TypeOK
  <2>2. Written(fh[m][h].file, offset, b) \in Contents
    BY <2>1, WrittenType DEF FileHandlers, Data
  <2> DEFINE new == [fh[m][h] EXCEPT !.file = Written(@, offset, b),
                                     !.dirty = @ \/ fh[m][h].proxy, !.changed = TRUE]
  <2>3. new \in FileHandlers
    BY <2>1, <2>2 DEF FileHandlers
  <2>4. fh' = [fh EXCEPT ![m][h] = new]
    BY <1>5 DEF Write
  <2> HIDE DEF new
  <2>5. fh' \in [Machines -> [Handles -> FileHandlers \cup {None}]]
    BY <2>3, <2>4 DEF Formed, TypeOK
  <2>6. \A l \in Machines, g \in Handles :
          fh[l][g] \in FileHandlers => fh'[l][g] \in FileHandlers
    BY <2>3, <2>4 DEF Formed, TypeOK
  <2>7. HandlesAreLive'
    BY <1>5, <2>6, HandlersKept DEF Write
  <2> QED BY <1>5, <2>5, <2>7 DEF Write, Formed, TypeOK, HandlersHaveCalls, At
<1>6. ASSUME NEW h \in Handles, Release(m, h)
      PROVE  Formed'
  <2> DEFINE f     == fh[m][h]
             st    == Lstat(m, f.path)
             call  == [path |-> f.path, flags |-> f.flags, handle |-> h, stat |-> st]
             label == ReleaseStep(f, st)
  <2>1. f \in FileHandlers
    BY <1>6 DEF Release, Formed, TypeOK
  <2>2. f.path \in Paths /\ f.flags \in LT!LockTypes /\ f.proxy \in BOOLEAN /\ f.dirty \in BOOLEAN
    BY <2>1 DEF FileHandlers
  <2>3. call \in Calls
    BY <2>2, LstatType DEF Formed, Calls
  <2>4. label \in Labels
    BY <2>2 DEF ReleaseStep, Labels
  <2>5. Enter(m, label, call)
    BY <1>6 DEF Release
  <2> HIDE DEF call, label
  <2>6. /\ pc' \in [Machines -> Labels]
        /\ cur' \in [Machines -> Calls \cup {None}]
        /\ HandlersHaveCalls'
    BY <2>3, <2>4, <2>5, EnterFormed
  <2> QED BY <1>6, <2>6 DEF Release, Formed, TypeOK, HandlesAreLive, Entry
<1> QED BY <1>1, <1>2, <1>3, <1>4, <1>5, <1>6

\* A handler that waits for the lock, opens and fetches.
LEMMA OpenStep ==
  ASSUME Formed, NEW m \in Machines
  PROVE  /\ LockGranted(m) => Formed'
         /\ LockGivenUp(m) => Formed'
         /\ OpenUnlinks(m) => Formed'
         /\ OpenFetches(m) => Formed'
         /\ OpenReturns(m) => Formed'
         /\ OpenFails(m) => Formed'
<1>1. ASSUME LockGranted(m)
      PROVE  Formed'
  <2>1. ~At(m, "idle") /\ "unlink" \in Labels
    BY <1>1 DEF LockGranted, At, Labels
  <2>2. /\ pc' \in [Machines -> Labels]
        /\ cur' \in [Machines -> Calls \cup {None}]
        /\ HandlersHaveCalls'
    BY <1>1, <2>1, GotoFormed DEF LockGranted
  <2> DEFINE item == LT!Acquired(locks[CurKey(m)], m, cur[m].flags)
  <2>3. CurKey(m) \in Keys /\ item \in LT!LockItems(Machines)
    BY <2>1, RunningType, AcquiredType DEF Formed, TypeOK
  <2>4. locks' = [locks EXCEPT ![CurKey(m)] = item]
    BY <1>1 DEF LockGranted
  <2> HIDE DEF item
  <2>5. locks' \in [Keys -> LT!LockItems(Machines)]
    BY <2>3, <2>4 DEF Formed, TypeOK
  <2> QED BY <1>1, <2>2, <2>5 DEF LockGranted, Formed, TypeOK, HandlesAreLive, Entry
<1>2. ASSUME LockGivenUp(m)
      PROVE  Formed'
  <2>1. ~At(m, "idle") /\ "unlink" \in Labels
    BY <1>2 DEF LockGivenUp, At, Labels
  <2>2. /\ pc' \in [Machines -> Labels]
        /\ cur' \in [Machines -> Calls \cup {None}]
        /\ HandlersHaveCalls'
    BY <1>2, <2>1, GotoFormed DEF LockGivenUp
  <2> QED BY <1>2, <2>2 DEF LockGivenUp, Formed, TypeOK, HandlesAreLive, Entry
<1>3. ASSUME OpenUnlinks(m)
      PROVE  Formed'
  <2>1. ~At(m, "idle") /\ "get" \in Labels
    BY <1>3 DEF OpenUnlinks, At, Labels
  <2>2. /\ pc' \in [Machines -> Labels]
        /\ cur' \in [Machines -> Calls \cup {None}]
        /\ HandlersHaveCalls'
    BY <1>3, <2>1, GotoFormed DEF OpenUnlinks
  <2>3. ssd' \in [Machines -> [Paths -> Entries]] /\ HandlesAreLive'
    BY <1>3, SetEntryFormed DEF OpenUnlinks
  <2> QED BY <1>3, <2>2, <2>3 DEF OpenUnlinks, Formed, TypeOK
<1>4. ASSUME OpenFetches(m)
      PROVE  Formed'
  <2>1. ~At(m, "idle") /\ "open" \in Labels
    BY <1>4 DEF OpenFetches, At, Labels
  <2>2. /\ pc' \in [Machines -> Labels]
        /\ cur' \in [Machines -> Calls \cup {None}]
        /\ HandlersHaveCalls'
    BY <1>4, <2>1, GotoFormed DEF OpenFetches
  <2>3. PICK proxy \in BOOLEAN, data \in Contents : Fetched(m, proxy, data)
    <3> DEFINE object == cloud[CurKey(m)]
    <3>1. CurKey(m) \in Keys
      BY <2>1, RunningType
    <3>2. object \in Contents \cup {None}
      BY <3>1 DEF Formed, TypeOK
    <3>3. (IF object = None THEN <<>> ELSE object) \in Contents
      BY <3>2 DEF Contents
    <3>4. ASSUME object # None, NEW n \in 0..Len(object)
          PROVE  SubSeq(object, 1, n) \in Contents
      BY <3>2, <3>4 DEF Contents
    <3> QED BY <1>4, <3>3, <3>4 DEF OpenFetches
  <2> DEFINE new == NewHandler(cur[m].path, cur[m].flags, proxy, data)
  <2>4. new \in FileHandlers
    BY <2>1, RunningType DEF NewHandler, FileHandlers
  <2>5. PICK h \in Handles \cup {None} : h = cur[m].handle
    BY <2>1, RunningType
  <2>6. /\ fh' = [fh EXCEPT ![m][h] = new]
        /\ ssd' = [ssd EXCEPT ![m][cur[m].path] = h]
    BY <2>3, <2>5 DEF Fetched, SetEntry
  <2> HIDE DEF new
  <2>7. fh' \in [Machines -> [Handles -> FileHandlers \cup {None}]]
    BY <2>4, <2>6 DEF Formed, TypeOK
  <2>8. ssd' \in [Machines -> [Paths -> Entries]]
    BY <2>5, <2>6 DEF Formed, TypeOK, Entries
  <2>9. HandlesAreLive'
    BY <2>4, <2>5, <2>6, <2>7, <2>8 DEF Formed, TypeOK, HandlesAreLive, Entry
  <2>10. faults' \in Nat
    BY <1>4, FaultsType DEF OpenFetches, FaultKinds
  <2> QED BY <1>4, <2>2, <2>7, <2>8, <2>9, <2>10 DEF OpenFetches, Formed, TypeOK
<1>5. ASSUME OpenReturns(m)
      PROVE  Formed'
  <2>1. /\ pc' \in [Machines -> Labels]
        /\ cur' \in [Machines -> Calls \cup {None}]
        /\ HandlersHaveCalls'
    BY <1>5, ReturnFormed DEF OpenReturns
  <2> QED BY <1>5, <2>1 DEF OpenReturns, Formed, TypeOK, HandlesAreLive, Entry
<1>6. ASSUME OpenFails(m)
      PROVE  Formed'
  <2>1. /\ pc' \in [Machines -> Labels]
        /\ cur' \in [Machines -> Calls \cup {None}]
        /\ HandlersHaveCalls'
    BY <1>6, ReturnFormed DEF OpenFails
  <2>2. ~At(m, "idle")
    BY <1>6 DEF OpenFails, At
  <2>3. PICK hs \in SUBSET (Handles \cup {None}) : hs = {cur[m].handle}
    BY <2>2, RunningType
  <2>4. /\ fh' \in [Machines -> [Handles -> FileHandlers \cup {None}]]
        /\ \A n \in Machines, h \in Handles : n # m \/ h \notin hs => fh'[n][h] = fh[n][h]
    BY <1>6, <2>3 DEF OpenFails, Formed, TypeOK
  <2>5. ssd' = [ssd EXCEPT ![m] = Closed(m, hs)]
    BY <1>6, <2>3 DEF OpenFails
  <2>6. ssd' \in [Machines -> [Paths -> Entries]] /\ HandlesAreLive'
    BY <2>4, <2>5, ClosedFormed
  <2>7. faults' \in Nat
    BY <1>6, FaultsType DEF OpenFails, FaultKinds
  <2> QED BY <1>6, <2>1, <2>4, <2>6, <2>7 DEF OpenFails, Formed, TypeOK
<1> QED BY <1>1, <1>2, <1>3, <1>4, <1>5, <1>6

\* A handler that deletes, uploads, replaces the file by its link, and ends.
LEMMA CloseStep ==
  ASSUME Formed, NEW m \in Machines
  PROVE  /\ S3Delete(m) => Formed'
         /\ UnlinkMeta(m) => Formed'
         /\ S3Put(m) => Formed'
         /\ WriteMeta(m) => Formed'
         /\ UnlinkTmp(m) => Formed'
         /\ Symlink(m) => Formed'
         /\ Unlock(m) => Formed'
         /\ UnlinkEntry(m) => Formed'
<1>1. ASSUME S3Delete(m)
      PROVE  Formed'
  <2>1. ~At(m, "idle") /\ "unlink_meta" \in Labels
    BY <1>1 DEF S3Delete, At, Labels
  <2>2. /\ pc' \in [Machines -> Labels]
        /\ cur' \in [Machines -> Calls \cup {None}]
        /\ HandlersHaveCalls'
    BY <1>1, <2>1, GotoFormed DEF S3Delete
  <2>3. fh' \in [Machines -> [Handles -> FileHandlers \cup {None}]] /\ HandlesAreLive'
    BY <1>1, <2>1, PublishedFormed DEF S3Delete
  <2>4. cloud' \in [Keys -> Contents \cup {None}]
    BY <1>1, <2>1, RunningType DEF S3Delete, Formed, TypeOK
  <2>5. faults' \in Nat
    BY <1>1, FaultsType DEF S3Delete, FaultKinds
  <2> QED BY <1>1, <2>2, <2>3, <2>4, <2>5 DEF S3Delete, Formed, TypeOK
<1>2. ASSUME UnlinkMeta(m)
      PROVE  Formed'
  <2> DEFINE label == IF cur[m].handle = None THEN "unlink_entry" ELSE "unlock"
  <2>1. ~At(m, "idle") /\ label \in Labels /\ Goto(m, label)
    BY <1>2 DEF UnlinkMeta, At, Labels
  <2> HIDE DEF label
  <2>2. /\ pc' \in [Machines -> Labels]
        /\ cur' \in [Machines -> Calls \cup {None}]
        /\ HandlersHaveCalls'
    BY <2>1, GotoFormed
  <2>3. meta' \in [Machines -> [Keys -> Stats \cup {None, Cleared}]]
    BY <1>2 DEF UnlinkMeta, Formed, TypeOK
  <2> QED BY <1>2, <2>2, <2>3 DEF UnlinkMeta, Formed, TypeOK, HandlesAreLive, Entry
<1>3. ASSUME S3Put(m)
      PROVE  Formed'
  <2>1. ~At(m, "idle") /\ "write_meta" \in Labels
    BY <1>3 DEF S3Put, At, Labels
  <2>2. /\ pc' \in [Machines -> Labels]
        /\ cur' \in [Machines -> Calls \cup {None}]
        /\ HandlersHaveCalls'
    BY <1>3, <2>1, GotoFormed DEF S3Put
  <2>3. fh' \in [Machines -> [Handles -> FileHandlers \cup {None}]] /\ HandlesAreLive'
    BY <1>3, <2>1, PublishedFormed DEF S3Put
  <2>4. cloud' \in [Keys -> Contents \cup {None}]
    <3>1. Uploaded(m) \in Contents \cup {None}
      BY <2>1, UploadedType
    <3> QED BY <1>3, <3>1 DEF S3Put, Formed, TypeOK
  <2>5. faults' \in Nat
    BY <1>3, FaultsType DEF S3Put, FaultKinds
  <2> QED BY <1>3, <2>2, <2>3, <2>4, <2>5 DEF S3Put, Formed, TypeOK
<1>4. ASSUME WriteMeta(m)
      PROVE  Formed'
  <2>1. ~At(m, "idle") /\ {"unlink_tmp", "unlock"} \subseteq Labels
    BY <1>4 DEF WriteMeta, At, Labels
  <2>2. PICK label \in {"unlink_tmp", "unlock"} : Goto(m, label)
    BY <1>4 DEF WriteMeta
  <2>3. /\ pc' \in [Machines -> Labels]
        /\ cur' \in [Machines -> Calls \cup {None}]
        /\ HandlersHaveCalls'
    BY <2>1, <2>2, GotoFormed
  <2>4. meta' \in [Machines -> [Keys -> Stats \cup {None, Cleared}]]
    <3>1. CurKey(m) \in Keys /\ cur[m].stat \in Stats \cup {None, Cleared}
      BY <2>1, RunningType
    <3>2. meta[m][CurKey(m)] \in Stats \cup {None, Cleared}
      BY <3>1 DEF Formed, TypeOK
    <3>3. PICK left \in Stats \cup {None, Cleared} :
            meta' = [meta EXCEPT ![m][CurKey(m)] = left]
      BY <1>4, <3>1, <3>2 DEF WriteMeta
    <3> QED BY <3>3 DEF Formed, TypeOK
  <2>5. faults' \in Nat
    BY <1>4, FaultsType DEF WriteMeta, FaultKinds
  <2> QED BY <1>4, <2>3, <2>4, <2>5 DEF WriteMeta, Formed, TypeOK, HandlesAreLive, Entry
<1>5. ASSUME UnlinkTmp(m)
      PROVE  Formed'
  <2>1. ~At(m, "idle") /\ "symlink" \in Labels
    BY <1>5 DEF UnlinkTmp, At, Labels
  <2>2. /\ pc' \in [Machines -> Labels]
        /\ cur' \in [Machines -> Calls \cup {None}]
        /\ HandlersHaveCalls'
    BY <1>5, <2>1, GotoFormed DEF UnlinkTmp
  <2>3. ssd' \in [Machines -> [Paths -> Entries]] /\ HandlesAreLive'
    BY <1>5, SetEntryFormed DEF UnlinkTmp
  <2> QED BY <1>5, <2>2, <2>3 DEF UnlinkTmp, Formed, TypeOK
<1>6. ASSUME Symlink(m)
      PROVE  Formed'
  <2>1. ~At(m, "idle") /\ "unlock" \in Labels
    BY <1>6 DEF Symlink, At, Labels
  <2>2. /\ pc' \in [Machines -> Labels]
        /\ cur' \in [Machines -> Calls \cup {None}]
        /\ HandlersHaveCalls'
    BY <1>6, <2>1, GotoFormed DEF Symlink
  <2>3. ssd' \in [Machines -> [Paths -> Entries]] /\ HandlesAreLive'
    BY <1>6, SetEntryFormed DEF Symlink
  <2> QED BY <1>6, <2>2, <2>3 DEF Symlink, Formed, TypeOK
<1>7. ASSUME Unlock(m)
      PROVE  Formed'
  <2>1. ~At(m, "idle")
    BY <1>7 DEF Unlock, At
  <2>2. /\ pc' \in [Machines -> Labels]
        /\ cur' \in [Machines -> Calls \cup {None}]
        /\ HandlersHaveCalls'
    BY <1>7, ReturnFormed DEF Unlock
  <2>3. PICK hs \in SUBSET (Handles \cup {None}) : hs = {cur[m].handle}
    BY <2>1, RunningType
  <2>4. /\ fh' \in [Machines -> [Handles -> FileHandlers \cup {None}]]
        /\ \A n \in Machines, h \in Handles : n # m \/ h \notin hs => fh'[n][h] = fh[n][h]
    BY <1>7, <2>3 DEF Unlock, Formed, TypeOK
  <2>5. ssd' = [ssd EXCEPT ![m] = Closed(m, hs)]
    BY <1>7, <2>3 DEF Unlock
  <2>6. ssd' \in [Machines -> [Paths -> Entries]] /\ HandlesAreLive'
    BY <2>4, <2>5, ClosedFormed
  <2>7. locks' \in [Keys -> LT!LockItems(Machines)]
    <3> DEFINE item == LT!Released(locks[CurKey(m)], m)
    <3>1. CurKey(m) \in Keys /\ item \in LT!LockItems(Machines)
      BY <2>1, RunningType, ReleasedType DEF Formed, TypeOK
    <3>2. locks' = locks \/ locks' = [locks EXCEPT ![CurKey(m)] = item]
      BY <1>7 DEF Unlock
    <3> HIDE DEF item
    <3> QED BY <3>1, <3>2 DEF Formed, TypeOK
  <2>8. skip' \in [Machines -> BOOLEAN]
    BY <1>7 DEF Unlock, Formed, TypeOK
  <2> QED BY <1>7, <2>2, <2>4, <2>6, <2>7, <2>8 DEF Unlock, Formed, TypeOK
<1>8. ASSUME UnlinkEntry(m)
      PROVE  Formed'
  <2>1. /\ pc' \in [Machines -> Labels]
        /\ cur' \in [Machines -> Calls \cup {None}]
        /\ HandlersHaveCalls'
    BY <1>8, ReturnFormed DEF UnlinkEntry
  <2>2. ssd' \in [Machines -> [Paths -> Entries]] /\ HandlesAreLive'
    BY <1>8, SetEntryFormed DEF UnlinkEntry
  <2> QED BY <1>8, <2>1, <2>2 DEF UnlinkEntry, Formed, TypeOK
<1> QED BY <1>1, <1>2, <1>3, <1>4, <1>5, <1>6, <1>7, <1>8

LEMMA CrashStep ==
  ASSUME Formed, NEW m \in Machines, Crash(m)
  PROVE  Formed'
<1>1. /\ pc' \in [Machines -> Labels]
      /\ cur' \in [Machines -> Calls \cup {None}]
      /\ HandlersHaveCalls'
  BY ReturnFormed DEF Crash
<1>2. /\ fh' \in [Machines -> [Handles -> FileHandlers \cup {None}]]
      /\ \A n \in Machines, h \in Handles :
           n # m \/ h \notin Handles => fh'[n][h] = fh[n][h]
  BY DEF Crash, Formed, TypeOK
<1>3. ssd' \in [Machines -> [Paths -> Entries]] /\ HandlesAreLive'
  <2>1. ssd' = [ssd EXCEPT ![m] = Closed(m, Handles)] /\ Handles \in SUBSET (Handles \cup {None})
    BY DEF Crash
  <2> QED BY <1>2, <2>1, ClosedFormed
<1>4. skip' \in [Machines -> BOOLEAN]
  BY DEF Crash, Formed, TypeOK
<1>5. faults' \in Nat
  BY FaultsType DEF Crash, FaultKinds
<1> QED BY <1>1, <1>2, <1>3, <1>4, <1>5 DEF Crash, Formed, TypeOK

LEMMA FormedStep == Formed /\ [Next]_vars => Formed'
<1> SUFFICES ASSUME Formed, [Next]_vars PROVE Formed'
  OBVIOUS
<1>1. CASE UNCHANGED vars
  BY <1>1 DEF vars, Formed, TypeOK, HandlesAreLive, HandlersHaveCalls, Entry, At
<1>2. CASE Next
  BY <1>2, ApplicationStep, OpenStep, CloseStep, CrashStep DEF Next, HandlerStep
<1> QED BY <1>1, <1>2

LEMMA AlwaysFormed == Spec => []Formed
BY InitFormed, FormedStep, PTL DEF Spec

\* The SSDs, metadata, objects, handlers and lock table are well formed in every
\* state, for any machines, paths and handles and whatever goes wrong (TypeOK).
THEOREM TypeCorrect == Spec => []TypeOK
<1>1. Formed => TypeOK
  BY DEF Formed
<1> QED BY <1>1, AlwaysFormed, PTL

(***************************************************************************)
(* Machines.                                                                *)
(***************************************************************************)

\* What the handlers of a machine look at there.
Local(m) == <<ssd[m], meta[m], fh[m], pc[m], cur[m]>>

MachineStep(m) ==
  \/ \E p \in Paths :
       \/ Mknod(m, p)
       \/ Unlink(m, p)
       \/ \E n \in 0..MaxLen : Truncate(m, p, n)
       \/ \E h \in Handles, flags \in LT!LockTypes : Open(m, h, p, flags)
  \/ \E h \in Handles :
       \/ Release(m, h)
       \/ \E offset \in 0..(MaxLen - 1), b \in Blocks : Write(m, h, offset, b)
  \/ HandlerStep(m)
  \/ Crash(m)

\* No machine reaches into another one.
LEMMA OthersKeep ==
  ASSUME Formed, NEW m \in Machines, NEW l \in Machines, l # m, MachineStep(m)
  PROVE  Local(l)' = Local(l)
<1> DEFINE Same == Local(l)' = Local(l)
<1>1. ASSUME NEW p \in Paths,
             \/ Mknod(m, p) \/ Unlink(m, p)
             \/ \E n \in 0..MaxLen : Truncate(m, p, n)
             \/ \E h \in Handles, flags \in LT!LockTypes : Open(m, h, p, flags)
      PROVE  Same
  BY <1>1 DEF Formed, TypeOK, Local, Mknod, Unlink, Open, Truncate, TruncateFile, TruncateLink,
              SetEntry, Enter
<1>2. ASSUME NEW h \in Handles,
             \/ Release(m, h)
             \/ \E offset \in 0..(MaxLen - 1), b \in Blocks : Write(m, h, offset, b)
      PROVE  Same
  BY <1>2 DEF Formed, TypeOK, Local, Release, Write, Enter
<1>3. CASE \/ LockGranted(m) \/ LockGivenUp(m) \/ OpenUnlinks(m) \/ OpenReturns(m)
           \/ OpenFails(m)
  BY <1>3 DEF Formed, TypeOK, Local, LockGranted, LockGivenUp, OpenUnlinks, OpenReturns,
              OpenFails, SetEntry, Goto, Return
<1>4. CASE OpenFetches(m)
  <2>1. PICK proxy, data : Fetched(m, proxy, data)
    BY <1>4 DEF OpenFetches
  <2> QED BY <1>4, <2>1 DEF Formed, TypeOK, Local, OpenFetches, Fetched, SetEntry, Goto
<1>5. CASE S3Delete(m) \/ S3Put(m) \/ UnlinkMeta(m) \/ WriteMeta(m)
  BY <1>5 DEF Formed, TypeOK, Local, S3Delete, S3Put, UnlinkMeta, WriteMeta, Published, Goto
<1>6. CASE UnlinkTmp(m) \/ Symlink(m) \/ Unlock(m) \/ UnlinkEntry(m) \/ Crash(m)
  BY <1>6 DEF Formed, TypeOK, Local, UnlinkTmp, Symlink, Unlock, UnlinkEntry, Crash, SetEntry,
              Goto, Return
<1> QED BY <1>1, <1>2, <1>3, <1>4, <1>5, <1>6 DEF MachineStep, HandlerStep

LEMMA NextIsMachines == Next <=> \E m \in Machines : MachineStep(m)
BY DEF Next, MachineStep

(***************************************************************************)
(* Handlers, handles and names: what one machine knows of its handlers.     *)
(***************************************************************************)
\* The calls of cloudfs_open before the handle exists, and those of
\* cloudfs_release and cloudfs_unlink once the object is what it will be.
Opening == {"acquire", "unlink", "get"}
Done    == {"unlink_meta", "write_meta", "unlink_tmp", "symlink", "unlock"}

\* The handle of the handler that runs is the one its arguments say, and a file
\* that is removed is not open.
HandlerMatches(m) ==
  LET p == cur[m].path
      h == cur[m].handle
  IN  ~At(m, "idle") =>
        /\ pc[m] \in Opening => h # None /\ fh[m][h] = None
        /\ h = None => OpenOn(m, p) = {}
        /\ pc[m] \in {"open", "put", "s3_delete"} \cup Done /\ h # None =>
             fh[m][h] # None /\ fh[m][h].path = p /\ fh[m][h].flags = cur[m].flags
        /\ pc[m] \in {"open", "put", "write_meta", "unlink_tmp", "symlink", "unlock"} => h # None
        /\ pc[m] = "unlink_entry" => h = None
        /\ pc[m] = "symlink" => Entry(m, p) = None

\* A name leads to a handle that was opened under it.
NamesMatch(m) ==
  \A p \in Paths : Entry(m, p) \in Handles => fh[m][Entry(m, p)].path = p

HandlesMatch == \A m \in Machines : HandlerMatches(m) /\ NamesMatch(m)

\* Where a file is open once: nobody else has the name that is being opened, and
\* an open file has its name until cloudfs_release takes it away.
OpensAlone(m) == pc[m] \in Opening => OpenOn(m, cur[m].path) = {}

FilesNamed(m) ==
  \A h \in Handles :
    fh[m][h] # None =>
      \/ Entry(m, fh[m][h].path) = h
      \/ pc[m] \in {"symlink", "unlock"} /\ cur[m].handle = h

OpenOnce == \A m \in Machines : OpensAlone(m) /\ FilesNamed(m)

\* What a file_handler keeps while it exists.
SameHandle(m, h) ==
  /\ fh'[m][h] = None <=> fh[m][h] = None
  /\ fh'[m][h].path = fh[m][h].path /\ fh'[m][h].flags = fh[m][h].flags
  /\ fh'[m][h].proxy = fh[m][h].proxy /\ fh'[m][h].base = fh[m][h].base

\* ... and what it keeps unless it is written or truncated.
SameSession(m, h) ==
  /\ SameHandle(m, h)
  /\ fh'[m][h].dirty = fh[m][h].dirty /\ fh'[m][h].file = fh[m][h].file

\* What a write makes of a file_handler, which keeps its path and its object.
LEMMA WriteKeeps ==
  ASSUME Formed, NEW m \in Machines, NEW h \in Handles, NEW offset \in 0..(MaxLen - 1),
         NEW b \in Blocks, Write(m, h, offset, b)
  PROVE  /\ pc[m] = "idle" /\ UNCHANGED <<ssd, pc, cur>>
         /\ fh[m][h] \in FileHandlers /\ fh'[m][h] \in FileHandlers
         /\ fh[m][h].flags = "WRITE"
         /\ \A g \in Handles \ {h} : fh'[m][g] = fh[m][g]
         /\ \A g \in Handles : SameHandle(m, g)
         /\ fh'[m][h].file = Written(fh[m][h].file, offset, b)
         /\ fh'[m][h].dirty = (fh[m][h].dirty \/ fh[m][h].proxy)
         /\ fh'[m][h].changed = TRUE
<1> DEFINE f   == fh[m][h]
           new == [f EXCEPT !.file = Written(@, offset, b), !.dirty = @ \/ f.proxy,
                            !.changed = TRUE]
<1>1. fh \in [Machines -> [Handles -> FileHandlers \cup {None}]]
  BY DEF Formed, TypeOK
<1>2. pc[m] = "idle" /\ UNCHANGED <<ssd, pc, cur>> /\ f # None /\ f.flags = "WRITE"
  BY DEF Write, At
<1>3. f \in FileHandlers
  BY <1>1, <1>2
<1>4. fh' = [fh EXCEPT ![m][h] = new]
  BY DEF Write
<1>5. /\ new.path = f.path /\ new.flags = f.flags /\ new.base = f.base /\ new.proxy = f.proxy
      /\ new.file = Written(f.file, offset, b) /\ new.dirty = (f.dirty \/ f.proxy)
      /\ new.changed = TRUE
  BY <1>3 DEF FileHandlers
<1>6. new \in FileHandlers
  <2>1. Written(f.file, offset, b) \in Contents
    BY <1>3, CloudFSAssumption, WrittenType DEF FileHandlers, Data
  <2>2. (f.dirty \/ f.proxy) \in BOOLEAN
    OBVIOUS
  <2> QED BY <1>3, <2>1, <2>2 DEF FileHandlers
<1> HIDE DEF new
<1>7. fh'[m][h] = new /\ \A g \in Handles \ {h} : fh'[m][g] = fh[m][g]
  BY <1>1, <1>4
<1>8. f # None /\ new # None
  BY <1>3, <1>6, DistinctAssumption
<1>9. \A g \in Handles : SameHandle(m, g)
  BY <1>5, <1>7, <1>8 DEF SameHandle
<1> HIDE DEF f
<1> QED BY <1>2, <1>3, <1>5, <1>6, <1>7, <1>9 DEF f

\* A truncate changes the contents of one file, open or not, or the metadata.
LEMMA TruncateKeeps ==
  ASSUME Formed, NEW m \in Machines, NEW p \in Paths, NEW n \in 0..MaxLen, Truncate(m, p, n)
  PROVE  /\ pc[m] = "idle" /\ UNCHANGED <<pc, cur, cloud>>
         /\ \A g \in Handles : SameHandle(m, g)
         /\ \A g \in Handles : fh'[m][g].file # fh[m][g].file =>
              fh'[m][g].file = Resized(fh[m][g].file, n)
         /\ \A q \in Paths : Entry(m, q)' # Entry(m, q) =>
              Entry(m, q) \in Contents /\ Entry(m, q)' = Resized(Entry(m, q), n)
<1> USE DEF Formed, TypeOK
<1>1. pc[m] = "idle" /\ UNCHANGED <<pc, cur, cloud>>
  BY DEF Truncate, At
<1>2. CASE TruncateFile(m, p, n) /\ Entry(m, p) \in Handles
  <2> PICK h \in Handles : h = Entry(m, p)
    BY <1>2
  <2>1. fh[m][h] \in FileHandlers
    BY DEF HandlesAreLive
  <2>2. fh' = [fh EXCEPT ![m][h].file = Resized(@, n), ![m][h].changed = TRUE] /\ UNCHANGED ssd
    BY <1>2 DEF TruncateFile
  <2> DEFINE new == [fh[m][h] EXCEPT !.file = Resized(fh[m][h].file, n), !.changed = TRUE]
  <2>3. fh'[m][h] = new /\ \A g \in Handles \ {h} : fh'[m][g] = fh[m][g]
    BY <2>1, <2>2 DEF FileHandlers
  <2>4. /\ new.path = fh[m][h].path /\ new.flags = fh[m][h].flags
        /\ new.proxy = fh[m][h].proxy /\ new.base = fh[m][h].base
        /\ new.file = Resized(fh[m][h].file, n)
    BY <2>1 DEF FileHandlers
  <2>5. new # None /\ fh[m][h] # None
    <3>1. Resized(fh[m][h].file, n) \in Contents
      BY <2>1, CloudFSAssumption, ResizedType DEF FileHandlers
    <3>2. new \in FileHandlers
      BY <2>1, <3>1 DEF FileHandlers
    <3> QED BY <2>1, <3>2, DistinctAssumption
  <2> HIDE DEF new
  <2> QED BY <1>1, <2>2, <2>3, <2>4, <2>5 DEF SameHandle, Entry
<1>3. CASE TruncateFile(m, p, n) /\ Entry(m, p) \notin Handles
  <2>1. Entry(m, p) \in Contents
    <3>1. Entry(m, p) # None /\ Entry(m, p) # Link
      BY <1>3, DistinctAssumption
      DEF Truncate, TruncateFile, IsFile, Getattr, Lstat, Stats
    <3> QED BY <1>3, <3>1 DEF Entry, Entries
  <2>2. SetEntry(m, p, Resized(Entry(m, p), n)) /\ UNCHANGED fh
    BY <1>3 DEF TruncateFile
  <2> QED BY <1>1, <2>1, <2>2 DEF SameHandle, SetEntry, Entry
<1>4. CASE TruncateLink(m, p, n)
  BY <1>1, <1>4 DEF TruncateLink, SameHandle, Entry
<1> QED BY <1>2, <1>3, <1>4 DEF Truncate

\* Publishing changes no session but for its history (Published).
LEMMA PublishedKeeps ==
  ASSUME Formed, NEW m \in Machines, ~At(m, "idle"), fh' = Published(m) \/ UNCHANGED fh,
         NEW l \in Machines, NEW g \in Handles
  PROVE  SameSession(l, g)
<1> USE DEF SameSession, SameHandle
<1>1. CASE UNCHANGED fh
  BY <1>1
<1>2. CASE fh' = Published(m) /\ fh' # fh
  <2> PICK h : h = cur[m].handle
    OBVIOUS
  <2>1. /\ h # None /\ Entry(m, cur[m].path) = h
        /\ fh' = [fh EXCEPT ![m][h].changed = FALSE]
    BY <1>2 DEF Published
  <2>2. h \in Handles /\ cur[m].path \in Paths
    BY <2>1, RunningType
  <2>3. fh[m][h] \in FileHandlers
    BY <2>1, <2>2 DEF Formed, HandlesAreLive
  <2>4. CASE l = m /\ g = h
    <3>1. fh'[m][h] = [fh[m][h] EXCEPT !.changed = FALSE]
      BY <2>1, <2>2 DEF Formed, TypeOK
    <3>2. fh'[m][h] \in FileHandlers
      BY <2>3, <3>1 DEF FileHandlers
    <3> QED BY <2>3, <2>4, <3>1, <3>2, DistinctAssumption DEF FileHandlers
  <2>5. CASE ~(l = m /\ g = h)
    BY <2>1, <2>2, <2>5 DEF Formed, TypeOK
  <2> QED BY <2>4, <2>5
<1> QED BY <1>1, <1>2

\* What cloudfs_open puts under the handle and the name it was called with.
LEMMA FetchedMakes ==
  ASSUME Formed, NEW m \in Machines, OpenFetches(m), HandlerMatches(m)
  PROVE  /\ cur[m].handle \in Handles /\ cur[m].path \in Paths /\ CurKey(m) \in Keys
         /\ fh[m][cur[m].handle] = None /\ pc[m] = "get" /\ pc'[m] = "open" /\ cur' = cur
         /\ UNCHANGED <<meta, cloud, skip, locks>>
         /\ \A h \in Handles \ {cur[m].handle} : fh'[m][h] = fh[m][h]
         /\ \A p \in Paths :
              Entry(m, p)' = IF p = cur[m].path THEN cur[m].handle ELSE Entry(m, p)
         /\ LET f == fh'[m][cur[m].handle]
            IN  /\ f \in FileHandlers
                /\ f.path = cur[m].path /\ f.flags = cur[m].flags
                /\ ~f.dirty /\ ~f.changed /\ f.base = f.file
                /\ \/ /\ f.proxy = (cloud[CurKey(m)] # None)
                      /\ f.file = IF cloud[CurKey(m)] = None THEN <<>> ELSE cloud[CurKey(m)]
                   \/ /\ Fault("get") \/ Fault("disk")
                      /\ cloud[CurKey(m)] # None
                      /\ \E n \in 0..Len(cloud[CurKey(m)]) : f.file = SubSeq(cloud[CurKey(m)], 1, n)
<1> USE DEF Formed, TypeOK
<1>1. /\ cur[m].handle \in Handles /\ cur[m].path \in Paths /\ CurKey(m) \in Keys
      /\ cur[m].flags \in LT!LockTypes
      /\ fh[m][cur[m].handle] = None /\ pc[m] = "get" /\ pc'[m] = "open" /\ cur' = cur
      /\ UNCHANGED <<meta, cloud, skip, locks>>
  BY RunningType DEF OpenFetches, HandlerMatches, Opening, At, Goto
<1> DEFINE object == cloud[CurKey(m)]
<1>2. PICK proxy \in BOOLEAN : \E data :
        /\ Fetched(m, proxy, data)
        /\ \/ /\ proxy = (object # None)
              /\ data = IF object = None THEN <<>> ELSE object
           \/ /\ Fault("get") \/ Fault("disk")
              /\ object # None
              /\ \E n \in 0..Len(object) : data = SubSeq(object, 1, n)
  BY DEF OpenFetches
<1>3. PICK data :
        /\ Fetched(m, proxy, data)
        /\ \/ /\ proxy = (object # None)
              /\ data = IF object = None THEN <<>> ELSE object
           \/ /\ Fault("get") \/ Fault("disk")
              /\ object # None
              /\ \E n \in 0..Len(object) : data = SubSeq(object, 1, n)
  BY <1>2
<1>4. data \in Contents
  <2>1. object \in Contents \cup {None}
    BY <1>1
  <2>2. <<>> \in Contents /\ \A n \in 0..Len(object) :
          object \in Contents => SubSeq(object, 1, n) \in Contents
    BY DEF Contents
  <2> HIDE DEF object
  <2> QED BY <1>3, <2>1, <2>2
<1> DEFINE new == NewHandler(cur[m].path, cur[m].flags, proxy, data)
<1>5. /\ new \in FileHandlers
      /\ new.path = cur[m].path /\ new.flags = cur[m].flags
      /\ ~new.dirty /\ ~new.changed /\ new.base = data /\ new.file = data /\ new.proxy = proxy
  BY <1>1, <1>4 DEF NewHandler, FileHandlers
<1>6. fh'[m][cur[m].handle] = new /\ \A h \in Handles \ {cur[m].handle} : fh'[m][h] = fh[m][h]
  BY <1>1, <1>3 DEF Fetched
<1>7. \A p \in Paths : Entry(m, p)' = IF p = cur[m].path THEN cur[m].handle ELSE Entry(m, p)
  BY <1>1, <1>3 DEF Fetched, SetEntry, Entry
<1> HIDE DEF new
<1> QED BY <1>1, <1>3, <1>5, <1>6, <1>7

\* A failed open, the end of a close and a restart: handles are gone, and their
\* files stay where they have a name (Closed).
LEMMA ClosedMakes ==
  ASSUME Formed, NEW m \in Machines, OpenFails(m) \/ Unlock(m) \/ Crash(m), HandlerMatches(m)
  PROVE  \E hs \in SUBSET Handles :
           /\ hs = IF Crash(m) THEN Handles ELSE {cur[m].handle}
           /\ pc'[m] = "idle"
           /\ \A h \in Handles : fh'[m][h] = IF h \in hs THEN None ELSE fh[m][h]
           /\ \A p \in Paths :
                Entry(m, p)' = IF Entry(m, p) \in hs THEN fh[m][Entry(m, p)].file ELSE Entry(m, p)
<1> USE DEF Formed, TypeOK
<1>1. CASE Crash(m)
  <2>1. \A h \in Handles : fh'[m][h] = None
    BY <1>1 DEF Crash
  <2>2. \A p \in Paths :
          Entry(m, p)' = IF Entry(m, p) \in Handles THEN fh[m][Entry(m, p)].file ELSE Entry(m, p)
    BY <1>1 DEF Crash, Closed, Entry, File
  <2>3. pc'[m] = "idle"
    BY <1>1 DEF Crash, Return
  <2> QED BY <1>1, <2>1, <2>2, <2>3
<1>2. CASE ~Crash(m)
  <2> PICK h : h = cur[m].handle
    OBVIOUS
  <2>1. h \in Handles
    BY <1>2, RunningType DEF OpenFails, Unlock, HandlerMatches, At
  <2>2. /\ fh' = [fh EXCEPT ![m][h] = None] /\ ssd' = [ssd EXCEPT ![m] = Closed(m, {h})]
        /\ Return(m)
    BY <1>2 DEF OpenFails, Unlock
  <2>3. \A g \in Handles : fh'[m][g] = IF g = h THEN None ELSE fh[m][g]
    BY <2>1, <2>2
  <2>4. \A p \in Paths :
          Entry(m, p)' = IF Entry(m, p) = h THEN fh[m][Entry(m, p)].file ELSE Entry(m, p)
    BY <2>1, <2>2 DEF Closed, Entry, File
  <2>5. pc'[m] = "idle"
    BY <2>2 DEF Return
  <2>6. {h} \in SUBSET Handles
    BY <2>1
  <2> WITNESS {h} \in SUBSET Handles
  <2> QED BY <1>2, <2>3, <2>4, <2>5
<1> QED BY <1>1, <1>2

\* cloudfs_release looks at one handle and goes where its lstat sends it.
LEMMA ReleaseMakes ==
  ASSUME Formed, NEW m \in Machines, NEW h \in Handles, Release(m, h)
  PROVE  /\ pc[m] = "idle" /\ UNCHANGED <<ssd, meta, cloud, fh, skip, locks, faults>>
         /\ fh[m][h] \in FileHandlers /\ fh[m][h].path \in Paths
         /\ pc'[m] = ReleaseStep(fh[m][h], Lstat(m, fh[m][h].path))
         /\ pc'[m] \in {"put", "s3_delete", "unlink_tmp", "unlock"}
         /\ cur'[m] = [path |-> fh[m][h].path, flags |-> fh[m][h].flags, handle |-> h,
                       stat |-> Lstat(m, fh[m][h].path)]
         /\ cur'[m].path = fh[m][h].path /\ cur'[m].flags = fh[m][h].flags
         /\ cur'[m].handle = h /\ cur'[m].stat = Lstat(m, fh[m][h].path)
<1> DEFINE f  == fh[m][h]
           st == Lstat(m, f.path)
<1>1. pc[m] = "idle" /\ UNCHANGED <<ssd, meta, cloud, fh, skip, locks, faults>>
  BY DEF Release, At
<1>2. f \in FileHandlers /\ f.path \in Paths
  BY DEF Release, Formed, TypeOK, FileHandlers
<1>3. ReleaseStep(f, st) \in {"put", "s3_delete", "unlink_tmp", "unlock"}
  BY <1>2 DEF ReleaseStep, FileHandlers
<1>4. /\ pc' = [pc EXCEPT ![m] = ReleaseStep(f, st)]
      /\ cur' = [cur EXCEPT ![m] = [path |-> f.path, flags |-> f.flags, handle |-> h, stat |-> st]]
  BY DEF Release, Enter
<1> HIDE DEF f, st
<1>5. /\ pc'[m] = ReleaseStep(f, st)
      /\ cur'[m] = [path |-> f.path, flags |-> f.flags, handle |-> h, stat |-> st]
  BY <1>4 DEF Formed, TypeOK
<1> QED BY <1>1, <1>2, <1>3, <1>5 DEF f, st

\* A machine goes on with its own handles and names, whatever goes wrong.
LEMMA MatchApplication ==
  ASSUME Formed, NEW m \in Machines, HandlerMatches(m), NamesMatch(m)
  PROVE  /\ \A p \in Paths :
              /\ Mknod(m, p) => (HandlerMatches(m) /\ NamesMatch(m))'
              /\ \A n \in 0..MaxLen : Truncate(m, p, n) => (HandlerMatches(m) /\ NamesMatch(m))'
              /\ \A h \in Handles, flags \in LT!LockTypes :
                   Open(m, h, p, flags) => (HandlerMatches(m) /\ NamesMatch(m))'
              /\ Unlink(m, p) => (HandlerMatches(m) /\ NamesMatch(m))'
         /\ \A h \in Handles :
              /\ \A offset \in 0..(MaxLen - 1), b \in Blocks :
                   Write(m, h, offset, b) => (HandlerMatches(m) /\ NamesMatch(m))'
              /\ Release(m, h) => (HandlerMatches(m) /\ NamesMatch(m))'
<1> USE DEF HandlerMatches, NamesMatch, At
<1>1. ASSUME NEW p \in Paths, Mknod(m, p)
      PROVE  (HandlerMatches(m) /\ NamesMatch(m))'
  <2>1. <<>> \notin Handles
    <3>1. <<>> \in Contents
      BY DEF Contents
    <3> QED BY <3>1, DistinctAssumption
  <2> QED BY <1>1, <2>1 DEF Mknod, SetEntry, Entry, Formed, TypeOK
<1>2. ASSUME NEW p \in Paths, NEW n \in 0..MaxLen, Truncate(m, p, n)
      PROVE  (HandlerMatches(m) /\ NamesMatch(m))'
  <2>1. pc[m] = "idle" /\ UNCHANGED <<pc, cur>> /\ \A g \in Handles : SameHandle(m, g)
    BY <1>2, TruncateKeeps
  <2>2. ASSUME NEW q \in Paths, Entry(m, q)' \in Handles
        PROVE  Entry(m, q) = Entry(m, q)'
    <3>1. CASE Entry(m, q)' # Entry(m, q)
      <4>1. Entry(m, q) \in Contents /\ Entry(m, q)' = Resized(Entry(m, q), n)
        BY <1>2, <3>1, TruncateKeeps
      <4> QED BY <2>2, <4>1, ResizedType, CloudFSAssumption, DistinctAssumption
    <3> QED BY <3>1
  <2> QED BY <2>1, <2>2 DEF SameHandle
<1>3. ASSUME NEW p \in Paths, NEW h \in Handles, NEW flags \in LT!LockTypes, Open(m, h, p, flags)
      PROVE  (HandlerMatches(m) /\ NamesMatch(m))'
  BY <1>3, DistinctAssumption DEF Open, Enter, Entry, Opening, Done, Formed, TypeOK
<1>4. ASSUME NEW p \in Paths, Unlink(m, p)
      PROVE  (HandlerMatches(m) /\ NamesMatch(m))'
  BY <1>4, DistinctAssumption DEF Unlink, Enter, OpenOn, Entry, Opening, Done, Formed, TypeOK
<1>5. ASSUME NEW h \in Handles, NEW offset \in 0..(MaxLen - 1), NEW b \in Blocks,
             Write(m, h, offset, b)
      PROVE  (HandlerMatches(m) /\ NamesMatch(m))'
  <2>1. pc[m] = "idle" /\ UNCHANGED <<ssd, pc, cur>> /\ \A g \in Handles : SameHandle(m, g)
    BY <1>5, WriteKeeps
  <2> QED BY <2>1 DEF SameHandle, Entry
<1>6. ASSUME NEW h \in Handles, Release(m, h)
      PROVE  (HandlerMatches(m) /\ NamesMatch(m))'
  <2>1. /\ UNCHANGED <<ssd, fh>> /\ pc'[m] \in {"put", "s3_delete", "unlink_tmp", "unlock"}
        /\ fh[m][h] \in FileHandlers
        /\ cur'[m].path = fh[m][h].path /\ cur'[m].flags = fh[m][h].flags /\ cur'[m].handle = h
    BY <1>6, ReleaseMakes
  <2>2. h # None /\ fh[m][h] # None
    BY <2>1, DistinctAssumption
  <2>3. HandlerMatches(m)'
    BY <2>1, <2>2 DEF Opening, Done
  <2>4. NamesMatch(m)'
    BY <2>1 DEF Entry
  <2> QED BY <2>3, <2>4
<1> QED BY <1>1, <1>2, <1>3, <1>4, <1>5, <1>6

LEMMA MatchHandler ==
  ASSUME Formed, NEW m \in Machines, HandlerMatches(m), NamesMatch(m)
  PROVE  HandlerStep(m) \/ Crash(m) => (HandlerMatches(m) /\ NamesMatch(m))'
<1> USE DEF At
<1>1. ASSUME LockGranted(m) \/ LockGivenUp(m)
      PROVE  (HandlerMatches(m) /\ NamesMatch(m))'
  BY <1>1 DEF HandlerMatches, NamesMatch, LockGranted, LockGivenUp, Goto, OpenOn, Entry, Opening,
              Done, Formed, TypeOK
<1>2. ASSUME OpenUnlinks(m)
      PROVE  (HandlerMatches(m) /\ NamesMatch(m))'
  BY <1>2, RunningType, DistinctAssumption
  DEF HandlerMatches, NamesMatch, OpenUnlinks, Goto, SetEntry, OpenOn, Entry, Opening, Done,
      Formed, TypeOK
<1>3. ASSUME OpenFetches(m)
      PROVE  (HandlerMatches(m) /\ NamesMatch(m))'
  <2>1. /\ cur[m].handle \in Handles /\ fh[m][cur[m].handle] = None
        /\ pc'[m] = "open" /\ cur' = cur
        /\ \A h \in Handles \ {cur[m].handle} : fh'[m][h] = fh[m][h]
        /\ \A p \in Paths :
             Entry(m, p)' = IF p = cur[m].path THEN cur[m].handle ELSE Entry(m, p)
    BY <1>3, FetchedMakes
  <2>2. /\ fh'[m][cur[m].handle] \in FileHandlers
        /\ fh'[m][cur[m].handle].path = cur[m].path
        /\ fh'[m][cur[m].handle].flags = cur[m].flags
    BY <1>3, FetchedMakes
  <2>3. fh'[m][cur[m].handle] # None /\ cur[m].handle # None
    BY <2>1, <2>2, DistinctAssumption
  <2>4. HandlerMatches(m)'
    BY <2>1, <2>2, <2>3 DEF HandlerMatches, Opening, Done
  <2>5. ASSUME NEW p \in Paths, Entry(m, p)' \in Handles
        PROVE  fh'[m][Entry(m, p)'].path = p
    <3>1. CASE p = cur[m].path
      BY <2>1, <2>2, <3>1
    <3>2. CASE p # cur[m].path
      <4>1. Entry(m, p)' = Entry(m, p) /\ Entry(m, p) # cur[m].handle
        BY <2>1, <2>5, <3>2, DistinctAssumption DEF Formed, HandlesAreLive
      <4> QED BY <2>1, <2>5, <4>1 DEF NamesMatch
    <3> QED BY <3>1, <3>2
  <2> QED BY <2>4, <2>5 DEF NamesMatch
<1>4. ASSUME OpenReturns(m)
      PROVE  (HandlerMatches(m) /\ NamesMatch(m))'
  BY <1>4 DEF OpenReturns, Return, HandlerMatches, NamesMatch, Entry, Formed, TypeOK
<1>5. ASSUME OpenFails(m) \/ Unlock(m) \/ Crash(m)
      PROVE  (HandlerMatches(m) /\ NamesMatch(m))'
  <2>1. PICK hs \in SUBSET Handles :
          /\ pc'[m] = "idle"
          /\ \A h \in Handles : fh'[m][h] = IF h \in hs THEN None ELSE fh[m][h]
          /\ \A p \in Paths :
               Entry(m, p)' = IF Entry(m, p) \in hs THEN fh[m][Entry(m, p)].file ELSE Entry(m, p)
    BY <1>5, ClosedMakes
  <2>2. ASSUME NEW p \in Paths, Entry(m, p)' \in Handles
        PROVE  fh'[m][Entry(m, p)'].path = p
    <3>1. CASE Entry(m, p) \in hs
      <4>1. fh[m][Entry(m, p)].file \in Contents
        BY <3>1 DEF Formed, HandlesAreLive, FileHandlers
      <4> QED BY <2>1, <2>2, <3>1, <4>1, DistinctAssumption
    <3>2. CASE Entry(m, p) \notin hs
      BY <2>1, <2>2, <3>2 DEF NamesMatch
    <3> QED BY <3>1, <3>2
  <2> QED BY <2>1, <2>2 DEF HandlerMatches, NamesMatch
<1>6. ASSUME S3Delete(m) \/ S3Put(m)
      PROVE  (HandlerMatches(m) /\ NamesMatch(m))'
  <2>1. UNCHANGED ssd /\ \A h \in Handles : SameSession(m, h)
    BY <1>6, PublishedKeeps DEF S3Delete, S3Put
  <2>2. OpenOn(m, cur[m].path)' = OpenOn(m, cur[m].path)
    BY <1>6, <2>1 DEF S3Delete, S3Put, Goto, OpenOn, SameSession, SameHandle
  <2>3. /\ pc[m] \in {"put", "s3_delete"}
        /\ pc'[m] = (IF pc[m] = "put" THEN "write_meta" ELSE "unlink_meta") /\ cur' = cur
    BY <1>6 DEF S3Delete, S3Put, Goto, Formed, TypeOK
  <2>4. HandlerMatches(m)'
    BY <2>1, <2>2, <2>3, RunningType
    DEF HandlerMatches, Opening, Done, SameSession, SameHandle
  <2>5. NamesMatch(m)'
    BY <2>1 DEF NamesMatch, Entry, SameSession, SameHandle
  <2> QED BY <2>4, <2>5
<1>7. ASSUME UnlinkMeta(m) \/ WriteMeta(m)
      PROVE  (HandlerMatches(m) /\ NamesMatch(m))'
  BY <1>7 DEF HandlerMatches, NamesMatch, UnlinkMeta, WriteMeta, Goto, OpenOn, Entry, Opening,
              Done, Formed, TypeOK
<1>8. ASSUME UnlinkTmp(m) \/ Symlink(m)
      PROVE  (HandlerMatches(m) /\ NamesMatch(m))'
  <2>1. cur[m].path \in Paths /\ UNCHANGED <<fh, cur>>
        /\ pc[m] \in {"unlink_tmp", "symlink"}
        /\ pc'[m] = IF pc[m] = "unlink_tmp" THEN "symlink" ELSE "unlock"
    BY <1>8, RunningType DEF UnlinkTmp, Symlink, Goto, Formed, TypeOK
  <2>2. \A p \in Paths :
          Entry(m, p)' = IF p # cur[m].path THEN Entry(m, p)
                         ELSE IF pc[m] = "unlink_tmp" THEN None ELSE Link
    BY <1>8, <2>1 DEF UnlinkTmp, Symlink, SetEntry, Entry, Formed, TypeOK
  <2>3. HandlerMatches(m)'
    BY <2>1, <2>2 DEF HandlerMatches, OpenOn, Opening, Done
  <2>4. NamesMatch(m)'
    BY <2>1, <2>2, DistinctAssumption DEF NamesMatch
  <2> QED BY <2>3, <2>4
<1>9. ASSUME UnlinkEntry(m)
      PROVE  (HandlerMatches(m) /\ NamesMatch(m))'
  BY <1>9, RunningType, DistinctAssumption
  DEF HandlerMatches, NamesMatch, UnlinkEntry, Return, SetEntry, Entry, Formed, TypeOK
<1> QED BY <1>1, <1>2, <1>3, <1>4, <1>5, <1>6, <1>7, <1>8, <1>9 DEF HandlerStep

LEMMA MatchStep == Formed /\ HandlesMatch /\ [Next]_vars => HandlesMatch'
<1> SUFFICES ASSUME Formed, HandlesMatch, [Next]_vars PROVE HandlesMatch'
  OBVIOUS
<1> USE DEF HandlesMatch
<1>1. CASE UNCHANGED vars
  BY <1>1 DEF vars, HandlerMatches, NamesMatch, At, OpenOn, Entry
<1>2. ASSUME NEW m \in Machines, MachineStep(m)
      PROVE  HandlesMatch'
  <2>1. (HandlerMatches(m) /\ NamesMatch(m))'
    BY <1>2, MatchApplication, MatchHandler DEF MachineStep
  <2>2. ASSUME NEW l \in Machines, l # m
        PROVE  (HandlerMatches(l) /\ NamesMatch(l))'
    <3>1. Local(l)' = Local(l)
      BY <1>2, <2>2, OthersKeep
    <3> QED BY <3>1 DEF Local, HandlerMatches, NamesMatch, At, OpenOn, Entry
  <2> QED BY <2>1, <2>2
<1> QED BY <1>1, <1>2, NextIsMachines

\* What every state satisfies, whatever goes wrong.
Sound == Formed /\ HandlesMatch

LEMMA AlwaysSound == Spec => []Sound
<1>1. Init => HandlesMatch
  <2> SUFFICES ASSUME Init, NEW m \in Machines PROVE HandlerMatches(m) /\ NamesMatch(m)
    BY DEF HandlesMatch
  <2>1. HandlerMatches(m)
    BY DEF Init, HandlerMatches, At
  <2>2. NamesMatch(m)
    BY DistinctAssumption DEF Init, NamesMatch, Entry
  <2> QED BY <2>1, <2>2
<1> QED BY <1>1, MatchStep, AlwaysFormed, PTL DEF Spec, Sound

(***************************************************************************)
(* Files that are open once.                                                *)
(***************************************************************************)
LEMMA OnceMachine ==
  ASSUME ~Shared, Sound, NEW m \in Machines, OpensAlone(m), FilesNamed(m), MachineStep(m)
  PROVE  (OpensAlone(m) /\ FilesNamed(m))'
<1> DEFINE Goal == (OpensAlone(m) /\ FilesNamed(m))'
<1> USE DEF At
<1>0. Formed /\ HandlerMatches(m) /\ NamesMatch(m)
  BY DEF Sound, HandlesMatch
<1>1. ASSUME NEW p \in Paths, Mknod(m, p)
      PROVE  Goal
  BY <1>0, <1>1, DistinctAssumption
  DEF Mknod, SetEntry, Entry, OpensAlone, FilesNamed, Opening, Formed, TypeOK
<1>2. ASSUME NEW p \in Paths, NEW n \in 0..MaxLen, Truncate(m, p, n)
      PROVE  Goal
  <2>1. pc[m] = "idle" /\ UNCHANGED <<pc, cur>> /\ \A g \in Handles : SameHandle(m, g)
    BY <1>0, <1>2, TruncateKeeps
  <2>2. ASSUME NEW h \in Handles, (fh[m][h] # None)'
        PROVE  (Entry(m, fh[m][h].path) = h)'
    <3> PICK q : q = fh[m][h].path
      OBVIOUS
    <3>1. fh[m][h] # None /\ fh'[m][h].path = q
      BY <2>1, <2>2 DEF SameHandle
    <3>2. q \in Paths /\ Entry(m, q) = h
      BY <1>0, <2>1, <3>1 DEF FilesNamed, Formed, TypeOK, FileHandlers
    <3>3. Entry(m, q)' = Entry(m, q)
      <4>1. Entry(m, q) \notin Contents
        BY <3>2, DistinctAssumption
      <4> QED BY <1>0, <1>2, <3>2, <4>1, TruncateKeeps
    <3> QED BY <3>1, <3>2, <3>3 DEF Entry
  <2> QED BY <2>1, <2>2 DEF OpensAlone, FilesNamed, Opening
<1>3. ASSUME NEW p \in Paths, NEW h \in Handles, NEW flags \in LT!LockTypes, Open(m, h, p, flags)
      PROVE  Goal
  BY <1>0, <1>3 DEF Open, Enter, OpenOn, Entry, OpensAlone, FilesNamed, Formed, TypeOK
<1>4. ASSUME NEW p \in Paths, Unlink(m, p)
      PROVE  Goal
  BY <1>0, <1>4 DEF Unlink, Enter, Entry, OpensAlone, FilesNamed, Opening, Formed, TypeOK
<1>5. ASSUME NEW h \in Handles, NEW offset \in 0..(MaxLen - 1), NEW b \in Blocks,
             Write(m, h, offset, b)
      PROVE  Goal
  <2>1. pc[m] = "idle" /\ UNCHANGED <<ssd, pc, cur>> /\ \A g \in Handles : SameHandle(m, g)
    BY <1>0, <1>5, WriteKeeps
  <2> QED BY <2>1 DEF SameHandle, Entry, OpensAlone, FilesNamed, Opening
<1>6. ASSUME NEW h \in Handles, Release(m, h)
      PROVE  Goal
  <2>1. /\ pc[m] = "idle" /\ UNCHANGED <<ssd, fh>>
        /\ pc'[m] \in {"put", "s3_delete", "unlink_tmp", "unlock"}
    BY <1>0, <1>6, ReleaseMakes
  <2> QED BY <2>1 DEF Entry, OpensAlone, FilesNamed, Opening
<1>7. CASE LockGranted(m) \/ LockGivenUp(m)
  BY <1>0, <1>7
  DEF LockGranted, LockGivenUp, Goto, OpenOn, Entry, OpensAlone, FilesNamed, Opening, Formed, TypeOK
<1>8. CASE OpenUnlinks(m)
  BY <1>0, <1>8, RunningType
  DEF OpenUnlinks, Goto, SetEntry, OpenOn, Entry, OpensAlone, FilesNamed, Opening, Formed, TypeOK
<1>9. CASE OpenFetches(m)
  <2>1. /\ cur[m].handle \in Handles /\ cur[m].path \in Paths
        /\ pc[m] = "get" /\ pc'[m] = "open" /\ cur' = cur
        /\ \A h \in Handles \ {cur[m].handle} : fh'[m][h] = fh[m][h]
        /\ \A p \in Paths :
             Entry(m, p)' = IF p = cur[m].path THEN cur[m].handle ELSE Entry(m, p)
        /\ fh'[m][cur[m].handle].path = cur[m].path
    BY <1>0, <1>9, FetchedMakes
  <2>2. ASSUME NEW h \in Handles, (fh[m][h] # None)'
        PROVE  (Entry(m, fh[m][h].path) = h)'
    <3>1. CASE h = cur[m].handle
      BY <2>1, <3>1 DEF Entry
    <3>2. CASE h # cur[m].handle
      <4>1. fh'[m][h] = fh[m][h] /\ fh[m][h] # None /\ fh[m][h].path \in Paths
        BY <1>0, <2>1, <2>2, <3>2 DEF Formed, TypeOK, FileHandlers
      <4>2. fh[m][h].path # cur[m].path
        BY <2>1, <4>1 DEF OpensAlone, Opening, OpenOn
      <4>3. Entry(m, fh[m][h].path) = h
        BY <2>1, <4>1 DEF FilesNamed
      <4> QED BY <2>1, <4>1, <4>2, <4>3 DEF Entry
    <3> QED BY <3>1, <3>2
  <2> QED BY <2>1, <2>2 DEF OpensAlone, FilesNamed, Opening
<1>10. CASE OpenReturns(m)
  BY <1>0, <1>10 DEF OpenReturns, Return, Entry, OpensAlone, FilesNamed, Opening, Formed, TypeOK
<1>11. CASE OpenFails(m) \/ Unlock(m) \/ Crash(m)
  <2>1. PICK hs \in SUBSET Handles :
          /\ hs = IF Crash(m) THEN Handles ELSE {cur[m].handle}
          /\ pc'[m] = "idle"
          /\ \A h \in Handles : fh'[m][h] = IF h \in hs THEN None ELSE fh[m][h]
          /\ \A p \in Paths :
               Entry(m, p)' = IF Entry(m, p) \in hs THEN fh[m][Entry(m, p)].file ELSE Entry(m, p)
    BY <1>0, <1>11, ClosedMakes
  <2>2. ASSUME NEW h \in Handles, (fh[m][h] # None)'
        PROVE  (Entry(m, fh[m][h].path) = h)'
    <3>1. h \notin hs /\ fh'[m][h] = fh[m][h] /\ fh[m][h] # None /\ h # cur[m].handle
      BY <2>1, <2>2
    <3>2. fh[m][h].path \in Paths
      BY <1>0, <3>1 DEF Formed, TypeOK, FileHandlers
    <3>3. Entry(m, fh[m][h].path) = h
      BY <3>1 DEF FilesNamed
    <3> QED BY <2>1, <3>1, <3>2, <3>3 DEF Entry
  <2> QED BY <2>1, <2>2 DEF OpensAlone, FilesNamed, Opening
<1>12. CASE S3Delete(m) \/ S3Put(m)
  <2>1. /\ UNCHANGED ssd /\ \A h \in Handles : SameSession(m, h)
        /\ pc[m] \in {"put", "s3_delete"}
        /\ pc'[m] = (IF pc[m] = "put" THEN "write_meta" ELSE "unlink_meta") /\ cur' = cur
    BY <1>0, <1>12, PublishedKeeps DEF S3Delete, S3Put, Goto, Formed, TypeOK
  <2> QED BY <2>1 DEF OpensAlone, FilesNamed, Opening, Entry, SameSession, SameHandle
<1>13. CASE UnlinkMeta(m) \/ WriteMeta(m)
  BY <1>0, <1>13
  DEF UnlinkMeta, WriteMeta, Goto, Entry, OpensAlone, FilesNamed, Opening, Formed, TypeOK
<1>14. CASE UnlinkTmp(m) \/ Symlink(m)
  <2>1. /\ cur[m].path \in Paths /\ UNCHANGED <<fh, cur>>
        /\ pc[m] \in {"unlink_tmp", "symlink"}
        /\ pc'[m] = IF pc[m] = "unlink_tmp" THEN "symlink" ELSE "unlock"
    BY <1>0, <1>14, RunningType DEF UnlinkTmp, Symlink, Goto, Formed, TypeOK
  <2>2. \A p \in Paths \ {cur[m].path} : Entry(m, p)' = Entry(m, p)
    BY <1>0, <1>14, <2>1 DEF UnlinkTmp, Symlink, SetEntry, Entry, Formed, TypeOK
  <2>3. fh[m][cur[m].handle].path = cur[m].path
    BY <1>0, <2>1 DEF HandlerMatches, Done
  <2>4. ASSUME NEW h \in Handles, fh[m][h] # None, h # cur[m].handle
        PROVE  Entry(m, fh[m][h].path)' = h
    <3>1. Entry(m, fh[m][h].path) = h /\ fh[m][h].path \in Paths
      BY <1>0, <2>4 DEF FilesNamed, Formed, TypeOK, FileHandlers
    <3>2. CASE fh[m][h].path = cur[m].path
      <4>1. pc[m] = "unlink_tmp"
        BY <1>0, <2>1, <3>1, <3>2, DistinctAssumption DEF HandlerMatches
      <4>2. cur[m].handle \in Handles /\ fh[m][cur[m].handle] # None
        BY <1>0, <2>1, RunningType DEF HandlerMatches, Done
      <4>3. Entry(m, cur[m].path) = cur[m].handle
        BY <2>3, <4>1, <4>2 DEF FilesNamed
      <4> QED BY <2>4, <3>1, <3>2, <4>3
    <3> QED BY <2>1, <2>2, <3>1, <3>2 DEF Entry
  <2> QED BY <2>1, <2>4 DEF OpensAlone, FilesNamed, Opening, Entry
<1>15. CASE UnlinkEntry(m)
  BY <1>0, <1>15, RunningType
  DEF UnlinkEntry, Return, SetEntry, OpenOn, Entry, HandlerMatches, OpensAlone, FilesNamed,
      Opening, Formed, TypeOK
<1> QED BY <1>1, <1>2, <1>3, <1>4, <1>5, <1>6, <1>7, <1>8, <1>9, <1>10, <1>11, <1>12, <1>13,
           <1>14, <1>15 DEF MachineStep, HandlerStep

LEMMA OnceStep == ASSUME ~Shared PROVE Sound /\ OpenOnce /\ [Next]_vars => OpenOnce'
<1> SUFFICES ASSUME Sound, OpenOnce, [Next]_vars PROVE OpenOnce'
  OBVIOUS
<1> USE DEF OpenOnce
<1>1. CASE UNCHANGED vars
  BY <1>1 DEF vars, OpensAlone, FilesNamed, OpenOn, Entry
<1>2. ASSUME NEW m \in Machines, MachineStep(m)
      PROVE  OpenOnce'
  <2>1. ASSUME NEW l \in Machines, l # m
        PROVE  (OpensAlone(l) /\ FilesNamed(l))'
    <3>1. Local(l)' = Local(l)
      BY <1>2, <2>1, OthersKeep DEF Sound
    <3> QED BY <3>1 DEF Local, OpensAlone, FilesNamed, OpenOn, Entry
  <2> QED BY <1>2, <2>1, OnceMachine
<1> QED BY <1>1, <1>2, NextIsMachines

LEMMA AlwaysOnce == ASSUME ~Shared PROVE Spec => []OpenOnce
<1>1. Init => OpenOnce
  <2> SUFFICES ASSUME Init, NEW m \in Machines PROVE OpensAlone(m) /\ FilesNamed(m)
    BY DEF OpenOnce
  <2> QED BY DEF Init, OpensAlone, FilesNamed, Opening
<1> QED BY <1>1, OnceStep, AlwaysSound, PTL DEF Spec

(***************************************************************************)
(* Objects are big.                                                         *)
(***************************************************************************)

\* A handler gets to s3_cloudfs_put from cloudfs_release only.
LEMMA OnlyReleasePuts ==
  ASSUME Formed, NEW m \in Machines, MachineStep(m), At(m, "put")'
  PROVE  \E h \in Handles : Release(m, h)
<1> SUFFICES ASSUME \A h \in Handles : ~Release(m, h) PROVE FALSE
  OBVIOUS
<1> USE DEF At
<1>1. ASSUME NEW p \in Paths,
             \/ Mknod(m, p) \/ Unlink(m, p)
             \/ \E n \in 0..MaxLen : Truncate(m, p, n)
             \/ \E h \in Handles, flags \in LT!LockTypes : Open(m, h, p, flags)
      PROVE  FALSE
  BY <1>1 DEF Formed, TypeOK, Mknod, Unlink, Open, Truncate, Enter
<1>2. ASSUME NEW h \in Handles, NEW offset \in 0..(MaxLen - 1), NEW b \in Blocks,
             Write(m, h, offset, b)
      PROVE  FALSE
  BY <1>2 DEF Write
<1>3. CASE \/ LockGranted(m) \/ LockGivenUp(m) \/ OpenUnlinks(m) \/ OpenFetches(m)
           \/ OpenReturns(m) \/ OpenFails(m)
  BY <1>3 DEF Formed, TypeOK, LockGranted, LockGivenUp, OpenUnlinks, OpenFetches, OpenReturns,
              OpenFails, Goto, Return
<1>4. CASE S3Delete(m) \/ UnlinkMeta(m) \/ S3Put(m) \/ WriteMeta(m)
  BY <1>4 DEF Formed, TypeOK, S3Delete, UnlinkMeta, S3Put, WriteMeta, Goto
<1>5. CASE UnlinkTmp(m) \/ Symlink(m) \/ Unlock(m) \/ UnlinkEntry(m) \/ Crash(m)
  BY <1>5 DEF Formed, TypeOK, UnlinkTmp, Symlink, Unlock, UnlinkEntry, Crash, Goto, Return
<1> QED BY <1>1, <1>2, <1>3, <1>4, <1>5 DEF MachineStep, HandlerStep

\* The size that decides is the size of what will be sent: of a file its length,
\* of a link, which is above a threshold of 0 only, one block of metadata.
LEMMA ReleaseUploadsBig ==
  ASSUME Formed, NEW m \in Machines, NEW h \in Handles, Release(m, h), At(m, "put")'
  PROVE  (Uploaded(m) = None \/ Len(Uploaded(m)) > Threshold)'
<1> DEFINE p  == fh[m][h].path
           st == Lstat(m, p)
<1>1. fh[m][h] \in FileHandlers /\ p \in Paths
  BY DEF Release, Formed, TypeOK, FileHandlers
<1>2. st # None /\ AboveThreshold(st)
  BY <1>1 DEF Release, Enter, At, Formed, TypeOK, ReleaseStep, FileHandlers
<1>3. cur'[m].path = p
  BY DEF Release, Enter, Formed, TypeOK
<1>4. UNCHANGED <<ssd, meta, fh>>
  BY DEF Release
<1>5. CASE Entry(m, p) = None
  <2>1. st = None
    BY <1>5, DistinctAssumption DEF Lstat
  <2> QED BY <1>2, <2>1
<1>6. CASE Entry(m, p) = Link /\ Entry(m, p) # None
  <2>1. Threshold = 0
    BY <1>2, <1>6 DEF Lstat, AboveThreshold
  <2>2. Uploaded(m)' = None \/ Uploaded(m)' = <<StatBlock>>
    BY <1>3, <1>4, <1>6 DEF Uploaded, Entry
  <2> QED BY <2>1, <2>2
<1>7. CASE Entry(m, p) # Link /\ Entry(m, p) # None
  <2>1. st = [type |-> "file", size |-> Len(File(m, p))]
    BY <1>7 DEF Lstat
  <2>2. Len(File(m, p)) > Threshold
    BY <1>2, <2>1 DEF AboveThreshold
  <2>3. Uploaded(m)' = File(m, p)
    BY <1>3, <1>4, <1>7 DEF Uploaded, Entry, File
  <2> QED BY <2>2, <2>3
<1> QED BY <1>5, <1>6, <1>7

\* Only the two calls to the cloud change an object.
LEMMA ObjectsKept ==
  ASSUME NEW m \in Machines, MachineStep(m), ~S3Put(m), ~S3Delete(m)
  PROVE  UNCHANGED cloud
<1>1. ASSUME NEW p \in Paths,
             \/ Mknod(m, p) \/ Unlink(m, p)
             \/ \E n \in 0..MaxLen : Truncate(m, p, n)
             \/ \E h \in Handles, flags \in LT!LockTypes : Open(m, h, p, flags)
      PROVE  UNCHANGED cloud
  BY <1>1 DEF Mknod, Unlink, Truncate, Open
<1>2. ASSUME NEW h \in Handles,
             \/ Release(m, h)
             \/ \E offset \in 0..(MaxLen - 1), b \in Blocks : Write(m, h, offset, b)
      PROVE  UNCHANGED cloud
  BY <1>2 DEF Release, Write
<1>3. CASE \/ LockGranted(m) \/ LockGivenUp(m) \/ OpenUnlinks(m) \/ OpenFetches(m)
           \/ OpenReturns(m) \/ OpenFails(m)
  BY <1>3 DEF LockGranted, LockGivenUp, OpenUnlinks, OpenFetches, OpenReturns, OpenFails
<1>4. CASE \/ UnlinkMeta(m) \/ WriteMeta(m) \/ UnlinkTmp(m) \/ Symlink(m) \/ Unlock(m)
           \/ UnlinkEntry(m) \/ Crash(m)
  BY <1>4 DEF UnlinkMeta, WriteMeta, UnlinkTmp, Symlink, Unlock, UnlinkEntry, Crash
<1> QED BY <1>1, <1>2, <1>3, <1>4 DEF MachineStep, HandlerStep

LEMMA BigStep ==
  ASSUME Formed, UploadsAreBig, CloudObjectsAreBig, [Next]_vars
  PROVE  UploadsAreBig' /\ CloudObjectsAreBig'
<1>1. CASE UNCHANGED vars
  BY <1>1 DEF vars, UploadsAreBig, CloudObjectsAreBig, At, Uploaded, Entry, File
<1>2. ASSUME NEW m \in Machines, MachineStep(m)
      PROVE  UploadsAreBig' /\ CloudObjectsAreBig'
  <2>1. ASSUME NEW l \in Machines, At(l, "put")'
        PROVE  (Uploaded(l) = None \/ Len(Uploaded(l)) > Threshold)'
    <3>1. CASE l = m
      BY <1>2, <2>1, <3>1, OnlyReleasePuts, ReleaseUploadsBig
    <3>2. CASE l # m
      <4>1. Local(l)' = Local(l)
        BY <1>2, <3>2, OthersKeep
      <4>2. At(l, "put") /\ Uploaded(l)' = Uploaded(l)
        BY <2>1, <4>1 DEF Local, At, Uploaded, Entry, File
      <4> QED BY <4>2 DEF UploadsAreBig
    <3> QED BY <3>1, <3>2
  <2>2. CloudObjectsAreBig'
    <3>1. CASE S3Put(m)
      BY <3>1 DEF S3Put, At, UploadsAreBig, CloudObjectsAreBig, Formed, TypeOK
    <3>2. CASE S3Delete(m)
      BY <3>2 DEF S3Delete, CloudObjectsAreBig, Formed, TypeOK
    <3>3. CASE ~S3Put(m) /\ ~S3Delete(m)
      <4>1. UNCHANGED cloud
        BY <1>2, <3>3, ObjectsKept
      <4> QED BY <4>1 DEF CloudObjectsAreBig
    <3> QED BY <3>1, <3>2, <3>3
  <2> QED BY <2>1, <2>2 DEF UploadsAreBig
<1> QED BY <1>1, <1>2, NextIsMachines

\* Only what exceeds the threshold is in the cloud, for any machines and any
\* threshold, with restarts, lost locks, truncates, failed transfers and full
\* disks (the branches of cloudfs_release).
THEOREM OnlyBigObjects == Spec => []CloudObjectsAreBig
<1>1. Init => UploadsAreBig /\ CloudObjectsAreBig
  BY DEF Init, UploadsAreBig, CloudObjectsAreBig, At
<1>2. Formed /\ (UploadsAreBig /\ CloudObjectsAreBig) /\ [Next]_vars
        => (UploadsAreBig /\ CloudObjectsAreBig)'
  BY BigStep
<1> QED BY <1>1, <1>2, AlwaysFormed, PTL DEF Spec

(***************************************************************************)
(* Objects are files.                                                       *)
(***************************************************************************)
Clean(c) == \A i \in DOMAIN c : c[i] # StatBlock

\* No file of a machine, open or not, has the struct stat of a metadata file in it.
FilesClean(m) ==
  /\ \A p \in Paths : Entry(m, p) \in Contents => Clean(Entry(m, p))
  /\ \A h \in Handles : fh[m][h] # None => Clean(fh[m][h].file)

DataClean == CloudHoldsFileData /\ \A m \in Machines : FilesClean(m)

\* What a release uploads is the file of a session, not the target of its link.
UploadsFollowNoLink ==
  \A m \in Machines : At(m, "put") => Entry(m, cur[m].path) # Link

\* A link is found by the lstat of a release only where another session of the
\* machine has closed the file, and is above a threshold of 0 only.
LinksStay == OpenOnce \/ Threshold > 0

LEMMA EditsClean ==
  ASSUME NEW c \in Contents, Clean(c)
  PROVE  /\ \A n \in Nat : Clean(Resized(c, n))
         /\ \A n \in 0..Len(c) : Clean(SubSeq(c, 1, n))
         /\ \A offset \in Nat, b \in Blocks : Clean(Written(c, offset, b))
<1>1. \A n \in Nat : Clean(Resized(c, n))
  BY DistinctAssumption DEF Clean, Resized, Contents
<1>2. \A n \in 0..Len(c) : Clean(SubSeq(c, 1, n))
  BY DEF Clean, Contents
<1>3. ASSUME NEW offset \in Nat, NEW b \in Blocks
      PROVE  Clean(Written(c, offset, b))
  <2> DEFINE n == IF offset < Len(c) THEN Len(c) ELSE offset + 1
  <2>1. n \in Nat
    BY DEF Contents
  <2>2. Clean(Resized(c, n)) /\ Resized(c, n) \in Contents
    BY <1>1, <2>1, ResizedType
  <2> HIDE DEF n
  <2>3. Clean([Resized(c, n) EXCEPT ![offset + 1] = b])
    BY <2>2, DistinctAssumption DEF Clean, Contents
  <2> QED BY <2>3 DEF Written, n
<1> QED BY <1>1, <1>2, <1>3

\* A machine whose files stay the same keeps them clean.
LEMMA SameFilesClean ==
  ASSUME NEW m \in Machines, FilesClean(m),
         \A p \in Paths : Entry(m, p)' \in Contents => Entry(m, p)' = Entry(m, p),
         \A h \in Handles : fh'[m][h] # None => fh[m][h] # None /\ fh'[m][h].file = fh[m][h].file
  PROVE  FilesClean(m)'
BY DEF FilesClean

LEMMA CleanMachine ==
  ASSUME Sound, DataClean, NEW m \in Machines, MachineStep(m)
  PROVE  FilesClean(m)'
<1>0. Formed /\ HandlerMatches(m) /\ NamesMatch(m) /\ FilesClean(m)
  BY DEF Sound, HandlesMatch, DataClean
<1> USE <1>0
<1>1. ASSUME NEW p \in Paths, Mknod(m, p)
      PROVE  FilesClean(m)'
  BY <1>1 DEF Mknod, SetEntry, Entry, FilesClean, Clean, Formed, TypeOK
<1>2. ASSUME NEW p \in Paths, NEW n \in 0..MaxLen, Truncate(m, p, n)
      PROVE  FilesClean(m)'
  <2>1. n \in Nat
    BY CloudFSAssumption
  <2>2. ASSUME NEW q \in Paths, Entry(m, q)' \in Contents
        PROVE  Clean(Entry(m, q)')
    <3>1. Entry(m, q)' = Entry(m, q) \/
            (Entry(m, q) \in Contents /\ Entry(m, q)' = Resized(Entry(m, q), n))
      BY <1>2, TruncateKeeps
    <3> QED BY <2>1, <2>2, <3>1, EditsClean DEF FilesClean
  <2>3. ASSUME NEW h \in Handles, fh'[m][h] # None
        PROVE  Clean(fh'[m][h].file)
    <3>1. fh[m][h] # None
      BY <1>2, <2>3, TruncateKeeps DEF SameHandle
    <3>2. fh[m][h].file \in Contents /\ Clean(fh[m][h].file)
      BY <3>1 DEF FilesClean, Formed, TypeOK, FileHandlers
    <3>3. fh'[m][h].file = fh[m][h].file \/ fh'[m][h].file = Resized(fh[m][h].file, n)
      BY <1>2, TruncateKeeps
    <3> QED BY <2>1, <3>2, <3>3, EditsClean
  <2> QED BY <2>2, <2>3 DEF FilesClean
<1>3. ASSUME NEW h \in Handles, NEW offset \in 0..(MaxLen - 1), NEW b \in Blocks,
             Write(m, h, offset, b)
      PROVE  FilesClean(m)'
  <2>1. /\ UNCHANGED ssd /\ fh[m][h] \in FileHandlers
        /\ \A g \in Handles \ {h} : fh'[m][g] = fh[m][g]
        /\ fh'[m][h].file = Written(fh[m][h].file, offset, b)
    BY <1>3, WriteKeeps
  <2>2. offset \in Nat
    BY CloudFSAssumption
  <2>3. fh[m][h].file \in Contents /\ Clean(fh[m][h].file)
    BY <2>1, DistinctAssumption DEF FilesClean, FileHandlers
  <2>4. Clean(fh'[m][h].file)
    BY <2>1, <2>2, <2>3, EditsClean
  <2> QED BY <2>1, <2>4 DEF FilesClean, Entry
<1>4. CASE \/ \E p \in Paths :
                \/ Unlink(m, p)
                \/ \E h \in Handles, flags \in LT!LockTypes : Open(m, h, p, flags)
           \/ \E h \in Handles : Release(m, h)
           \/ LockGranted(m) \/ LockGivenUp(m) \/ OpenReturns(m) \/ UnlinkMeta(m) \/ WriteMeta(m)
  <2>1. UNCHANGED <<ssd, fh>>
    BY <1>4 DEF Unlink, Open, Release, LockGranted, LockGivenUp, OpenReturns, UnlinkMeta, WriteMeta
  <2> QED BY <2>1, SameFilesClean DEF Entry
<1>5. CASE OpenFetches(m)
  <2> DEFINE object == cloud[CurKey(m)]
             f      == fh'[m][cur[m].handle]
  <2>1. CurKey(m) \in Keys /\ cur[m].handle \in Handles /\ cur[m].path \in Paths
    BY <1>5, FetchedMakes
  <2>2. object # None => object \in Contents /\ Clean(object)
    BY <2>1 DEF DataClean, CloudHoldsFileData, Clean, Formed, TypeOK
  <2>3. \/ f.file = IF object = None THEN <<>> ELSE object
        \/ object # None /\ \E n \in 0..Len(object) : f.file = SubSeq(object, 1, n)
    BY <1>5, FetchedMakes
  <2> HIDE DEF object, f
  <2>4. Clean(f.file)
    <3>1. Clean(<<>>)
      BY DEF Clean
    <3> QED BY <2>2, <2>3, <3>1, EditsClean
  <2>5. /\ \A h \in Handles \ {cur[m].handle} : fh'[m][h] = fh[m][h]
        /\ \A p \in Paths :
             Entry(m, p)' = IF p = cur[m].path THEN cur[m].handle ELSE Entry(m, p)
    BY <1>5, FetchedMakes
  <2> QED BY <2>1, <2>4, <2>5, DistinctAssumption DEF FilesClean, f
<1>6. CASE OpenFails(m) \/ Unlock(m) \/ Crash(m)
  <2>1. PICK hs \in SUBSET Handles :
          /\ \A h \in Handles : fh'[m][h] = IF h \in hs THEN None ELSE fh[m][h]
          /\ \A p \in Paths :
               Entry(m, p)' = IF Entry(m, p) \in hs THEN fh[m][Entry(m, p)].file ELSE Entry(m, p)
    BY <1>6, ClosedMakes
  <2>2. \A p \in Paths : Entry(m, p) \in hs => Clean(fh[m][Entry(m, p)].file)
    BY DistinctAssumption DEF FilesClean, Formed, HandlesAreLive
  <2> QED BY <2>1, <2>2 DEF FilesClean
<1>7. CASE S3Delete(m) \/ S3Put(m)
  <2>1. UNCHANGED ssd /\ \A h \in Handles : SameSession(m, h)
    BY <1>7, PublishedKeeps DEF S3Delete, S3Put, At
  <2> QED BY <2>1, SameFilesClean DEF Entry, SameSession, SameHandle
<1>8. CASE OpenUnlinks(m) \/ UnlinkTmp(m) \/ Symlink(m) \/ UnlinkEntry(m)
  <2>1. cur[m].path \in Paths /\ UNCHANGED fh
    BY <1>8, RunningType DEF OpenUnlinks, UnlinkTmp, Symlink, UnlinkEntry, At
  <2>2. \A p \in Paths : Entry(m, p)' = Entry(m, p) \/ Entry(m, p)' \in {None, Link}
    BY <1>8, <2>1 DEF OpenUnlinks, UnlinkTmp, Symlink, UnlinkEntry, SetEntry, Entry, Formed, TypeOK
  <2> QED BY <2>1, <2>2, SameFilesClean, DistinctAssumption
<1> QED BY <1>1, <1>2, <1>3, <1>4, <1>5, <1>6, <1>7, <1>8 DEF MachineStep, HandlerStep

LEMMA ReleaseFollowsNoLink ==
  ASSUME Sound, LinksStay, NEW m \in Machines, NEW h \in Handles, Release(m, h), At(m, "put")'
  PROVE  (Entry(m, cur[m].path) # Link)'
<1> PICK p : p = fh[m][h].path
  OBVIOUS
<1>1. /\ fh[m][h] \in FileHandlers /\ p \in Paths /\ pc[m] = "idle" /\ UNCHANGED ssd
      /\ cur'[m].path = p /\ ReleaseStep(fh[m][h], Lstat(m, p)) = "put"
  BY ReleaseMakes DEF Sound, At
<1>2. CASE Threshold > 0
  <2>1. AboveThreshold(Lstat(m, p))
    BY <1>1 DEF ReleaseStep, FileHandlers
  <2>2. Entry(m, p) # Link
    BY <1>2, <2>1, DistinctAssumption DEF AboveThreshold, Lstat
  <2> QED BY <1>1, <2>2 DEF Entry
<1>3. CASE OpenOnce
  <2>1. Entry(m, p) = h
    BY <1>1, <1>3, DistinctAssumption DEF OpenOnce, FilesNamed
  <2> QED BY <1>1, <2>1, DistinctAssumption DEF Entry
<1> QED BY <1>2, <1>3, CloudFSAssumption DEF LinksStay

LEMMA CleanStep ==
  ASSUME Sound, LinksStay, UploadsFollowNoLink, DataClean, [Next]_vars
  PROVE  UploadsFollowNoLink' /\ DataClean'
<1>1. CASE UNCHANGED vars
  BY <1>1 DEF vars, UploadsFollowNoLink, DataClean, FilesClean, CloudHoldsFileData, At, Entry
<1>2. ASSUME NEW m \in Machines, MachineStep(m)
      PROVE  UploadsFollowNoLink' /\ DataClean'
  <2>0. Formed
    BY DEF Sound
  <2>1. ASSUME NEW l \in Machines, l # m
        PROVE  FilesClean(l)' /\ (At(l, "put")' => (Entry(l, cur[l].path) # Link)')
    <3>1. Local(l)' = Local(l)
      BY <1>2, <2>0, <2>1, OthersKeep
    <3> QED BY <3>1 DEF Local, FilesClean, DataClean, UploadsFollowNoLink, At, Entry
  <2>2. At(m, "put")' => (Entry(m, cur[m].path) # Link)'
    BY <1>2, <2>0, OnlyReleasePuts, ReleaseFollowsNoLink
  <2>3. CloudHoldsFileData'
    <3>1. CASE S3Put(m)
      <4>1. cur[m].path \in Paths /\ CurKey(m) \in Keys /\ Entry(m, cur[m].path) # Link
        BY <2>0, <3>1, RunningType DEF S3Put, At, UploadsFollowNoLink
      <4>2. ASSUME Uploaded(m) # None
            PROVE  Clean(Uploaded(m))
        <5> PICK p \in Paths : p = cur[m].path
          BY <4>1
        <5>1. Uploaded(m) = File(m, p) /\ Entry(m, p) \notin {None, Link}
          BY <4>1, <4>2 DEF Uploaded
        <5>2. CASE Entry(m, p) \in Handles
          BY <2>0, <5>1, <5>2, DistinctAssumption
          DEF File, DataClean, FilesClean, Formed, HandlesAreLive
        <5>3. CASE Entry(m, p) \notin Handles
          <6>1. Entry(m, p) \in Contents
            BY <2>0, <5>1, <5>3 DEF Formed, TypeOK, Entry, Entries
          <6> QED BY <5>1, <5>3, <6>1 DEF File, DataClean, FilesClean
        <5> QED BY <5>2, <5>3
      <4> QED BY <2>0, <3>1, <4>1, <4>2
              DEF S3Put, DataClean, CloudHoldsFileData, Clean, Formed, TypeOK
    <3>2. CASE S3Delete(m)
      BY <2>0, <3>2 DEF S3Delete, DataClean, CloudHoldsFileData, Formed, TypeOK
    <3>3. CASE ~S3Put(m) /\ ~S3Delete(m)
      <4>1. UNCHANGED cloud
        BY <1>2, <3>3, ObjectsKept
      <4> QED BY <4>1 DEF DataClean, CloudHoldsFileData
    <3> QED BY <3>1, <3>2, <3>3
  <2> QED BY <1>2, <2>1, <2>2, <2>3, CleanMachine DEF UploadsFollowNoLink, DataClean
<1> QED BY <1>1, <1>2, NextIsMachines

\* An object is a file and never the struct stat behind a link, whatever goes wrong,
\* unless the threshold is 0 and a machine has a file open twice: then the second of
\* two closes finds the link of the first (s3_cloudfs_put, which opens the name).
THEOREM ObjectsAreFiles ==
  ASSUME ~Shared \/ Threshold > 0 PROVE Spec => []CloudHoldsFileData
<1>1. Spec => []LinksStay
  <2>1. CASE ~Shared
    <3>1. OpenOnce => LinksStay
      BY DEF LinksStay
    <3> QED BY <2>1, <3>1, AlwaysOnce, PTL
  <2>2. CASE Threshold > 0
    <3>1. LinksStay
      BY <2>2 DEF LinksStay
    <3> QED BY <3>1, PTL
  <2> QED BY <2>1, <2>2
<1>2. Init => UploadsFollowNoLink /\ DataClean
  <2> SUFFICES ASSUME Init PROVE UploadsFollowNoLink /\ DataClean
    OBVIOUS
  <2>1. UploadsFollowNoLink /\ CloudHoldsFileData
    BY DEF Init, UploadsFollowNoLink, CloudHoldsFileData, At
  <2>2. \A m \in Machines : FilesClean(m)
    BY DistinctAssumption DEF Init, FilesClean, Entry
  <2> QED BY <2>1, <2>2 DEF DataClean
<1>3. Sound /\ LinksStay /\ (UploadsFollowNoLink /\ DataClean) /\ [Next]_vars
        => (UploadsFollowNoLink /\ DataClean)'
  BY CleanStep
<1>4. DataClean => CloudHoldsFileData
  BY DEF DataClean
<1> QED BY <1>1, <1>2, <1>3, <1>4, AlwaysSound, PTL DEF Spec

(***************************************************************************)
(* Big files leave the SSD.                                                 *)
(***************************************************************************)
\* What the theorem needs: nothing cuts a session short, and only open files change.
Undisturbed == ~MayTruncate /\ Faults \cap {"open", "disk", "crash"} = {}

\* Files that are not open are small, and so is one that is being closed once its
\* name is to stay.
FilesSmall(m) ==
  /\ \A p \in Paths : Entry(m, p) \in Contents => Len(Entry(m, p)) <= Threshold
  /\ /\ pc[m] \in {"s3_delete", "unlink_meta", "unlock"}
     /\ cur[m].handle \in Handles
     /\ Entry(m, cur[m].path) = cur[m].handle
     => Len(fh[m][cur[m].handle].file) <= Threshold

LEMMA SmallMachine ==
  ASSUME Undisturbed, Sound, NEW m \in Machines, FilesSmall(m), MachineStep(m)
  PROVE  FilesSmall(m)'
<1>0. Formed /\ HandlerMatches(m) /\ NamesMatch(m)
  BY DEF Sound, HandlesMatch
<1> USE <1>0 DEF At
<1>1. ASSUME NEW p \in Paths, Mknod(m, p)
      PROVE  FilesSmall(m)'
  <2>1. pc[m] = "idle" /\ UNCHANGED pc
    BY <1>1 DEF Mknod
  <2>2. ASSUME NEW q \in Paths
        PROVE  Entry(m, q)' = Entry(m, q) \/ Entry(m, q)' = <<>>
    BY <1>1 DEF Mknod, SetEntry, Entry, Formed, TypeOK
  <2>3. Len(<<>>) <= Threshold
    BY CloudFSAssumption
  <2> QED BY <2>1, <2>2, <2>3 DEF FilesSmall
<1>2. ASSUME NEW p \in Paths, NEW n \in 0..MaxLen
      PROVE  ~Truncate(m, p, n)
  BY DEF Truncate, Undisturbed
<1>3. ASSUME NEW p \in Paths,
             Unlink(m, p) \/ \E h \in Handles, flags \in LT!LockTypes : Open(m, h, p, flags)
      PROVE  FilesSmall(m)'
  <2>1. UNCHANGED <<ssd, fh>>
    BY <1>3 DEF Unlink, Open
  <2>2. pc'[m] = "acquire" \/ cur'[m].handle = None
    BY <1>3 DEF Unlink, Open, Enter, Formed, TypeOK
  <2> QED BY <2>1, <2>2, DistinctAssumption DEF FilesSmall, Entry
<1>4. ASSUME NEW h \in Handles, NEW offset \in 0..(MaxLen - 1), NEW b \in Blocks,
             Write(m, h, offset, b)
      PROVE  FilesSmall(m)'
  <2>1. pc[m] = "idle" /\ UNCHANGED <<ssd, pc>>
    BY <1>4, WriteKeeps
  <2> QED BY <2>1 DEF FilesSmall, Entry
<1>5. ASSUME NEW h \in Handles, Release(m, h)
      PROVE  FilesSmall(m)'
  <2> PICK p : p = fh[m][h].path
    OBVIOUS
  <2>1. /\ UNCHANGED <<ssd, fh>> /\ fh[m][h] \in FileHandlers
        /\ pc'[m] = ReleaseStep(fh[m][h], Lstat(m, p))
        /\ cur'[m].path = p /\ cur'[m].handle = h
    BY <1>5, ReleaseMakes
  <2>2. ASSUME Entry(m, p) = h, pc'[m] \in {"s3_delete", "unlink_meta", "unlock"}
        PROVE  Len(fh[m][h].file) <= Threshold
    <3>1. Lstat(m, p) = [type |-> "file", size |-> Len(fh[m][h].file)]
      BY <2>2, DistinctAssumption DEF Lstat, File
    <3>2. Len(fh[m][h].file) \in Nat
      BY <2>1 DEF FileHandlers, Contents
    <3>3. Lstat(m, p) # None
      BY <3>1, <3>2, DistinctAssumption DEF Stats
    <3>4. ~AboveThreshold(Lstat(m, p))
      BY <2>1, <2>2, <3>3 DEF ReleaseStep, FileHandlers
    <3> QED BY <3>1, <3>2, <3>4, CloudFSAssumption DEF AboveThreshold
  <2> QED BY <2>1, <2>2 DEF FilesSmall, Entry
<1>6. CASE \/ LockGranted(m) \/ LockGivenUp(m) \/ OpenReturns(m)
  <2>1. UNCHANGED ssd /\ pc'[m] \in {"unlink", "idle"}
    BY <1>6 DEF LockGranted, LockGivenUp, OpenReturns, Goto, Return, Formed, TypeOK
  <2> QED BY <2>1 DEF FilesSmall, Entry
<1>7. CASE OpenFetches(m)
  <2>1. /\ cur[m].handle \in Handles /\ pc'[m] = "open"
        /\ \A p \in Paths :
             Entry(m, p)' = IF p = cur[m].path THEN cur[m].handle ELSE Entry(m, p)
    BY <1>7, FetchedMakes
  <2> QED BY <2>1, DistinctAssumption DEF FilesSmall
<1>8. CASE Unlock(m)
  <2>1. PICK hs \in SUBSET Handles :
          /\ hs = {cur[m].handle} \/ Crash(m)
          /\ pc'[m] = "idle"
          /\ \A p \in Paths :
               Entry(m, p)' = IF Entry(m, p) \in hs THEN fh[m][Entry(m, p)].file ELSE Entry(m, p)
    BY <1>8, ClosedMakes
  <2>2. ~Crash(m)
    BY DEF Crash, Fault, Undisturbed
  <2>3. ASSUME NEW p \in Paths, Entry(m, p) \in hs
        PROVE  Len(fh[m][Entry(m, p)].file) <= Threshold
    <3>1. Entry(m, p) = cur[m].handle /\ cur[m].handle \in Handles
      BY <2>1, <2>2, <2>3
    <3>2. fh[m][cur[m].handle].path = p /\ fh[m][cur[m].handle].path = cur[m].path
      BY <1>8, <3>1, DistinctAssumption DEF Unlock, NamesMatch, HandlerMatches, Done
    <3> QED BY <1>8, <3>1, <3>2 DEF Unlock, FilesSmall
  <2> QED BY <2>1, <2>3 DEF FilesSmall
<1>9. CASE OpenFails(m) \/ Crash(m)
  BY <1>9 DEF OpenFails, Crash, Fault, Undisturbed
<1>10. CASE S3Delete(m) \/ S3Put(m)
  <2>1. UNCHANGED <<ssd, cur>> /\ \A h \in Handles : SameSession(m, h)
    BY <1>10, PublishedKeeps DEF S3Delete, S3Put, Goto
  <2>2. pc'[m] = "write_meta" \/ (pc[m] = "s3_delete" /\ pc'[m] = "unlink_meta")
    BY <1>10 DEF S3Delete, S3Put, Goto, Formed, TypeOK
  <2> QED BY <2>1, <2>2 DEF FilesSmall, Entry, SameSession
<1>11. CASE UnlinkMeta(m)
  <2>1. UNCHANGED <<ssd, fh, cur>> /\ pc[m] = "unlink_meta"
    BY <1>11 DEF UnlinkMeta, Goto
  <2> QED BY <2>1 DEF FilesSmall, Entry
<1>12. CASE WriteMeta(m)
  <2>1. UNCHANGED ssd /\ pc'[m] = "unlink_tmp"
    BY <1>12 DEF WriteMeta, Fault, Undisturbed, Goto, Formed, TypeOK
  <2> QED BY <2>1 DEF FilesSmall, Entry
<1>13. CASE OpenUnlinks(m) \/ UnlinkTmp(m) \/ Symlink(m) \/ UnlinkEntry(m)
  <2>1. cur[m].path \in Paths
    BY <1>13, RunningType DEF OpenUnlinks, UnlinkTmp, Symlink, UnlinkEntry
  <2>2. \A p \in Paths :
          \/ Entry(m, p)' \in {None, Link}
          \/ p # cur[m].path /\ Entry(m, p)' = Entry(m, p)
    BY <1>13, <2>1 DEF OpenUnlinks, UnlinkTmp, Symlink, UnlinkEntry, SetEntry, Entry, Formed, TypeOK
  <2>3. pc'[m] \in {"get", "symlink", "idle"} \/ (pc'[m] = "unlock" /\ cur' = cur)
    BY <1>13 DEF OpenUnlinks, UnlinkTmp, Symlink, UnlinkEntry, Goto, Return, Formed, TypeOK
  <2>4. ASSUME pc'[m] = "unlock" /\ cur' = cur
        PROVE  (Entry(m, cur[m].path) \in {None, Link})'
    BY <2>1, <2>2, <2>4 DEF Entry
  <2> QED BY <2>2, <2>3, <2>4, DistinctAssumption DEF FilesSmall
<1> QED BY <1>1, <1>2, <1>3, <1>4, <1>5, <1>6, <1>7, <1>8, <1>9, <1>10, <1>11, <1>12, <1>13
        DEF MachineStep, HandlerStep

LEMMA SmallStep ==
  ASSUME Undisturbed
  PROVE  Sound /\ (\A m \in Machines : FilesSmall(m)) /\ [Next]_vars
           => (\A m \in Machines : FilesSmall(m))'
<1> SUFFICES ASSUME Sound, \A m \in Machines : FilesSmall(m), [Next]_vars, NEW l \in Machines
             PROVE  FilesSmall(l)'
  OBVIOUS
<1>1. CASE UNCHANGED vars
  BY <1>1 DEF vars, FilesSmall, Entry
<1>2. ASSUME NEW m \in Machines, MachineStep(m)
      PROVE  FilesSmall(l)'
  <2>1. CASE l # m
    <3>1. Local(l)' = Local(l)
      BY <1>2, <2>1, OthersKeep DEF Sound
    <3> QED BY <3>1 DEF Local, FilesSmall, Entry
  <2> QED BY <1>2, <2>1, SmallMachine
<1> QED BY <1>1, <1>2, NextIsMachines

\* A file above the threshold does not stay on the SSD after it was closed, on any
\* machines, with or without the lock, however often a machine has it open, and when
\* transfers fail (the three ways out of cloudfs_release).
THEOREM BigFilesLeave ==
  ASSUME Undisturbed PROVE Spec => []BigFilesOffSSD
<1>1. Init => \A m \in Machines : FilesSmall(m)
  <2> SUFFICES ASSUME Init, NEW m \in Machines PROVE FilesSmall(m)
    OBVIOUS
  <2> QED BY DistinctAssumption DEF Init, FilesSmall, Entry
<1>2. Sound /\ (\A m \in Machines : FilesSmall(m)) => BigFilesOffSSD
  <2> SUFFICES ASSUME Sound, NEW m \in Machines, FilesSmall(m), NEW p \in Paths,
                      ClosedOn(m, p), Entry(m, p) \notin {None, Link}
               PROVE  Len(File(m, p)) <= Threshold
    BY DEF BigFilesOffSSD
  <2>1. Entry(m, p) \notin Handles
    BY DistinctAssumption
    DEF Sound, Formed, HandlesAreLive, HandlesMatch, NamesMatch, ClosedOn, OpenOn
  <2>2. Entry(m, p) \in Contents
    BY <2>1 DEF Sound, Formed, TypeOK, Entry, Entries
  <2> QED BY <2>1, <2>2 DEF File, FilesSmall
<1> QED BY <1>1, <1>2, SmallStep, AlwaysSound, PTL DEF Spec
=============================================================================
