# CloudFS in TLA+

A verification project for cloudfs, a FUSE file system that keeps small files on
a local SSD and moves large ones to an S3 cloud, with a lock service that lets
several machines share a bucket, and for the S3 command line tool that comes
with it. It consists of TLA+ modules translated from the
source under `src/`, TLC configurations that check them on small instances, and
proofs checked by TLAPS. `PROJECT.json` lists the runs, the theorems, the lines
each definition models and the hazards of the code.

## 1. Inventory

### 1.1 Components

| component | source | state | operations | model |
|---|---|---|---|---|
| data path | `cloudfs/cloudfs.c`, `cloudfs/s3_cloudfs.c` | names on the SSD, metadata files, `fh_t` handlers, objects in the bucket | mknod, truncate, getattr, open, write, release, unlink | `CloudFS` |
| lock client | `cloudfs/cloudfs.c`, RPC stubs | `machine`, `version`, `skip`, the locals of a wrapper | `acquire_lock_wrapper`, `release_lock_wrapper` | `LockService` |
| lock server | not in the repository | lock table | `acquire_1`, `release_1` | `LockTable`, external |
| name space | `cloudfs/cloudfs.c`, `cloudfs/main.c`, `get_key` | directories, entries with their stat, open files and directories, descriptors, `metadata_path`, `skip` | mount, unmount, mkdir, rmdir, opendir, readdir, releasedir, mknod, utimens, unlink, open, write, flush, release, rename as libfuse uses it, the stubs | `Names` |
| cloud API | `cloud-lib/cloudapi.c`, `cloudfs/s3_cloudfs.c` | `statusG`, callback data, `infile`, `outfile` | put, get, delete, list bucket, create and delete bucket, list service | `CloudApi` |
| S3 tool | `s3-client/src/s3.c` | `statusG`, `retriesG`, callback data, the growbuffer, local files | put, get, head, copy, delete, list, test, create and delete bucket, list service, getacl, setacl, getlogging, setlogging | `S3Program` and the modules it is made of |
| libs3, S3 server | library | the bucket | requests | external, in `CloudApi`, `S3Requests`, `S3Client`, `S3Acl` and `CloudFS` |
| Rabin segmentation | `dedup-lib` | `rabinpoly_t` | `rabin_init`, `rabin_segment_next`, `rabin_reset` | `Rabin` |
| option syntax, usage texts, TCP lock client, XDR code, scripts | | | | see section 7 |

### 1.2 How they interact

The kernel serialises calls of one process: FUSE is started with `-s`, so a
handler runs to its end before the next starts, and blocks inside its RPC and
its cloud requests. There are no threads. Concurrency is between *machines*:
each runs its own process over its own SSD, and they share the bucket and the
lock server. `cloudfs_open` calls `acquire_lock_wrapper`, unlinks the name, calls
`s3_cloudfs_get` and opens the file; `cloudfs_release` calls `s3_cloudfs_put` or
`s3_delete`, updates metadata and name, and calls `release_lock_wrapper`.
`cloudfs_unlink` deletes without a lock. `getattr` never asks the cloud: it reads
the `struct stat` a proxy links to. `s3_cloudfs.c` hands callbacks to
`cloudapi.c`, which hands its own to libs3. libfuse and the kernel sit between
applications and the handlers: they look a name up before they use it, and
libfuse removes an open file by renaming it, which `cloudfs_rename` only pretends
to do.

The S3 tool is a program of its own. Each run is one command: `main` parses the
options, the command makes a request through libs3 with its callbacks, and
makes it again while `should_retry` allows. It shares the bucket with
everybody else, and local files with its user.

### 1.3 What is hard, and what makes it correct

* **Data path.** A file moves through several system calls and cloud calls;
  other machines act, or this one stops, between any two. Correct: a session sees
  what was last published and publishes whole what it wrote (close-to-open
  consistency); no update is lost; `ls` is right without the cloud; nothing is
  stored twice or leaked; every handler ends.
* **Lock client.** RPC over UDP: requests are lost, repeated and late, each
  call times out, and an open goes on without its lock after `MAXBLOCK`
  attempts. Correct: locks that were granted exclude each other, no close leaks
  a lock or gives back one that is not its own, no wrapper hangs.
* **Cloud API.** Transfers are cut into buffers of libs3's choosing and fail at
  any of them; a listing takes several requests while the bucket changes.
  Correct: objects are replaced whole, success means the whole object, a listing
  names every key that stays once.
* **Name space.** Names, their entries, metadata by key, objects and locks are
  five tables that handlers change together; paths may share a key, files are
  removed while they are open, directories while they are listed. Correct: stat
  shows the last session that wrote, removing every name empties the bucket,
  a listing is one of the directory that was opened, locks stay accounted for.
* **S3 tool.** Retries start a request again with callback data that are not
  reset; answers get lost after the server acted; access lists travel through a
  text file that the user edits. Correct: a command has its whole effect or
  none on its own object, and says "done" only if it was; get leaves alone what
  it did not receive; a listing is complete and without repetition; a list set
  back is the one the user saw; every command ends.
* **Rabin.** The state carries over between calls and is updated incrementally
  through tables. Correct: cuts depend on the bytes in the window and the sizes
  only, and segments keep within their bounds.

## 2. Modules

| module | what it is |
|---|---|
| `LockTable` | the lock table of the server, its effects and answers, as operators |
| `LockService` | wrappers, RPC network, sessions, restarts; composes with `LockTable` (EXTENDS) |
| `LockServiceProofs` | types, and mutual exclusion with both servers; the table of the counting server agrees with the sessions |
| `CloudFS` | SSDs, metadata, bucket, handlers and locks of all machines, and how they map to `SessionStore`; uses `LockTable` (INSTANCE) |
| `CloudFSProofs` | type correctness of `CloudFS`, and what is where: only big files are in the cloud, objects are files, big files leave the SSD |
| `CloudFSStoreProofs` | what applications see: no update is lost, the refinement of `SessionStore`, sizes, metadata and opens; extends `CloudFSProofs` |
| `SessionStore` | the abstract specification: close-to-open consistency without SSDs, proxies or locks |
| `Names` | names, attributes, handles, keys and mounting of one cloudfs; uses `LockTable` (INSTANCE) |
| `NamesProofs` | types, and all properties of `Names` |
| `CloudApi` | requests to the cloud with their callbacks, failures and other machines |
| `CloudApiProofs` | types; puts and gets of `CloudApi` are whole, listings exact |
| `S3Requests` | what the commands of the tool share: start, retries, end |
| `S3Client` | the commands about objects, buckets and listings; extends `S3Requests` |
| `ObjectStore` | the abstract specification: a bucket whose commands have one effect each |
| `S3ClientProofs` | every step of `S3Client` is a step of `ObjectStore`; what get leaves in its file; listings of the tool |
| `S3Acl` | the commands about access lists and logging, with the text they go through; extends `S3Requests` |
| `GrowBuffer` | the ring of blocks behind standard input, as operators |
| `S3Program` | the tool as a whole: composes `S3Client`, `S3Acl` and `GrowBuffer` |
| `S3ProgramProofs` | what the folds of `GrowBuffer` and of the parser in `S3Acl` compute; the growbuffer holds the rest of a put, a set sends what a get showed; what `S3ClientProofs` shows also holds in the whole tool; types; extends `S3ClientProofs` |
| `Rabin` | fingerprint tables, circular buffer, segmentation |
| `RabinProofs` | the bounds on segment sizes, the fingerprint, the cuts |
| `MCLockService`, `MCCloudFS`, `MCNames`, `MCCloudApi`, `MCS3Program`, `MCRabin` | values for TLC, symmetry |

Operators whose comment begins with "Mistake:" (`ReleaseUploadsOnce`, `BoundaryPastMaximum`, ...)
are wrong versions of the definition that follows them; PROJECT.json names the
property each of them breaks.

### 2.1 CloudFS

| variable | code |
|---|---|
| `ssd[m][p]` | the entry of a path in the SSD: absent, symbolic link to its metadata, a file with its contents, or the file that a handle has open |
| `meta[m][k]` | the metadata file of a key (`metadata_path`): a `struct stat`, absent, or truncated to nothing |
| `cloud[k]` | the object under the key |
| `fh[m][h]` | `fh_t`: `proxy`, `dirty`, and the file behind `fd`; `base` and `changed` are history |
| `pc[m]`, `cur[m]` | the next system, cloud or lock call of the running handler; its arguments and locals |
| `skip[m]`, `locks[k]` | the flag of the lock wrappers; the server's entry, a count |

| action | code |
|---|---|
| `Mknod`, `Truncate`, `Write` | the handlers of that name, one call each |
| `Open`, `LockGranted` or `LockGivenUp`, `OpenUnlinks`, `OpenFetches`, `OpenReturns` or `OpenFails` | `cloudfs_open` |
| `Release`, then `S3Delete`, `UnlinkMeta` or `S3Put`, `WriteMeta`, `UnlinkTmp`, `Symlink`, then `Unlock` | `cloudfs_release`, in the order of its branches |
| `Unlink`, `S3Delete`, `UnlinkMeta`, `UnlinkEntry` | `cloudfs_unlink` |
| `Crash` | the process ends and is started again |

Sizes are counted in blocks, the unit of the threshold. A link is longer than 0
bytes and shorter than a block, which is what `AboveThreshold` says of it. The
kernel looks a name up with getattr before it opens, removes or truncates it
(`IsFile`); attribute caching of the kernel is left out. libfuse does not
unlink a file that is open but renames it, and `cloudfs_rename` only returns 0, so
such a removal does nothing. The outcome of a transfer in `OpenFetches` and
`S3Put` is what `CloudApi` shows it can be (`GetsWhole`, `PutsWhole`).

### 2.2 LockService

`version`, `skip` and `call` are the variables and locals of the code; `sessions`
are the open files; `replies` and `delayed` the network; `locks` the table. An RPC
is open while `pc[m]` is `acquire` or `release`: the server may execute its
request once per copy (`ServerExecutes`), the call ends with an answer or a
timeout (`Refused`), and copies may arrive after that (`ServerExecutesDelayed`).
One disjunct of `CallReturns` per way out of the two loops. The server is not in
the repository, so both servers that its interface allows are modelled:
one that counts (`lock_item.i`), and one that tracks the identity every request
carries (`TracksOwners`).

### 2.3 CloudApi

One call at a time (`call`, `running`), its callback data as a record. `PutSends`
and `GetReceives` are the data callbacks for a buffer of any size, `ListPage` the
page callback with the loop test, `Completes` the completion callback. `CreateBucket`
is what `s3_init` asks for and does not check. `Fails`
and the status of `PutCompletes` are what libs3 and the network may do;
`OthersChange` is the other machines. Keys are numbers in listing order.

### 2.4 Names

| variable | code |
|---|---|
| `mounted`, `metadir` | is the program running; the directory at `metadata_path` |
| `dirs`, `entry[f]` | directories on the SSD; a file's entry: none, the link to its metadata, a file with its stat, or the file a handle has open |
| `meta[k]`, `cloud`, `locks[k]` | metadata file, object and lock of a key |
| `fh[h]`, `dh[h]` | `fh_t` with the path FUSE uses for it; the open stream of a directory |
| `skip`, `fds` | the flag of the lock wrappers; descriptors of the process |
| `left`, `removed`, `lost` | history |

One action per handler, since one process serves one call at a time and the
cloud answers in this module; the calls of several applications interleave.
`Release` has one disjunct per branch of `cloudfs_release`. `Hide` is libfuse
renaming a file that is removed while it is open, `ReleaseHidden` the close that
follows, whose `lstat` finds nothing and whose lock release names a key that was
never locked. A listing is the stream of the handle, not the path: `there` says
whether the directory it was opened on still exists, `since` and `ever` are
history. `Ignored` are the handlers that report success and do nothing.
What several machines do to each other and how one handler's system calls
interleave with them is the matter of `CloudFS`, at another level of detail.

### 2.5 S3Program

`cmd` holds the locals and callback data of the running command, one kind of
record for each. `Starts` is `main` up to the first request; a request is answered
by the server at one moment (`PutServes`, `DeleteServes`, ...) and ends at another
(`Succeeds`, `ListEnds`, ...), so that the answer can be lost in between (`Fails`).
`Retries` and `Ends` are `should_retry`, `Again` what the failed request leaves in
the callback data: the position of the input and of the output file are not reset.
`PutSends`, `GetReceives`, `ListCallback` and `ServiceServes` are the data callbacks.
`ImplementsObjectStore` maps a running command to its intent in `ObjectStore`, which
counts the changes of others (`others`, the variable `changes` of `S3Client`): every change
that is not one of theirs is the effect of the running command, the first time and again.

`S3Program` lets commands of both modules follow each other. What they share is the process:
the running command, `statusG` and `retriesG` (`S3Requests`). A command about lists leaves
bucket and local file alone and is served while the bucket exists (`ListsGoOn`); one
about objects leaves lists and texts alone, but `create` gives a new bucket a list
(`NewLists`).

In `S3Acl` a text is a sequence of lines, a line a sequence of words and a word a
sequence of the pieces that the code tells apart: keywords, permissions, parentheses
and the constant `Names`, of which ids and display names are made. `AclText` and
`LoggingText` are what get prints; `Parsed` is `convert_simple_acl` as a fold of
`ReadLine` over the lines, and that of `Consume` over the words, a line ending being a
word. The code compares beginnings (`strncmp`), so a keyword or a permission need not be
a whole word, and what follows it is read on (`AfterKeyword`, `Permission`); a field
takes the next word, be it on the next line (`COPY_STRING`). `GetAclEnds` writes over the
file without cutting it, `UserRemoves` is the editor. `Settled` is the permission that is
never assigned when what stands in its place is none (line 651): any value.

`GrowBuffer` has one operator per function; `S3Program` fills it when put reads
standard input and empties it with every `PutSends`, at buffer boundaries that
do not coincide with its blocks.

### 2.6 Rabin

An integer is the set of its one bits, so that 64-bit words, shifts that drop
high bits and exclusive or are exact (TLC's integers have 32 bits). `polymod`,
`polymult`, `T`, `U`, `append8` and `slide8` are the functions and tables of the
code, parameterised by the width of a word and of a byte; `polymod` divides the
double word as one set instead of two halves. `rabin_segment_next` is one action
per byte (`Read`, `ReadCutting`). `stream` and `cuts` are history.

## 3. Runs

| run | instance | shows |
|---|---|---|
| `lock_reliable` | 2 processes with machine number 0, 2 keys, 2 opens, 2 attempts, one restart or failed open, counting server | granted locks exclude, the count equals the sessions |
| `lock_lossy` | 2 processes with their own numbers, 1 key, lossy network, owner-tracking server, one failed open | mutual exclusion, the inductive invariant of its proof, no wrapper hangs |
| `fs_single` | 1 machine, 2 paths, 2 handles, 2 kinds of blocks, files of 2 blocks, threshold 0 | getattr, open, metadata and SSD agree; refines `SessionStore` |
| `fs_pair` | 2 machines, 1 path | no lost update, no foreign data in objects; refines `SessionStore` |
| `fs_crash` | 2 machines, one restart anywhere, locks given up | refines `SessionStore` with sessions that may be lost |
| `fs_faults` | 1 machine, threshold 1, truncate, any two faults | every handler ends, only big files are in the cloud |
| `fs_names` | 1 machine, a directory `a`, files `/a/b` and `/a+b` with one key, 2 file handles, 1 directory handle, at most 2 lost locks | stat, objects, open files, listings and locks stay accounted for |
| `cloud_calls` | 3 keys, files of 3 bytes, buffers of 2, pages of 2, 2 foreign changes, bucket created, deleted and listed | puts and gets are whole, listings exact |
| `s3_commands` | 3 keys, inputs of none or 3 bytes, buffers, blocks and pages of 2, 1 retry, 2 commands of which the first may be about objects, 1 foreign change, 2 edits of lists and texts without objects | refines `ObjectStore`; files, listings and access lists are what the bucket held; every command ends |
| `rabin` | bytes of 2 bits, window of 3, x^4+x+1, sizes 2 to 4, streams of 7 bytes in calls of up to 3 | fingerprint equals the remainder by definition, cuts depend on contents only, sizes |

**Bounds.** Two machines are what a lock conflict, a lost update or a stale link
needs; two paths show that handlers of different files do not disturb each
other; two opens per process make an old and a new identity, and so a late
release of the first during the second; `MAXBLOCK` = 2 makes one
retransmission and one surrender. Files of two blocks are below, at and above a
threshold of one. With threshold 0 every file that is not empty goes to the cloud.
In `rabin` the window is larger than the remainder, so that the reduction
matters; the buffer wraps twice, and a minimum, a maximum and a cut by contents
all occur. `MaxVersion`, `MaxFailures`, `MaxFaults`, `MaxGrants`, `MaxLen`,
`MaxStream`, `MaxCall`, `MaxChanges`, `MaxLost`, `MaxRetries`, `MaxCommands`,
`MaxAclCommands`, `MaxEdits` and `MixedEdits` bound counters, and are named as bounds where they
are declared.

In `fs_names` the two files have one key and lie in different directories, so that
every handler meets metadata and an object that another name has left, and a
listing of `a` can be wrong about the root. Two handles open one file twice or both
files at once. In `s3_commands` an input of three bytes takes two buffers and
two blocks of the growbuffer whose ends do not coincide with those of a put that sends
one byte first; three keys take two pages; one retry is the first that finds
callback data that are not fresh. Object commands are independent of each other but
for bucket and local file; `Stock` and `OldFiles` put objects and a longer local file
there to start from, so that one command suffices; access lists need a get and a
set, with edits in between. `MixedEdits` = 0 keeps these edits to states without
objects and commands about them, which do not matter to them; with `MixedEdits` = `MaxEdits` it
bounds nothing. In the run a command about lists may follow one about objects, which may
have removed or created the bucket. The other order needs `MaxCommands` = 2, which allows two
commands about objects as well and is too much for TLC: it is covered by the proofs only,
which hold for any bounds. `MaxKeys`, `MaxGrants`, `BufferSize`, `PageSize` and `BlockSize`
are the limits of the code and of libs3, small.

**Fairness.** `LockService`: weak fairness of `CallReturns`; a `clnt_call` ends
at the latest with its timeout (`CLSET_TIMEOUT` in `cloudfs_init`), and nothing is
assumed of server or network. `CloudFS`: weak fairness of `HandlerStep`; its
calls return. `fs_faults` has `MayGiveUp`, since `acquire_lock_wrapper` does give
up. `S3Program`: weak fairness of `ObjectsGoOn` and `ListsGoOn`: libs3 ends every
request with a status, since curl has its timeouts, and the tool then goes on by
itself; that it goes on only so many times is `should_retry`, in the model.
Applications, users and other machines are not assumed to do anything.

**Deadlock** is checked except in `s3_commands`, which stops when the commands of its
bound are used up, and in `fs_crash` and `fs_faults`: after a restart in
the middle of release, or truncation of metadata, a name may be a link that
getattr fails on, and nothing can happen to it any more.

**What the runs leave out, and why.** The refinement to `SessionStore` is checked
at threshold 0, without truncate and without failing transfers, because the
code does not keep the promise otherwise: `fs_small_files` shows the first;
truncate on an open proxy does not set `dirty`, and on a closed one it cuts the
metadata; a failed upload is ignored and the copy deleted; a failed fetch makes
the file look local. `fs_pair` assumes that the lock is obtained
(`MayGiveUp` = FALSE): an open that goes on without it can lose an update by design.
All of these are in the model and are switched on in `fs_faults`.

## 4. Where the code does not do what it says

| run | property | what happens |
|---|---|---|
| `fs_small_files` | `OpenDeliversFile` | with a threshold above 0, open unlinks a file that is only on the SSD |
| `fs_dangling` | `ProxyHasMetadata` | closing a file that was only read, on a machine that never uploaded it, leaves a link to metadata that is not there |

The following is in the model, where the properties that hold say what they say with
it; but for the second word of a display name no document or test of the repository
promises otherwise. None has a run of its own.

*File system* (`cloudfs.c`)
* `skip` belongs to the process, not to the file: an open that gives up makes the
  next close of any file keep its lock.
* A new file that is open through two handles: the second close uploads the
  metadata file, behind the link the first one left, as the contents.
* A file removed while it is open comes back when it is closed, and its lock is
  never given back: libfuse renames it, and rename (line 811) does nothing.
* A second readdir through one handle finds the end of the stream and returns
  whatever `errno` was (line 716).
* utimens on a closed proxy changes the link, while getattr shows the metadata.
* Paths that share a key share contents, metadata and lock (`s3_cloudfs.c:44`).
* `metadata_path` is built from the default SSD directory before `-s` is read
  (`main.c:49`).

*S3 tool* (`s3.c`)
* list asks every page for the whole maximum (line 1230), so it may print up to a
  page more, and another page for every retry that follows a page which had arrived; without a marker it asks for what follows the text "(null)" (line 1217),
  and leaves out names before it; the keys of the models come after it (`S3ClientAssumption`).
* get does not go back in its file when it retries (line 1970), and opens an existing
  file with `r+` (line 1926), so that a tail of the old contents stays behind a shorter object.
* The number of retries is not checked (line 677); a negative one never runs out.
* Only the first word of a display name is read. A second word makes setacl refuse what
  getacl has just written, although the usage text recommends this way to change a list
  (line 319); `PlainNames` in `SetKeepsGrants` leaves such names out. One that begins
  with a dash skips the rest of the line as if it were a rule of the table, and the
  permission is never assigned (line 651); one that has a keyword like "Email" where the
  parser looks for the start of a line becomes another owner or grant.
  `SetKeepsGrants` says what holds of the grantees otherwise.
* getlogging prints the group LogDelivery as "All Users"; getacl into a longer file leaves
  the old lines behind the new ones (line 2172), and setacl applies them.
* Between getacl and setacl another user's change is lost.
* The results of `fclose` are ignored.

*Segmentation*: `dedup.h` gives the segment sizes in KB, while `rabin_segment_next`
counts bytes; `rabin_init` multiplies nothing.

## 5. Proofs

| theorem | statement |
|---|---|
| `LockServiceProofs!TypeCorrect` | `Spec => []TypeOK`, from the assumptions of the module |
| `LockServiceProofs!GrantsAreOwned`, `LocksExclude` | `Spec => []IInv` and `Spec => []MutualExclusion`, if the server tracks owners, machine numbers differ, a process has one file open at a time and is not restarted (`Assumed`) |
| `LockServiceProofs!CountsExclude`, `TableMatchesSessions` | `Spec => []MutualExclusion` and `Spec => []LocksMatchSessions`, if the server counts and the network delivers every message once (`Counting`) |
| `CloudFSProofs!TypeCorrect` | `Spec => []TypeOK`, from the assumptions of the module |
| `CloudFSProofs!OnlyBigObjects` | `Spec => []CloudObjectsAreBig`, from the same, with every fault switched on or off |
| `CloudFSProofs!ObjectsAreFiles` | `Spec => []CloudHoldsFileData`, with every fault, if the threshold is not 0 or a machine has a file open once |
| `CloudFSProofs!BigFilesLeave` | `Spec => []BigFilesOffSSD`, if nobody truncates, no open fails or runs out of disk and nothing restarts (`Undisturbed`) |
| `CloudFSStoreProofs!UpdatesAreKept` | `Spec => []PublishersAreCurrent`, with restarts, failed opens, puts and deletes, if opens get their lock and the whole object, a machine has a file open once and nobody truncates (`Orderly`) |
| `CloudFSStoreProofs!SessionStoreImplemented` | `Spec => ImplementsSessionStore`: any machines and keys, restarts, locks given up; threshold 0, a file open once per machine, no truncate, no failing transfers (`CloseToOpen`) |
| `CloudFSStoreProofs!LinksTellTheTruth`, `MetadataAndObjectsAgree` | `Spec => []GetattrTruthful` and `Spec => []MetadataMatchesCloud`, for one machine whose paths have keys of their own and no faults (`Alone`), any threshold |
| `CloudFSStoreProofs!OpensDeliver` | `Spec => []OpenDeliversFile`, if `Alone` and the threshold is 0 |
| `NamesProofs!TypeCorrect` | `Spec => []TypeOK` |
| `NamesProofs!RemovalsLeaveNothing` | `Spec => []ObjectsCanBeRemoved` |
| `NamesProofs!LastWriterShown` | `Spec => []ProxyShowsLastWriter` |
| `NamesProofs!OnlyRemovedStay` | `Spec => []OnlyRemovedFilesStay` |
| `NamesProofs!ListingsTrue` | `Spec => []ListingIsOfThisDirectory` |
| `NamesProofs!GrantsAccounted` | `Spec => []LocksAreAccountedFor`, all six for any tree, any keys and any numbers of handles |
| `CloudApiProofs!TypeCorrect`, `ListingsExact` | `Spec => []TypeOK` and `Spec => []ListsExactly`, for any keys and pages |
| `CloudApiProofs!PutsAreWhole` | `Spec => PutsWhole`, for any files and announced sizes |
| `CloudApiProofs!GetsAreWhole` | `Spec => []GetsWhole`, for any objects and buffers |
| `S3ClientProofs!ObjectStoreImplemented` | `Spec => ImplementsObjectStore`, for any keys, contents, buffers, retries and other users |
| `S3ClientProofs!GetsDeliver` | `Spec => []GetDelivers`, for any objects, ranges, old files, buffers and retries |
| `S3ClientProofs!ListingsOnce`, `ListingsNearLimit` | `Spec => []ListsOnce` and `Spec => []ListNearLimit`, for any keys, pages and retries |
| `S3ProgramProofs!GrowbuffersHoldRest` | `ProgramSpec => []GrowbufferHoldsRest`, for any inputs, blocks, pieces and retries |
| `S3ProgramProofs!ProgramImplementsStore` | `ProgramSpec => ImplementsObjectStore`: commands about lists, before, between and behind those about objects, change no object |
| `S3ProgramProofs!ProgramDelivers` | `ProgramSpec => [](GetDelivers /\ ListsOnce /\ ListNearLimit)`, with commands of both kinds in any order |
| `S3ProgramProofs!SetsKeepGrants` | `ProgramSpec => []SetKeepsGrants`, for any lists, ids, display names, edits, retries and older files |
| `S3ProgramProofs!ProgramTyped` | `ProgramSpec => []ProgramTypeOK` |
| `RabinProofs!SegmentSizesHold` | `Spec => []SegmentSizes`, from what `rabin_init` checks |
| `RabinProofs!TypeCorrect` | `Spec => []TypeOK` |
| `RabinProofs!FingerprintsAreRemainders` | `Spec => []FingerprintOfWindow`, for any polynomial with the highest bit of a word, any window and any width of a byte below that of a word |
| `RabinProofs!CutsAreOfTheContents` | `Spec => []CutsDependOnContents`, from the same |

**LocksExclude.** Mutual exclusion alone is not inductive: what matters is what is
still under way. The invariant `IInv` says that who was granted a lock, or has the
answer OK waiting, *owns* it at the server (`GrantedIsOwned`); that owners of one
lock are one writer or readers (`OnlyReadersShare`); and that no late release
names the version of a session that is alive (`LateRequestsAreOld`), which is what
`version++` in `cloudfs_open` is for. A late *acquire* may give a lock to nobody,
but takes none away. Each hypothesis is needed: with equal machine numbers or
with versions that start again at -1 after a restart, an identity stands for two
sessions; with two open files, a release names the version of the other one.
`lock_lossy` checks `IInv` too, and `GrantsAreOwned` is the theorem about it.

**CountsExclude, TableMatchesSessions.** A server that counts knows no owners, so what is
inductive is a count: `CountInv` says of every key that the entry of the table is the
number of its holders, or more where a process that failed held it, and that a
writer holds alone (`KeyCounted`). Who holds a lock (`Held`) is decided by the answer: from the
moment the server grants until the moment it takes back, with the answer still under way.
That a process whose `skip` is false was granted what it has open (`SkipTells`)
keeps a close from giving back what it does not have. Once a process has
failed the table may hold more than the sessions, never less. Machine numbers play no role,
which is why the theorem covers the number 0 that every process has without an option.

**TypeCorrect of CloudFS.** Types alone are not inductive: a name may lead to a
handle, and what a truncate or an upload reads through it is a file only if the
handle is still there. `Formed` adds that (`HandlesAreLive`; it is what `Closed`
in `Unlock`, `OpenFails` and `Crash` keeps) and that a running handler has its
arguments (`HandlersHaveCalls`). `DistinctAssumption` tells absent names, links,
handles and contents apart; nothing else is assumed of the constants' values.

**OnlyBigObjects.** `cloudfs_release` decides on an `lstat` and uploads two steps
later. The link between them is `UploadsAreBig`: a machine that is about to
upload will send more than the threshold. It holds since no machine reaches
into another one (`OthersKeep`), only `Release` leads to the upload
(`OnlyReleasePuts`), and the size it has read is the size of what is sent
(`ReleaseUploadsBig`), the metadata behind a link at threshold 0 included.

**ObjectsAreFiles, BigFilesLeave.** An upload reads through the name of the file, and a name
that has become a link leads to its metadata. `LinksStay` and `UploadsFollowNoLink` say
that a machine with one handle per file never uploads behind a link, and with a threshold above 0
a link is too short to be uploaded, as `OnlyBigObjects` shows. The remaining case is real: at
threshold 0 the second of two closes of a new file uploads the `struct stat`, which TLC
shows as soon as `Shared` is switched on. `BigFilesLeave` carries the decision of
`cloudfs_release` to its end: once the name is to stay, the file behind it is small
(`FilesSmall`). A failed open, a full disk, a restart and a truncate each leave a big file
on the SSD, hence `Undisturbed`; failed uploads and deletions do not.

**UpdatesAreKept.** `UpdateInv` has three layers. `LocalInv` is about one machine: which
handle its running handler is about, that an open file has its name
(`FilesNamed`), and that who only reads has nothing to publish
(`ReadersPublishNothing`), since the `lstat` of release finds an empty file. No other machine can
disturb it (`OthersKeep`). `LocksCount` ties the machines together: the server's count is at
least the number of those who hold the lock, from the answer to
`release_lock_wrapper`, and a write lock is counted once, so a writer is alone
(`WritersAreAlone`). It is an upper bound and not the number, because a restart or a failed
open leaves a count behind; that costs progress, not updates. From both follows
`SessionsAreCurrent`: until a session has published, the object is the one it found, or
was removed, as `cloudfs_unlink` takes no lock. Each hypothesis in `Orderly` is needed:
TLC finds a lost update as soon as one of them is dropped, with two machines and two
paths of one key: a lock given up, a file opened twice on one machine, a truncate through the
name of a file that is being read, a fetch that fails and a full disk.

**SessionStoreImplemented.** The mapping is in `CloudFS`: what is published under a key is
its object (`StoreSeen`), what a session has is the file behind its handle
(`SessionSeen`). A session of `SessionStore` publishes in one step, a release of cloudfs in up to five calls,
and which of these is the step depends on the branch. `StoreInv` says that the dirty bit of
a proxy and the contents of a local file show whether there are edits (`EditsShow`),
that who is on the way to `s3_cloudfs_put` has edits and uploads its session's file,
and that a release that is done with the cloud has published (`ClosesPublish`);
with threshold 0 a file without contents has no edits to lose. Each step of a handler is then one step
of the store (`OpenFetches` a Fetch, `S3Put` and `S3Delete` a publication, `Unlock` the
end of the session, `Crash` the loss of the machine's sessions) or none. Locks do not
occur in it: they prevent lost updates and not torn files, so the theorem holds when they
are given up. `CloseToOpen` is what section 3 says the code needs.

**LinksTellTheTruth, MetadataAndObjectsAgree, OpensDeliver.** On one machine `NamesSettled` relates name, metadata
and object of every path that no handler is about: a link has both and they agree, anything
else has neither (`Settled`). While a handler is on the way, `Moving` says for every label
which of its calls are done. `OpensDeliver` adds `FilesSmall`: with threshold 0 a closed
file that is still on the SSD is empty, so an open that unlinks it loses nothing. A second machine breaks all three, as it is never told
that its link is stale; TLC shows that with two machines.

**Names.** The six theorems rest on one invariant,
`Inv == Formed /\ MetadataInv /\ StreamsAreLive`. `Formed` is `TypeOK` with what the
handlers rely on without testing it: a name that refers to a handle refers to
one that is open for that name (`HandlesLead`, `PathsLead`), and descriptors are
neither leaked nor closed twice (`DescriptorsAreHandles`). `MetadataInv` relates metadata,
objects and links key by key, and holds under the condition that the metadata
directory exists, as the code writes through it without looking at the result; it has to be
about all names of a key at once, since `get_key` lets them share it.
`StreamsAreLive`: a stream that was not read yet knows its directory's
entries, unless the directory is gone, and then it was empty when it went.
`LocksAreAccountedFor` is a bound on a sum over keys; `LocksInv` has the sum as the size
of a set (`Excess`: the grants of a key beyond its handles, numbered), so that a step that
moves one grant moves one element. A set `skip` is one lock that the next close will keep.
`NamesAssumption` says that files and handles are finite and not empty,
`DistinctAssumption` that the marks of absent things are no things.

**ObjectStoreImplemented.** The refinement maps a running command to its intent,
and a step of the server to the effect. What makes it more than bookkeeping is
retrying: a put that starts again goes on in its input where it was. `StoreInv`
contains `SentInOrder`: what the server has of this request is the input just before the
position `at`. So a request that is served in full has announced and got
the whole input only if the failed ones before it had sent nothing; in all other
cases the length does not come out and the server refuses. As the changes of others are counted,
this also holds of a request that is served again after its answer was lost. `IntentAssumption`
keeps intents apart from the mark of their absence.

**GetsDeliver.** A get that is made again goes on in its stream. `GetInv` says of the file
that it is the old one except where this command wrote, and what it wrote since the
last request lies just before the position of the stream (`FileKept`, `Arrived`); a
request that ends well has delivered its part in one piece, wherever that is.

**ListingsOnce, ListingsNearLimit, ListingsExact.** What is printed, the page that is under way and what is
behind it follow each other in the order of keys. `ListInv` says that up to the marker every key that stayed has been
printed, that one behind the marker is in the page or behind a page that is truncated, and
that lines are in order; so a repeated request cannot repeat a line, as it starts at the marker.
`CountOK` counts answers: less than `maxkeys` before a page, one page more after it, and
one more for every retry made. The last part is needed: a request that fails after its
callback ran is made again although the limit was reached, which TLC shows with six keys and two retries. A page is
the first of its keys by rank (`Rank`), the cardinality of what comes before. `ListOK` of
`CloudApi` has the first half of it.

**GrowbuffersHoldRest.** `BufferInv` says that while there is a growbuffer its put runs,
that what the blocks hold in order (`Unread`) is the input behind the position `at`, and
that the ring is `WellFormed`: only the first block may have been read in part, and all but
the last were filled. While it is being filled nothing has been read (`Fresh`), and that is
needed: `growbuffer_append` writes at `size` whatever `start` is, so bytes appended to a
block that was read in part would go over others, and `put_object` is right to read all of
its input first. `ByteAppended` and `Appended` say what appending adds, `ReadLeaves` that
what a read returns and what it leaves are what there was. `growbuffer_append` and `Unread`
are folds, which the library defines by recursion on sets of positions; these sets are
always `1..k` (`MaxOfSet`, `FoldsExist`), so a fold is a function of `k` and `InductionTo`
applies.

**SetsKeepGrants.** `ReadStates` is what the parser may have read after any word: only the
last grant may still lack its id, and only while the parser is looking for it. `Consume`
keeps it (`ConsumesAll`, `ReadsText` go through the folds), so what is parsed is a list but
for permissions that are unassigned (`Unsettled`). For the line of a grant, `GranteeRead`
follows the words up to the id, after which the grantee is settled; the rest of a display
name and the permission are words that begin no grant (`RestHarmless`, `HarmlessWord`), so
that at the end of the line there is this one grant more, or the text is refused
(`GrantLineRead`); with a name of one word it is not refused and the permission is
the right one. `PlainWords` is needed here: a further word with a keyword in it, where the parser looks
for a line, begins a grant that is in no list. An owner without an id takes words of the
column headers for one, and the text is refused (`ColumnsFail`). `UpTo` says this of all lines up to one,
`ReadBack` of the text. That what the file shows *is* the text of a list is kept by the
user's edits (`RemovedGrant`), and by a get, unless the old file was longer: this and
what the running command has of it is the invariant `AclInv`.
`S3AclAssumption` keeps line endings out of ids and display names (Amazon's have none; one
would be a line of its own) and `None` apart from lists and texts.

**ProgramImplementsStore, ProgramDelivers, ProgramTyped.** Every step of the program is one
of `S3Client`, or one of a command about lists that leaves bucket and file
alone (`ProgramSteps`). `ProgramSpec` lets both kinds follow each other in any order, for
every `MixedEdits`, so these are behaviours that `Spec` of `S3Client` does not have. The invariants of
`S3ClientProofs` are kept (`ObjectsInv`): a command about lists that starts takes the place of the one
before, callback data, status and retries included, looks at the bucket and ends
with OK only if it was served (`ListCommandsLook`, `ListCommandsKept`), and its retries stay
within what the account of a listing allows. For the types `KindInv` adds the commands that no other
invariant speaks of, and that a process which runs has not gone below zero retries
(`Counted`): `should_retry` counts down to -1 only when it says no.

**PutsAreWhole, GetsAreWhole.** The invariant `Beginning` says that what the
callbacks have sent or received is a beginning of the file or the object and that
its length and what is still to come add up; a length of 0 to come makes it the whole.
The assumption that `None` is not among `Contents` keeps absent and present objects apart.

**SegmentSizesHold.** The code compares the size with the maximum by equality, so
the proof needs that the counter is below the maximum before every byte and
that it measures from the last cut (`Counted`).

**FingerprintsAreRemainders.** `Congruent(a, b)` says that the sum of two polynomials is a
multiple of `POLY`; sums, shifts and products by a common factor keep it, and two
residues that are congruent are equal (`OneRemainder`, as a multiple has at least the degree of `POLY`),
so it is enough that the fingerprint is a residue congruent to the window (`Fingerprinted`).
`PolymodReduces` says it of the long division, bit by bit; `TableT` and `Append8` that the table
makes up for the bits that `p << 8` loses; `TableU` that `U[i]` is what the byte `i`
stands for at the front of the window, although `sizeshift` was itself made with
`append8`. `Ring` says which slot holds which byte, so that the slot to be
overwritten holds the oldest one (`NextSlot`) from the wrap of -1 on, and `WindowOldest` and `WindowNext` say what
dropping and appending a byte does to the window. The degree is needed: with a smaller one
`Shr(p, shift)` is not a byte.

**CutsAreOfTheContents.** `Marked` says of every byte read whether a segment ends there, in
terms of the last cut before it and of the window at that place. Later bytes do not
change it, and it determines the recursive function in `CutsOfContents` (`MarksAreContents`).

**Recursive functions.** The library's induction theorems take a predicate and cannot be
used; but that of some numbers one is the least follows from the theorem that the subset ordering of finite sets is well-founded
(`Least`), and induction stated about a set from that (`InductionTo`). `Recursion` shows that a
function defined step by step exists, which is what its `CHOOSE` needs.

**Only model-checked.** Liveness (`WrappersReturn`, `HandlersFinish`, `CommandsEnd`), as it
needs ENABLED. Every other property of a passing run is stated by a theorem, but some under
conditions (the table above), which not all of their runs meet: what those show beyond
the theorem is model-checked on small instances only. `ProxyHasMetadata` is
false, and so is `OpenDeliversFile` with a threshold above 0 (section 4).

## 6. Plan

1. Failed fetches: which weaker store is implemented then.
2. Several machines in `Names`: stale links and listings of shared directories.

## 7. Not modelled

* `generate_query_string` of the S3 tool signs a URL and asks nobody; option syntax,
  usage texts, dates, and the printing of properties and errors change no state
  that anything reads again.
* `read`, `access`, `getxattr` and the like pass their arguments to one system call
  and change nothing. The kernel's caches of names and attributes are between the
  application and these models; the handlers are called at most as often as
  modelled.
* libs3 is a header here. What it does to its users (buffers, pages, statuses,
  callbacks in order) is in the models of the users.
* The lock server and the S3 server are not in the repository; the lock table is
  modelled from the interface and in both kinds it allows, the bucket as a map.
* The TCP lock client is superseded, its only call commented out; the XDR routines
  are generated by rpcgen.
* `rabin-example.c` reads a file in pieces and prints the segments: calls
  `rabin_segment_next` as `Rabin` does with its calls of any length.
* The scripts mount, unmount and compare; what they expect is quoted in the findings.
