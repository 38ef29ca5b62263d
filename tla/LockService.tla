----------------------------- MODULE LockService -----------------------------
(***************************************************************************)
(* The lock client of cloudfs: acquire_lock_wrapper, release_lock_wrapper   *)
(* and what cloudfs_open, cloudfs_release and a restart do to their state,  *)
(* over RPC on UDP.  FUSE runs single threaded (option -s), so a machine    *)
(* executes one handler at a time and waits inside its RPC; the machines    *)
(* and the server interleave.                                               *)
(*                                                                          *)
(* The network: clnt_call on UDP resends a request every RETRY_TIME until   *)
(* a reply with its transaction id arrives or the call times out, so the    *)
(* server may execute one request many times, and copies of a request may   *)
(* still arrive after the client gave the call up.  A reply to a call that  *)
(* is over is discarded by the client.                                      *)
(***************************************************************************)
EXTENDS LockTable, Integers, FiniteSets

CONSTANTS
  Machines,     \* the cloudfs processes
  Keys,         \* keys of files, as get_key makes them
  MachineId,    \* the global variable machine of every process
  MAXBLOCK,     \* how often a wrapper sends its request
  MaxVersion,   \* bound: opens per process (version counts them from -1)
  Nested,       \* may an application open a file while it has another open?
  Lossy,        \* does the network lose, delay and duplicate messages?
  Restarts,     \* may a process end and be started again?
  MaxFailures   \* bound: restarts and opens that fail

ASSUME LockServiceAssumption ==
  /\ MachineId \in [Machines -> Int]
  /\ MAXBLOCK \in Nat \ {0}
  /\ MaxVersion \in Nat
  /\ MaxFailures \in Nat
  /\ Nested \in BOOLEAN /\ Lossy \in BOOLEAN /\ Restarts \in BOOLEAN
  /\ Keys # {}

VARIABLES
  version,      \* version[m]: opens so far, minus one
  skip,         \* skip[m]: the next release sends nothing
  pc,           \* pc[m]: what the process is doing
  call,         \* call[m]: arguments and locals of the wrapper that runs
  sessions,     \* sessions[m]: the files the process has open
  replies,      \* replies[m]: answers on their way to the outstanding call
  delayed,      \* copies of requests whose call is over
  locks,        \* locks[k]: the server's table
  failures      \* how many there were so far

vars == <<version, skip, pc, call, sessions, replies, delayed, locks, failures>>

Ids  == Int \X Int
Id(m) == <<MachineId[m], version[m]>>

Calls == [key : Keys, operation : LockTypes, times : Nat, locked : BOOLEAN]

\* What the server needs of a request; its transaction id only tells the
\* outstanding call from the ones that are over.
Requests ==
  [proc : {"acquire"}, key : Keys, operation : LockTypes, id : Ids] \cup
  [proc : {"release"}, key : Keys, operation : {"RELEASE"}, id : Ids]

\* locked tells whether the server granted the lock to this session, version
\* which open it was.  The program keeps neither.
Sessions == [key : Keys, operation : LockTypes, locked : BOOLEAN, version : Int]

\* The locals of a wrapper that was never called.
NoCall == [key |-> CHOOSE k \in Keys : TRUE, operation |-> "READ", times |-> 0,
           locked |-> FALSE]

TypeOK ==
  /\ version \in [Machines -> Int]
  /\ skip \in [Machines -> BOOLEAN]
  /\ pc \in [Machines -> {"idle", "acquire", "open", "release"}]
  /\ call \in [Machines -> Calls]
  /\ sessions \in [Machines -> SUBSET Sessions]
  /\ replies \in [Machines -> SUBSET Status]
  /\ delayed \subseteq Requests
  /\ locks \in [Keys -> LockItems(Ids)]
  /\ failures \in Nat

Init ==
  /\ version = [m \in Machines |-> -1]
  /\ skip = [m \in Machines |-> FALSE]
  /\ pc = [m \in Machines |-> "idle"]
  /\ call = [m \in Machines |-> NoCall]
  /\ sessions = [m \in Machines |-> {}]
  /\ replies = [m \in Machines |-> {}]
  /\ delayed = {}
  /\ locks = [k \in Keys |-> Unlocked]
  /\ failures = 0

(***************************************************************************)
(* Remote procedure calls.                                                  *)
(***************************************************************************)
InCall(m) == pc[m] \in {"acquire", "release"}

Request(m) ==
  [proc      |-> pc[m],
   key       |-> call[m].key,
   operation |-> IF pc[m] = "release" THEN "RELEASE" ELSE call[m].operation,
   id        |-> Id(m)]

Served(r) ==
  IF r.proc = "acquire"
  THEN [locks EXCEPT ![r.key] = Acquired(@, r.id, r.operation)]
  ELSE [locks EXCEPT ![r.key] = Released(@, r.id)]

Answer(r) ==
  IF r.proc = "acquire"
  THEN AcquireStatus(locks[r.key], r.id, r.operation)
  ELSE ReleaseStatus(locks[r.key], r.id)

\* The server executes the request of the outstanding call, once per copy that
\* reaches it, and answers.
ServerExecutes(m) ==
  /\ InCall(m)
  /\ Lossy \/ replies[m] = {}
  /\ locks' = Served(Request(m))
  /\ replies' = [replies EXCEPT ![m] = @ \cup {Answer(Request(m))}]
  /\ UNCHANGED <<version, skip, pc, call, sessions, delayed, failures>>

\* A late copy of a request reaches the server; nobody waits for the answer.
ServerExecutesDelayed(r) ==
  /\ r \in delayed
  /\ locks' = Served(r)
  /\ UNCHANGED <<version, skip, pc, call, sessions, replies, delayed, failures>>

\* Mistake: a reply is not matched with the call it answers.
LeaveCallUnmatched(m) ==
  /\ delayed' = IF Lossy THEN delayed \cup {Request(m)} ELSE delayed
  /\ UNCHANGED replies

\* The call of m is over: copies of its request may still be under way.
LeaveCall(m) ==
  /\ delayed' = IF Lossy THEN delayed \cup {Request(m)} ELSE delayed
  /\ replies' = [replies EXCEPT ![m] = {}]

\* The wrapper sees result_1 # 1: an answer other than OK, or no answer at all
\* within the timeout of the call (result_1 then keeps its value).
Refused(m) == Lossy \/ \E s \in replies[m] : s # "OK"

(***************************************************************************)
(* acquire_lock_wrapper, called by cloudfs_open.                            *)
(***************************************************************************)
\* Mistake: the version of the previous open is used again.
OpenWithOldVersion(m, k, op) ==
  /\ pc[m] = "idle"
  /\ Nested \/ sessions[m] = {}
  /\ version' = [version EXCEPT ![m] = 0]
  /\ pc' = [pc EXCEPT ![m] = "acquire"]
  /\ call' = [call EXCEPT ![m] =
                [key |-> k, operation |-> op, times |-> 1, locked |-> FALSE]]
  /\ UNCHANGED <<skip, sessions, replies, delayed, locks, failures>>

Open(m, k, op) ==
  /\ pc[m] = "idle"
  /\ Nested \/ sessions[m] = {}
  /\ version[m] < MaxVersion
  /\ version' = [version EXCEPT ![m] = @ + 1]
  /\ pc' = [pc EXCEPT ![m] = "acquire"]
  /\ call' = [call EXCEPT ![m] =
                [key |-> k, operation |-> op, times |-> 1, locked |-> FALSE]]
  /\ UNCHANGED <<skip, sessions, replies, delayed, locks, failures>>

AcquireGranted(m) ==
  /\ pc[m] = "acquire"
  /\ "OK" \in replies[m]
  /\ LeaveCall(m)
  /\ pc' = [pc EXCEPT ![m] = "open"]
  /\ call' = [call EXCEPT ![m].locked = TRUE]
  /\ UNCHANGED <<version, skip, sessions, locks, failures>>

AcquireRetransmits(m) ==
  /\ pc[m] = "acquire"
  /\ Refused(m)
  /\ call[m].times < MAXBLOCK
  /\ LeaveCall(m)
  /\ call' = [call EXCEPT ![m].times = @ + 1]
  /\ UNCHANGED <<version, skip, pc, sessions, locks, failures>>

\* Mistake: the matching release is not told to skip.
AcquireGivesUpSilently(m) ==
  /\ pc[m] = "acquire"
  /\ Refused(m)
  /\ call[m].times = MAXBLOCK
  /\ LeaveCall(m)
  /\ pc' = [pc EXCEPT ![m] = "open"]
  /\ UNCHANGED <<version, skip, call, sessions, locks, failures>>

\* The file is opened all the same, without the lock.
AcquireGivesUp(m) ==
  /\ pc[m] = "acquire"
  /\ Refused(m)
  /\ call[m].times = MAXBLOCK
  /\ LeaveCall(m)
  /\ skip' = [skip EXCEPT ![m] = TRUE]
  /\ pc' = [pc EXCEPT ![m] = "open"]
  /\ UNCHANGED <<version, call, sessions, locks, failures>>

SessionOf(m) ==
  [key |-> call[m].key, operation |-> call[m].operation,
   locked |-> call[m].locked, version |-> version[m]]

\* The rest of cloudfs_open: it returns a file handle, or -errno when open()
\* fails, in which case the lock is not given back.
OpenSucceeds(m) ==
  /\ pc[m] = "open"
  /\ pc' = [pc EXCEPT ![m] = "idle"]
  /\ sessions' = [sessions EXCEPT ![m] = @ \cup {SessionOf(m)}]
  /\ UNCHANGED <<version, skip, call, replies, delayed, locks, failures>>

OpenFails(m) ==
  /\ failures < MaxFailures
  /\ failures' = failures + 1
  /\ pc[m] = "open"
  /\ pc' = [pc EXCEPT ![m] = "idle"]
  /\ UNCHANGED <<version, skip, call, sessions, replies, delayed, locks>>

(***************************************************************************)
(* release_lock_wrapper, called at the end of cloudfs_release.  The request *)
(* carries the version of the latest open, not that of the session.         *)
(***************************************************************************)
\* Mistake: skip stays set.
CloseSkippingForEver(m, s) ==
  /\ pc[m] = "idle"
  /\ s \in sessions[m]
  /\ skip[m]
  /\ sessions' = [sessions EXCEPT ![m] = @ \ {s}]
  /\ UNCHANGED <<version, skip, pc, call, replies, delayed, locks, failures>>

CloseSkipping(m, s) ==
  /\ pc[m] = "idle"
  /\ s \in sessions[m]
  /\ skip[m]
  /\ skip' = [skip EXCEPT ![m] = FALSE]
  /\ sessions' = [sessions EXCEPT ![m] = @ \ {s}]
  /\ UNCHANGED <<version, pc, call, replies, delayed, locks, failures>>

CloseReleasing(m, s) ==
  /\ pc[m] = "idle"
  /\ s \in sessions[m]
  /\ ~skip[m]
  /\ sessions' = [sessions EXCEPT ![m] = @ \ {s}]
  /\ pc' = [pc EXCEPT ![m] = "release"]
  /\ call' = [call EXCEPT ![m] =
                [key |-> s.key, operation |-> s.operation,
                 times |-> 1, locked |-> FALSE]]
  /\ UNCHANGED <<version, skip, replies, delayed, locks, failures>>

ReleaseDone(m) ==
  /\ pc[m] = "release"
  /\ \/ "OK" \in replies[m]
     \/ Refused(m) /\ call[m].times = MAXBLOCK
  /\ LeaveCall(m)
  /\ pc' = [pc EXCEPT ![m] = "idle"]
  /\ UNCHANGED <<version, skip, call, sessions, locks, failures>>

\* Mistake: attempts are not counted.
ReleaseRetransmitsForEver(m) ==
  /\ pc[m] = "release"
  /\ Refused(m)
  /\ LeaveCall(m)
  /\ UNCHANGED <<version, skip, pc, call, sessions, locks, failures>>

ReleaseRetransmits(m) ==
  /\ pc[m] = "release"
  /\ Refused(m)
  /\ call[m].times < MAXBLOCK
  /\ LeaveCall(m)
  /\ call' = [call EXCEPT ![m].times = @ + 1]
  /\ UNCHANGED <<version, skip, pc, sessions, locks, failures>>

(***************************************************************************)
(* The process dies and is started again: its globals have their initial    *)
(* values, the server knows nothing of it.                                  *)
(***************************************************************************)
Crash(m) ==
  /\ Restarts
  /\ failures < MaxFailures
  /\ failures' = failures + 1
  /\ version' = [version EXCEPT ![m] = -1]
  /\ skip' = [skip EXCEPT ![m] = FALSE]
  /\ pc' = [pc EXCEPT ![m] = "idle"]
  /\ sessions' = [sessions EXCEPT ![m] = {}]
  /\ replies' = [replies EXCEPT ![m] = {}]
  /\ delayed' = IF Lossy /\ InCall(m) THEN delayed \cup {Request(m)} ELSE delayed
  /\ UNCHANGED <<call, locks>>

CallReturns(m) ==
  \/ AcquireGranted(m) \/ AcquireRetransmits(m) \/ AcquireGivesUp(m)
  \/ ReleaseDone(m) \/ ReleaseRetransmits(m)

\* The bound on opens is reached and every file is closed.
Terminating ==
  /\ \A m \in Machines : pc[m] = "idle" /\ sessions[m] = {} /\ version[m] = MaxVersion
  /\ UNCHANGED vars

Next ==
  \/ \E m \in Machines :
       \/ \E k \in Keys, op \in LockTypes : Open(m, k, op)
       \/ ServerExecutes(m)
       \/ CallReturns(m)
       \/ OpenSucceeds(m)
       \/ OpenFails(m)
       \/ \E s \in sessions[m] : CloseSkipping(m, s) \/ CloseReleasing(m, s)
       \/ Crash(m)
  \/ \E r \in delayed : ServerExecutesDelayed(r)
  \/ Terminating

Spec == Init /\ [][Next]_vars

\* clnt_call comes back at the latest when its timeout expires (CLSET_TIMEOUT).
FairSpec == Spec /\ \A m \in Machines : WF_vars(CallReturns(m))

(***************************************************************************)
(* Properties.                                                              *)
(***************************************************************************)

\* The sessions of m that the server has granted their lock, the one that is
\* still being opened included.
Granted(m) ==
  {s \in sessions[m] : s.locked} \cup
  IF pc[m] = "open" /\ call[m].locked THEN {SessionOf(m)} ELSE {}

\* Two sessions that were granted the lock of the same file, on any machines,
\* both only read: whatever is lost, repeated or late (acquire_1, release_1).
MutualExclusion ==
  \A m, n \in Machines : \A s \in Granted(m), t \in Granted(n) :
    s.key = t.key /\ <<m, s>> # <<n, t>> => s.operation = "READ" /\ t.operation = "READ"

\* The table of the server agrees with the sessions: every granted lock is held,
\* for what it was granted for; and as long as no process failed, when nobody
\* is in a call nothing else is held: no close leaks a lock or gives back a
\* lock that is not its own (skip and release_lock_wrapper).
LocksMatchSessions ==
  \A k \in Keys :
    LET granted == {x \in Machines \X UNION {Granted(m) : m \in Machines} :
                      x[2] \in Granted(x[1]) /\ x[2].key = k}
    IN  /\ \A x \in granted : locks[k].operation = x[2].operation
        /\ locks[k].i >= Cardinality(granted)
        /\ failures = 0 /\ (\A m \in Machines : ~InCall(m)) =>
             locks[k].i = Cardinality(granted)

\* An open does not hang in acquire_lock_wrapper, although the lock may be taken
\* for ever and the network may lose everything; a close does not hang either.
WrappersReturn == \A m \in Machines : InCall(m) ~> ~InCall(m)

(***************************************************************************)
(* Why MutualExclusion holds when the server tracks owners: an inductive    *)
(* invariant, for processes with machine numbers of their own that have one *)
(* file open at a time and are not restarted.                               *)
(***************************************************************************)

\* A process has at most one file open, with the version of its latest open.
OneSession ==
  \A m \in Machines :
    /\ InCall(m) \/ pc[m] = "open" => sessions[m] = {}
    /\ \A s \in sessions[m] : s.version = version[m]
    /\ \A s, t \in sessions[m] : s = t

\* What the client knows of the call it is in.
CallsFresh ==
  \A m \in Machines :
    /\ ~InCall(m) => replies[m] = {}
    /\ pc[m] = "acquire" => ~call[m].locked

\* m may still be granted, or has been granted, a lock for its current version.
Engaged(m) == pc[m] \in {"acquire", "open"} \/ sessions[m] # {}

Owns(m, k, op) == Id(m) \in locks[k].owners /\ locks[k].operation = op

\* Whoever was granted a lock, or is about to learn that it was, owns it.
GrantedIsOwned ==
  \A m \in Machines :
    /\ \A s \in sessions[m] : s.locked => Owns(m, s.key, s.operation)
    /\ pc[m] = "open" /\ call[m].locked => Owns(m, call[m].key, call[m].operation)
    /\ pc[m] = "acquire" /\ "OK" \in replies[m] => Owns(m, call[m].key, call[m].operation)

OnlyReadersShare ==
  \A k \in Keys : \A i, j \in locks[k].owners : i # j => locks[k].operation = "READ"

\* Late requests are of versions that were used, and no late release is of the
\* version of a session that is alive: this is what version++ is for.
LateRequestsAreOld ==
  \A r \in delayed, m \in Machines :
    /\ r.id[1] = MachineId[m] => r.id[2] <= version[m]
    /\ r.proc = "release" /\ Engaged(m) => r.id # Id(m)

\* The inductive invariant behind MutualExclusion: what the client holds to be
\* granted is owned, and no late request can take it away.
IInv ==
  /\ TypeOK
  /\ OneSession
  /\ CallsFresh
  /\ GrantedIsOwned
  /\ OnlyReadersShare
  /\ LateRequestsAreOld
=============================================================================
