-------------------------- MODULE LockServiceProofs --------------------------
(***************************************************************************)
(* Type correctness of LockService; for a server that tracks owners, its    *)
(* mutual exclusion over a network that may lose, repeat and delay every    *)
(* message; for a server that counts, over a network that does none of      *)
(* that, its mutual exclusion and the agreement of its table with the       *)
(* sessions.                                                                *)
(***************************************************************************)
EXTENDS LockService, FiniteSetTheorems, TLAPS

(***************************************************************************)
(* The entries of the lock table.                                           *)
(***************************************************************************)

\* Granting a request leaves a well-formed entry (Acquired).
LEMMA AcquiredType ==
  ASSUME NEW item \in LockItems(Ids), NEW id \in Ids, NEW op \in LockTypes
  PROVE  Acquired(item, id, op) \in LockItems(Ids)
BY DEF Acquired, LockItems

\* Releasing leaves a well-formed entry: the count stays natural (Released).
LEMMA ReleasedType ==
  ASSUME NEW item \in LockItems(Ids), NEW id \in Ids
  PROVE  Released(item, id) \in LockItems(Ids)
<1> DEFINE left == [item EXCEPT !.i      = IF TracksOwners THEN @ ELSE @ - 1,
                                !.owners = @ \ {id}]
<1>1. CASE ~Releasable(item, id)
  BY <1>1 DEF Released
<1>2. CASE Releasable(item, id)
  <2>1. left \in LockItems(Ids)
    <3>1. item.i \in Nat /\ item.owners \ {id} \subseteq Ids
      BY DEF LockItems
    <3>2. (IF TracksOwners THEN item.i ELSE item.i - 1) \in Nat
      BY <1>2, <3>1 DEF Releasable
    <3> QED BY <3>1, <3>2 DEF LockItems
  <2>2. Unlocked \in LockItems(Ids)
    BY DEF Unlocked, LockItems
  <2> QED BY <1>2, <2>1, <2>2 DEF Released
<1> QED BY <1>1, <1>2

\* An acquire, whoever sends it and however late, takes no lock from an owner
\* and never mixes a writer with anybody else (Acquired).
LEMMA AcquiredKeeps ==
  ASSUME TracksOwners, NEW item \in LockItems(Ids), NEW id \in Ids, NEW op \in LockTypes
  PROVE  LET new == Acquired(item, id, op)
         IN  /\ \A j \in item.owners : j \in new.owners /\ new.operation = item.operation
             /\ (\A i, j \in item.owners : i # j => item.operation = "READ") =>
                   \A i, j \in new.owners : i # j => new.operation = "READ"
             /\ AcquireStatus(item, id, op) = "OK" => id \in new.owners /\ new.operation = op
BY DEF Acquired, AcquireStatus, AlreadyGranted, Compatible, Free, LockItems

\* A release takes the lock from its sender and from nobody else (Released).
LEMMA ReleasedKeeps ==
  ASSUME TracksOwners, NEW item \in LockItems(Ids), NEW id \in Ids
  PROVE  LET new == Released(item, id)
         IN  /\ \A j \in item.owners : j # id => j \in new.owners /\ new.operation = item.operation
             /\ (\A i, j \in item.owners : i # j => item.operation = "READ") =>
                   \A i, j \in new.owners : i # j => new.operation = "READ"
BY DEF Released, Releasable, Unlocked, Free, LockItems

(***************************************************************************)
(* Type correctness.                                                        *)
(***************************************************************************)
LEMMA IdType == ASSUME TypeOK, NEW m \in Machines PROVE Id(m) \in Ids
BY LockServiceAssumption DEF TypeOK, Id, Ids

LEMMA RequestType ==
  ASSUME TypeOK, NEW m \in Machines, InCall(m) PROVE Request(m) \in Requests
<1>1. Id(m) \in Ids
  BY IdType
<1>2. call[m] \in Calls /\ pc[m] \in {"acquire", "release"}
  BY DEF TypeOK, InCall
<1> QED BY <1>1, <1>2 DEF Request, Requests, Calls

LEMMA ServedType ==
  ASSUME TypeOK, NEW r \in Requests
  PROVE  Served(r) \in [Keys -> LockItems(Ids)]
<1>1. r.key \in Keys /\ r.id \in Ids /\ locks[r.key] \in LockItems(Ids)
  BY DEF TypeOK, Requests
<1>2. CASE r.proc = "acquire"
  <2>1. r.operation \in LockTypes
    BY <1>2 DEF Requests
  <2>2. Acquired(locks[r.key], r.id, r.operation) \in LockItems(Ids)
    BY <1>1, <2>1, AcquiredType
  <2> QED BY <1>2, <2>2 DEF Served, TypeOK
<1>3. CASE r.proc # "acquire"
  <2>1. Released(locks[r.key], r.id) \in LockItems(Ids)
    BY <1>1, ReleasedType
  <2> QED BY <1>3, <2>1 DEF Served, TypeOK
<1> QED BY <1>2, <1>3

LEMMA AnswerType ==
  ASSUME NEW r PROVE Answer(r) \in Status
BY DEF Answer, AcquireStatus, ReleaseStatus, Status

\* Every wrapper, the server, the network and a restart keep the types.
LEMMA TypeStep == TypeOK /\ [Next]_vars => TypeOK'
<1> SUFFICES ASSUME TypeOK, [Next]_vars PROVE TypeOK'
  OBVIOUS
<1> USE LockServiceAssumption
<1>1. ASSUME NEW m \in Machines, InCall(m), LeaveCall(m)
      PROVE  replies' \in [Machines -> SUBSET Status] /\ delayed' \subseteq Requests
  BY <1>1, RequestType DEF LeaveCall, TypeOK
<1>2. ASSUME NEW m \in Machines, NEW k \in Keys, NEW op \in LockTypes, Open(m, k, op)
      PROVE  TypeOK'
  BY <1>2 DEF Open, TypeOK, Calls
<1>3. ASSUME NEW m \in Machines, ServerExecutes(m)
      PROVE  TypeOK'
  <2>1. Served(Request(m)) \in [Keys -> LockItems(Ids)]
    BY <1>3, RequestType, ServedType DEF ServerExecutes
  <2>2. Answer(Request(m)) \in Status
    BY AnswerType
  <2> QED BY <1>3, <2>1, <2>2 DEF ServerExecutes, TypeOK
<1>4. ASSUME NEW m \in Machines, AcquireGranted(m)
      PROVE  TypeOK'
  <2>1. InCall(m)
    BY <1>4 DEF AcquireGranted, InCall
  <2> QED BY <1>1, <1>4, <2>1 DEF AcquireGranted, TypeOK, Calls
<1>5. ASSUME NEW m \in Machines, AcquireRetransmits(m)
      PROVE  TypeOK'
  <2>1. InCall(m)
    BY <1>5 DEF AcquireRetransmits, InCall
  <2> QED BY <1>1, <1>5, <2>1 DEF AcquireRetransmits, TypeOK, Calls
<1>6. ASSUME NEW m \in Machines, AcquireGivesUp(m)
      PROVE  TypeOK'
  <2>1. InCall(m)
    BY <1>6 DEF AcquireGivesUp, InCall
  <2> QED BY <1>1, <1>6, <2>1 DEF AcquireGivesUp, TypeOK
<1>7. ASSUME NEW m \in Machines, ReleaseDone(m)
      PROVE  TypeOK'
  <2>1. InCall(m)
    BY <1>7 DEF ReleaseDone, InCall
  <2> QED BY <1>1, <1>7, <2>1 DEF ReleaseDone, TypeOK
<1>8. ASSUME NEW m \in Machines, ReleaseRetransmits(m)
      PROVE  TypeOK'
  <2>1. InCall(m)
    BY <1>8 DEF ReleaseRetransmits, InCall
  <2> QED BY <1>1, <1>8, <2>1 DEF ReleaseRetransmits, TypeOK, Calls
<1>9. ASSUME NEW m \in Machines, OpenSucceeds(m)
      PROVE  TypeOK'
  <2>1. SessionOf(m) \in Sessions
    BY DEF SessionOf, Sessions, TypeOK, Calls
  <2> QED BY <1>9, <2>1 DEF OpenSucceeds, TypeOK
<1>10. ASSUME NEW m \in Machines, OpenFails(m)
       PROVE  TypeOK'
  BY <1>10 DEF OpenFails, TypeOK
<1>11. ASSUME NEW m \in Machines, NEW s \in sessions[m], CloseSkipping(m, s)
       PROVE  TypeOK'
  BY <1>11 DEF CloseSkipping, TypeOK
<1>12. ASSUME NEW m \in Machines, NEW s \in sessions[m], CloseReleasing(m, s)
       PROVE  TypeOK'
  <2>1. s.key \in Keys /\ s.operation \in LockTypes
    BY DEF TypeOK, Sessions
  <2> QED BY <1>12, <2>1 DEF CloseReleasing, TypeOK, Calls
<1>13. ASSUME NEW m \in Machines, Crash(m)
       PROVE  TypeOK'
  <2>1. delayed' \subseteq Requests
    BY <1>13, RequestType DEF Crash, TypeOK
  <2> QED BY <1>13, <2>1 DEF Crash, TypeOK
<1>14. ASSUME NEW r \in delayed, ServerExecutesDelayed(r)
       PROVE  TypeOK'
  <2>1. Served(r) \in [Keys -> LockItems(Ids)]
    BY ServedType DEF TypeOK
  <2> QED BY <1>14, <2>1 DEF ServerExecutesDelayed, TypeOK
<1>15. CASE Terminating \/ UNCHANGED vars
  BY <1>15 DEF Terminating, vars, TypeOK
<1> QED
  BY <1>2, <1>3, <1>4, <1>5, <1>6, <1>7, <1>8, <1>9, <1>10, <1>11, <1>12, <1>13, <1>14,
     <1>15 DEF Next, CallReturns

LEMMA InitTypeOK == Init => TypeOK
<1> SUFFICES ASSUME Init PROVE TypeOK
  OBVIOUS
<1>1. NoCall \in Calls
  BY LockServiceAssumption DEF NoCall, Calls, LockTypes
<1>2. Unlocked \in LockItems(Ids)
  BY DEF Unlocked, LockItems
<1> QED BY <1>1, <1>2 DEF Init, TypeOK

\* The state of the lock client and server is well formed, for any number of
\* processes and keys, both servers, every network and every failure (TypeOK).
THEOREM TypeCorrect == Spec => []TypeOK
BY InitTypeOK, TypeStep, PTL DEF Spec

(***************************************************************************)
(* Mutual exclusion.  The server tracks owners, processes have machine      *)
(* numbers of their own, have one file open at a time and are not restarted *)
(* (a restart would make version repeat).                                   *)
(***************************************************************************)
Assumed ==
  /\ TracksOwners
  /\ ~Nested
  /\ ~Restarts
  /\ \A m, n \in Machines : MachineId[m] = MachineId[n] => m = n

LEMMA IdsDiffer ==
  ASSUME Assumed, NEW m \in Machines, NEW n \in Machines, Id(m) = Id(n)
  PROVE  m = n
BY DEF Assumed, Id

\* Executing an acquire takes no lock from anybody.
LEMMA ServedAcquire ==
  ASSUME Assumed, TypeOK, OnlyReadersShare,
         NEW r \in Requests, r.proc = "acquire", locks' = Served(r)
  PROVE  /\ \A op : \A m \in Machines, k \in Keys :
              Owns(m, k, op) /\ UNCHANGED version => Owns(m, k, op)'
         /\ OnlyReadersShare'
         /\ AcquireStatus(locks[r.key], r.id, r.operation) = "OK" =>
              r.id \in locks'[r.key].owners /\ locks'[r.key].operation = r.operation
<1> DEFINE old == locks[r.key]
           new == Acquired(old, r.id, r.operation)
<1>1. r.key \in Keys /\ r.id \in Ids /\ r.operation \in LockTypes /\ old \in LockItems(Ids)
  BY DEF Requests, TypeOK
<1>2. /\ \A j \in old.owners : j \in new.owners /\ new.operation = old.operation
      /\ \A i, j \in new.owners : i # j => new.operation = "READ"
      /\ AcquireStatus(old, r.id, r.operation) = "OK" =>
           r.id \in new.owners /\ new.operation = r.operation
  BY <1>1, AcquiredKeeps DEF OnlyReadersShare, Assumed
<1>3. locks' = [locks EXCEPT ![r.key] = new]
  BY DEF Served
<1>4. locks'[r.key] = new /\ \A k \in Keys : k # r.key => locks'[k] = locks[k]
  BY <1>1, <1>3 DEF TypeOK
<1> HIDE DEF new
<1>5. ASSUME NEW m \in Machines, NEW k \in Keys, NEW op, Owns(m, k, op), UNCHANGED version
      PROVE  Owns(m, k, op)'
  BY <1>2, <1>4, <1>5 DEF Owns, Id
<1>6. OnlyReadersShare'
  BY <1>2, <1>4 DEF OnlyReadersShare
<1> QED BY <1>2, <1>4, <1>5, <1>6

\* Executing a release takes the lock from its sender only.
LEMMA ServedRelease ==
  ASSUME Assumed, TypeOK, OnlyReadersShare,
         NEW r \in Requests, r.proc = "release", locks' = Served(r)
  PROVE  /\ \A op : \A m \in Machines, k \in Keys :
              Owns(m, k, op) /\ r.id # Id(m) /\ UNCHANGED version => Owns(m, k, op)'
         /\ OnlyReadersShare'
<1> DEFINE old == locks[r.key]
           new == Released(old, r.id)
<1>1. r.key \in Keys /\ r.id \in Ids /\ old \in LockItems(Ids)
  BY DEF Requests, TypeOK
<1>2. /\ \A j \in old.owners : j # r.id => j \in new.owners /\ new.operation = old.operation
      /\ \A i, j \in new.owners : i # j => new.operation = "READ"
  BY <1>1, ReleasedKeeps DEF OnlyReadersShare, Assumed
<1>3. locks' = [locks EXCEPT ![r.key] = new]
  BY DEF Served
<1>4. locks'[r.key] = new /\ \A k \in Keys : k # r.key => locks'[k] = locks[k]
  BY <1>1, <1>3 DEF TypeOK
<1> HIDE DEF new
<1>5. ASSUME NEW m \in Machines, NEW k \in Keys, NEW op, Owns(m, k, op), r.id # Id(m),
             UNCHANGED version
      PROVE  Owns(m, k, op)'
  BY <1>2, <1>4, <1>5 DEF Owns, Id
<1>6. OnlyReadersShare'
  BY <1>2, <1>4 DEF OnlyReadersShare
<1> QED BY <1>5, <1>6

\* The request of a machine in a call carries its current version.
LEMMA OwnRequest ==
  ASSUME NEW m \in Machines, InCall(m)
  PROVE  /\ Request(m).id = Id(m) /\ Request(m).proc = pc[m] /\ Request(m).key = call[m].key
         /\ pc[m] = "acquire" => Request(m).operation = call[m].operation
BY DEF Request, InCall

\* Leaving a call adds a late request that is of the current version; a release
\* is left behind only by a machine that is not engaged.
LEMMA LeaveCallKeeps ==
  ASSUME Assumed, TypeOK, LateRequestsAreOld, NEW m \in Machines, InCall(m), LeaveCall(m),
         UNCHANGED version,
         \A n \in Machines : Engaged(n)' => Engaged(n),
         pc[m] = "release" => ~Engaged(m)'
  PROVE  LateRequestsAreOld'
<1> SUFFICES ASSUME NEW r \in delayed', NEW n \in Machines
             PROVE  /\ r.id[1] = MachineId[n] => r.id[2] <= version[n]
                    /\ r.proc = "release" /\ Engaged(n)' => r.id # Id(n)
  BY DEF LateRequestsAreOld, Id
<1>1. CASE r \in delayed
  BY <1>1 DEF LateRequestsAreOld
<1>2. CASE r = Request(m)
  <2>1. r.id = <<MachineId[m], version[m]>> /\ r.proc = pc[m]
    BY <1>2, OwnRequest DEF Id
  <2>2. r.id[1] = MachineId[n] => n = m
    BY <2>1 DEF Assumed
  <2>3. version[m] <= version[m]
    BY DEF TypeOK
  <2> QED BY <2>1, <2>2, <2>3, IdsDiffer DEF Id
<1> QED BY <1>1, <1>2 DEF LeaveCall

\* Whatever the server executes, the sessions keep what they own: a release that
\* arrives is from a machine that is not engaged, or of an older version.
LEMMA ServerKeeps ==
  ASSUME Assumed, IInv, NEW r \in Requests, locks' = Served(r), TypeOK',
         UNCHANGED <<version, pc, call, sessions, delayed>>,
         \A m \in Machines : r.proc = "release" /\ Engaged(m) => r.id # Id(m),
         \A m \in Machines : \/ replies'[m] = replies[m]
                             \/ /\ InCall(m)
                                /\ r = Request(m)
                                /\ replies'[m] = replies[m] \cup {Answer(r)}
  PROVE  IInv'
<1>1. \A op : \A m \in Machines, k \in Keys : Owns(m, k, op) /\ Engaged(m) => Owns(m, k, op)'
  BY ServedAcquire, ServedRelease DEF IInv, Requests
<1>2. OnlyReadersShare'
  BY ServedAcquire, ServedRelease DEF IInv, Requests
<1>3. OneSession'
  BY DEF IInv, OneSession, InCall
<1>4. CallsFresh'
  BY DEF IInv, CallsFresh, InCall
<1>5. LateRequestsAreOld'
  BY DEF IInv, LateRequestsAreOld, Engaged, Id
<1>6. GrantedIsOwned'
  <2> SUFFICES ASSUME NEW m \in Machines
               PROVE  /\ \A s \in sessions[m] : s.locked => Owns(m, s.key, s.operation)'
                      /\ pc[m] = "open" /\ call[m].locked =>
                           Owns(m, call[m].key, call[m].operation)'
                      /\ pc[m] = "acquire" /\ "OK" \in replies'[m] =>
                           Owns(m, call[m].key, call[m].operation)'
    BY DEF GrantedIsOwned, Owns, Id
  <2>1. call[m].key \in Keys /\ \A s \in sessions[m] : s.key \in Keys
    BY DEF IInv, TypeOK, Calls, Sessions
  <2>2. \A s \in sessions[m] : s.locked => Owns(m, s.key, s.operation)'
    BY <1>1, <2>1 DEF IInv, GrantedIsOwned, Engaged
  <2>3. pc[m] = "open" /\ call[m].locked => Owns(m, call[m].key, call[m].operation)'
    BY <1>1, <2>1 DEF IInv, GrantedIsOwned, Engaged
  <2>4. ASSUME pc[m] = "acquire", "OK" \in replies[m]
        PROVE  Owns(m, call[m].key, call[m].operation)'
    BY <1>1, <2>1, <2>4 DEF IInv, GrantedIsOwned, Engaged
  <2>5. ASSUME pc[m] = "acquire", InCall(m), r = Request(m), Answer(r) = "OK"
        PROVE  Owns(m, call[m].key, call[m].operation)'
    <3>1. /\ r.proc = "acquire" /\ r.id = Id(m) /\ r.key = call[m].key
          /\ r.operation = call[m].operation
      BY <2>5, OwnRequest
    <3>2. AcquireStatus(locks[r.key], r.id, r.operation) = "OK"
      BY <2>5, <3>1 DEF Answer
    <3>3. r.id \in locks'[r.key].owners /\ locks'[r.key].operation = r.operation
      BY <3>1, <3>2, ServedAcquire DEF IInv
    <3> QED BY <3>1, <3>3 DEF Owns, Id
  <2> QED BY <2>2, <2>3, <2>4, <2>5
<1> QED BY <1>2, <1>3, <1>4, <1>5, <1>6 DEF IInv

LEMMA InvStep == Assumed /\ IInv /\ [Next]_vars => IInv'
<1> SUFFICES ASSUME Assumed, IInv, [Next]_vars PROVE IInv'
  OBVIOUS
<1>1. TypeOK /\ TypeOK'
  BY TypeStep DEF IInv
<1>2. ASSUME NEW m \in Machines, NEW k \in Keys, NEW op \in LockTypes, Open(m, k, op)
      PROVE  IInv'
  <2>1. /\ sessions[m] = {} /\ pc[m] = "idle" /\ pc' = [pc EXCEPT ![m] = "acquire"]
        /\ version' = [version EXCEPT ![m] = version[m] + 1]
        /\ call'[m].locked = FALSE /\ \A n \in Machines : n # m => call'[n] = call[n]
        /\ UNCHANGED <<sessions, replies, delayed, locks>>
    BY <1>1, <1>2 DEF Open, Assumed, TypeOK
  <2>2. OneSession'
    BY <1>1, <2>1 DEF IInv, OneSession, InCall, TypeOK
  <2>3. CallsFresh'
    BY <1>1, <2>1 DEF IInv, CallsFresh, InCall, TypeOK
  <2>4. replies'[m] = {}
    BY <2>1 DEF IInv, CallsFresh, InCall
  <2>5. GrantedIsOwned'
    BY <1>1, <2>1, <2>4 DEF IInv, GrantedIsOwned, Owns, Id, TypeOK
  <2>6. OnlyReadersShare'
    BY <2>1 DEF IInv, OnlyReadersShare
  <2>7. LateRequestsAreOld'
    <3> SUFFICES ASSUME NEW r \in delayed, NEW n \in Machines
                 PROVE  /\ r.id[1] = MachineId[n] => r.id[2] <= version'[n]
                        /\ r.proc = "release" /\ Engaged(n)' => r.id # Id(n)'
      BY <2>1 DEF LateRequestsAreOld
    <3>1. /\ r.id[1] = MachineId[n] => r.id[2] <= version[n]
          /\ r.proc = "release" /\ Engaged(n) => r.id # Id(n)
      BY DEF IInv, LateRequestsAreOld
    <3>2. r.id \in Int \X Int /\ version[n] \in Int
      BY <1>1 DEF TypeOK, Requests, Ids
    <3>3. CASE n = m
      <4>1. version'[n] = version[n] + 1
        BY <1>1, <2>1, <3>3 DEF TypeOK
      <4> QED BY <3>1, <3>2, <4>1 DEF Id
    <3>4. CASE n # m
      <4>1. version'[n] = version[n] /\ pc'[n] = pc[n]
        BY <1>1, <2>1, <3>4 DEF TypeOK
      <4> QED BY <2>1, <3>1, <4>1 DEF Id, Engaged
    <3> QED BY <3>3, <3>4
  <2> QED BY <1>1, <2>2, <2>3, <2>5, <2>6, <2>7 DEF IInv
<1>3. ASSUME NEW m \in Machines, ServerExecutes(m)
      PROVE  IInv'
  <2>1. InCall(m) /\ Request(m) \in Requests
    BY <1>1, <1>3, RequestType DEF ServerExecutes
  <2>2. \A n \in Machines : Request(m).proc = "release" /\ Engaged(n) => Request(m).id # Id(n)
    BY <2>1, OwnRequest, IdsDiffer DEF Engaged, IInv, OneSession
  <2>3. \A n \in Machines : \/ replies'[n] = replies[n]
                            \/ /\ InCall(n)
                               /\ Request(m) = Request(n)
                               /\ replies'[n] = replies[n] \cup {Answer(Request(m))}
    BY <1>1, <1>3, <2>1 DEF ServerExecutes, TypeOK
  <2> QED BY <1>1, <1>3, <2>1, <2>2, <2>3, ServerKeeps DEF ServerExecutes
<1>4. ASSUME NEW r \in delayed, ServerExecutesDelayed(r)
      PROVE  IInv'
  <2>1. r \in Requests /\ \A n \in Machines : r.proc = "release" /\ Engaged(n) => r.id # Id(n)
    BY <1>1 DEF IInv, LateRequestsAreOld, TypeOK
  <2> QED BY <1>1, <1>4, <2>1, ServerKeeps DEF ServerExecutesDelayed
<1>5. ASSUME NEW m \in Machines, CallReturns(m)
      PROVE  IInv'
  <2>1. /\ InCall(m) /\ LeaveCall(m) /\ UNCHANGED <<version, sessions, locks>>
        /\ replies' = [replies EXCEPT ![m] = {}]
    BY <1>5 DEF CallReturns, AcquireGranted, AcquireRetransmits, AcquireGivesUp, ReleaseDone,
                ReleaseRetransmits, LeaveCall, InCall
  <2>2. /\ \A n \in Machines : n # m => pc'[n] = pc[n] /\ call'[n] = call[n]
        /\ pc[m] = "release" => pc'[m] \in {"idle", "release"}
        /\ pc[m] = "acquire" => pc'[m] \in {"acquire", "open"}
    BY <1>1, <1>5 DEF CallReturns, AcquireGranted, AcquireRetransmits, AcquireGivesUp,
                      ReleaseDone, ReleaseRetransmits, TypeOK
  <2>3. /\ call'[m].key = call[m].key /\ call'[m].operation = call[m].operation
        /\ pc[m] = "acquire" /\ call'[m].locked => "OK" \in replies[m] /\ pc'[m] = "open"
    <3>1. call[m] \in Calls
      BY <1>1 DEF TypeOK
    <3> QED BY <1>1, <1>5, <3>1 DEF CallReturns, AcquireGranted, AcquireRetransmits,
               AcquireGivesUp, ReleaseDone, ReleaseRetransmits, TypeOK, Calls, IInv, CallsFresh
  <2>4. OneSession'
    BY <2>1, <2>2 DEF IInv, OneSession, InCall
  <2>5. CallsFresh'
    BY <1>1, <2>1, <2>2, <2>3 DEF IInv, CallsFresh, InCall, TypeOK
  <2>6. GrantedIsOwned'
    <3> SUFFICES ASSUME NEW n \in Machines
                 PROVE  /\ \A s \in sessions[n] : s.locked => Owns(n, s.key, s.operation)
                        /\ pc'[n] = "open" /\ call'[n].locked =>
                             Owns(n, call'[n].key, call'[n].operation)
                        /\ pc'[n] = "acquire" /\ "OK" \in replies'[n] =>
                             Owns(n, call'[n].key, call'[n].operation)
      BY <2>1 DEF GrantedIsOwned, Owns, Id
    <3>1. CASE n # m
      BY <1>1, <2>1, <2>2, <3>1 DEF IInv, GrantedIsOwned, TypeOK
    <3>2. CASE n = m
      BY <1>1, <2>1, <2>2, <2>3, <3>2 DEF IInv, GrantedIsOwned, TypeOK, InCall
    <3> QED BY <3>1, <3>2
  <2>7. OnlyReadersShare'
    BY <2>1 DEF IInv, OnlyReadersShare
  <2>8. LateRequestsAreOld'
    <3>1. \A n \in Machines : Engaged(n)' => Engaged(n)
      BY <2>1, <2>2 DEF Engaged, InCall
    <3>2. pc[m] = "release" => ~Engaged(m)'
      BY <2>1, <2>2 DEF Engaged, IInv, OneSession
    <3> QED BY <1>1, <2>1, <3>1, <3>2, LeaveCallKeeps DEF IInv
  <2> QED BY <1>1, <2>4, <2>5, <2>6, <2>7, <2>8 DEF IInv
<1>6. ASSUME NEW m \in Machines, OpenSucceeds(m)
      PROVE  IInv'
  <2>1. /\ pc[m] = "open" /\ pc' = [pc EXCEPT ![m] = "idle"]
        /\ sessions[m] = {} /\ sessions' = [sessions EXCEPT ![m] = {SessionOf(m)}]
        /\ UNCHANGED <<version, call, replies, delayed, locks>>
    BY <1>6 DEF OpenSucceeds, IInv, OneSession
  <2>2. OneSession'
    BY <1>1, <2>1 DEF IInv, OneSession, InCall, TypeOK, SessionOf
  <2>3. CallsFresh'
    BY <1>1, <2>1 DEF IInv, CallsFresh, InCall, TypeOK
  <2>4. GrantedIsOwned'
    BY <1>1, <2>1 DEF IInv, GrantedIsOwned, Owns, Id, TypeOK, SessionOf
  <2>5. OnlyReadersShare'
    BY <2>1 DEF IInv, OnlyReadersShare
  <2>6. \A n \in Machines : Engaged(n)' => Engaged(n)
    BY <1>1, <2>1 DEF Engaged, TypeOK
  <2>7. LateRequestsAreOld'
    BY <2>1, <2>6 DEF IInv, LateRequestsAreOld, Id
  <2> QED BY <1>1, <2>2, <2>3, <2>4, <2>5, <2>7 DEF IInv
<1>7. ASSUME NEW m \in Machines, NEW s \in sessions[m],
             CloseSkipping(m, s) \/ CloseReleasing(m, s)
      PROVE  IInv'
  <2>1. /\ pc[m] = "idle" /\ pc' \in {pc, [pc EXCEPT ![m] = "release"]}
        /\ sessions[m] = {s} /\ sessions' = [sessions EXCEPT ![m] = {}]
        /\ \A n \in Machines : n # m => call'[n] = call[n]
        /\ UNCHANGED <<version, replies, delayed, locks>>
    BY <1>1, <1>7 DEF CloseSkipping, CloseReleasing, IInv, OneSession, TypeOK
  <2>2. OneSession'
    BY <1>1, <2>1 DEF IInv, OneSession, InCall, TypeOK
  <2>3. CallsFresh'
    BY <1>1, <2>1 DEF IInv, CallsFresh, InCall, TypeOK
  <2>4. GrantedIsOwned'
    BY <1>1, <2>1 DEF IInv, GrantedIsOwned, Owns, Id, TypeOK
  <2>5. OnlyReadersShare'
    BY <2>1 DEF IInv, OnlyReadersShare
  <2>6. \A n \in Machines : Engaged(n)' => Engaged(n)
    BY <1>1, <2>1 DEF Engaged, TypeOK
  <2>7. LateRequestsAreOld'
    BY <2>1, <2>6 DEF IInv, LateRequestsAreOld, Id
  <2> QED BY <1>1, <2>2, <2>3, <2>4, <2>5, <2>7 DEF IInv
<1>8. ASSUME NEW m \in Machines, OpenFails(m)
      PROVE  IInv'
  <2>1. /\ pc[m] = "open" /\ pc' = [pc EXCEPT ![m] = "idle"]
        /\ UNCHANGED <<version, call, sessions, replies, delayed, locks>>
    BY <1>8 DEF OpenFails
  <2>2. OneSession'
    BY <1>1, <2>1 DEF IInv, OneSession, InCall, TypeOK
  <2>3. CallsFresh'
    BY <1>1, <2>1 DEF IInv, CallsFresh, InCall, TypeOK
  <2>4. GrantedIsOwned'
    BY <1>1, <2>1 DEF IInv, GrantedIsOwned, Owns, Id, TypeOK
  <2>5. OnlyReadersShare'
    BY <2>1 DEF IInv, OnlyReadersShare
  <2>6. \A n \in Machines : Engaged(n)' => Engaged(n)
    BY <1>1, <2>1 DEF Engaged, TypeOK
  <2>7. LateRequestsAreOld'
    BY <2>1, <2>6 DEF IInv, LateRequestsAreOld, Id
  <2> QED BY <1>1, <2>2, <2>3, <2>4, <2>5, <2>7 DEF IInv
<1>9. CASE Terminating \/ UNCHANGED vars
  BY <1>1, <1>9 DEF Terminating, vars, IInv, OneSession, CallsFresh, GrantedIsOwned, Owns, Id,
                    OnlyReadersShare, LateRequestsAreOld, Engaged, InCall
<1>10. ASSUME NEW m \in Machines, Crash(m)
       PROVE  FALSE
  BY <1>10 DEF Crash, Assumed
<1> QED
  BY <1>2, <1>3, <1>4, <1>5, <1>6, <1>7, <1>8, <1>9, <1>10 DEF Next

LEMMA InvInit == Init => IInv
BY InitTypeOK DEF Init, IInv, OneSession, CallsFresh, GrantedIsOwned, OnlyReadersShare,
                  LateRequestsAreOld, Unlocked, InCall

LEMMA InvExcludes == Assumed /\ IInv => MutualExclusion
<1> SUFFICES ASSUME Assumed, IInv,
                    NEW m \in Machines, NEW n \in Machines,
                    NEW s \in Granted(m), NEW t \in Granted(n),
                    s.key = t.key, <<m, s>> # <<n, t>>
             PROVE  s.operation = "READ" /\ t.operation = "READ"
  BY DEF MutualExclusion
<1>1. \A x \in Machines : \A g \in Granted(x) :
        g.key \in Keys /\ Owns(x, g.key, g.operation)
  BY DEF Granted, IInv, GrantedIsOwned, SessionOf, TypeOK, Sessions, Calls
<1>2. m # n
  BY DEF Granted, IInv, OneSession
<1>3. Id(m) # Id(n)
  BY <1>2, IdsDiffer
<1> QED BY <1>1, <1>3 DEF Owns, IInv, OnlyReadersShare

\* What the client holds to be granted is owned, and no late request can take it away
\* (the invariant behind acquire_lock_wrapper, release_lock_wrapper and version++).
THEOREM GrantsAreOwned ==
  ASSUME Assumed PROVE Spec => []IInv
BY InvInit, InvStep, PTL DEF Spec

\* Two machines that were granted the lock of a file both only read it, for any
\* number of machines, keys, attempts and opens, whatever the network loses,
\* repeats or delays (acquire_lock_wrapper, release_lock_wrapper, version++).
THEOREM LocksExclude ==
  ASSUME Assumed PROVE Spec => []MutualExclusion
<1>1. IInv => MutualExclusion
  BY InvExcludes
<1> QED BY <1>1, GrantsAreOwned, PTL

(***************************************************************************)
(* A server that counts.  Messages arrive once, a process has one file open *)
(* at a time; opens fail and processes restart, and machine numbers may be  *)
(* the same everywhere, as they are in the code.                            *)
(***************************************************************************)
Counting == ~TracksOwners /\ ~Nested /\ ~Lossy

\* What m counts for at the server: the lock it was granted, from the moment the server
\* executes the acquire to the moment it executes the release.
Held(m) ==
  IF pc[m] = "idle"
  THEN {<<s.key, s.operation>> : s \in {t \in sessions[m] : t.locked}}
  ELSE IF \/ pc[m] = "acquire" /\ "OK" \in replies[m]
          \/ pc[m] = "open" /\ call[m].locked
          \/ pc[m] = "release" /\ replies[m] = {}
       THEN {<<call[m].key, call[m].operation>>}
       ELSE {}

Holders(k) == {m \in Machines : \E op \in LockTypes : <<k, op>> \in Held(m)}

\* The count of a key is that of its holders, or more where processes that failed held
\* it, all for the operation of the table, and a writer is alone.
KeyCounted(k) ==
  /\ locks[k].owners = {}
  /\ locks[k].operation # "READ" => locks[k].i <= 1
  /\ IsFiniteSet(Holders(k))
  /\ Cardinality(Holders(k)) <= locks[k].i
  /\ failures = 0 => Cardinality(Holders(k)) = locks[k].i
  /\ \A m \in Machines, op \in LockTypes : <<k, op>> \in Held(m) => locks[k].operation = op

\* A process that does not skip its release was granted the lock, and the other way
\* round as long as no process failed.
SkipTells(m) ==
  /\ pc[m] = "open" /\ ~skip[m] => call[m].locked
  /\ \A s \in sessions[m] : ~skip[m] => s.locked
  /\ failures = 0 /\ skip[m] =>
       \/ pc[m] = "open" /\ ~call[m].locked
       \/ pc[m] = "idle" /\ \E s \in sessions[m] : ~s.locked

\* A process is in one call or has one session; a call has one answer, and a release is
\* never refused.
ClientOrderly(m) ==
  /\ InCall(m) \/ pc[m] = "open" => sessions[m] = {}
  /\ \A s, t \in sessions[m] : s = t
  /\ ~InCall(m) => replies[m] = {}
  /\ pc[m] = "acquire" => ~call[m].locked
  /\ \A s, t \in replies[m] : s = t
  /\ pc[m] = "release" => replies[m] \subseteq {"OK"}
  /\ SkipTells(m)

CountInv ==
  /\ TypeOK
  /\ delayed = {}
  /\ \A m \in Machines : ClientOrderly(m)
  /\ \A k \in Keys : KeyCounted(k)

LEMMA HeldType ==
  ASSUME TypeOK, NEW m \in Machines
  PROVE  Held(m) \subseteq Keys \X LockTypes
BY DEF TypeOK, Held, Sessions, Calls

\* How the holders of a key change: not at all ...
LEMMA CountKept ==
  ASSUME NEW k \in Keys, KeyCounted(k), locks'[k] = locks[k],
         \A m \in Machines, op \in LockTypes : <<k, op>> \in Held(m)' <=> <<k, op>> \in Held(m),
         failures' = 0 => failures = 0
  PROVE  KeyCounted(k)'
<1>1. Holders(k)' = Holders(k)
  BY DEF Holders
<1> QED BY <1>1 DEF KeyCounted

\* ... or a process that fails is forgotten, ...
LEMMA CountForgets ==
  ASSUME NEW k \in Keys, NEW m \in Machines, KeyCounted(k), locks'[k] = locks[k],
         locks[k].i \in Nat,
         \A l \in Machines \ {m}, op \in LockTypes : <<k, op>> \in Held(l)' <=> <<k, op>> \in Held(l),
         Held(m)' = {}, failures' # 0
  PROVE  KeyCounted(k)'
<1>1. Holders(k)' = Holders(k) \ {m}
  BY DEF Holders
<1>2. /\ IsFiniteSet(Holders(k)')
      /\ Cardinality(Holders(k)') <= locks[k].i
  <2>1. IsFiniteSet(Holders(k)) /\ Cardinality(Holders(k)) <= locks[k].i
        /\ Cardinality(Holders(k)) \in Nat
    BY FS_CardinalityType DEF KeyCounted
  <2>2. /\ IsFiniteSet(Holders(k)')
        /\ Cardinality(Holders(k)') <= Cardinality(Holders(k))
    BY <1>1, <2>1, FS_Subset
  <2>3. Cardinality(Holders(k)') \in Nat
    BY <2>2, FS_CardinalityType
  <2> QED BY <2>1, <2>2, <2>3
<1> QED BY <1>1, <1>2 DEF KeyCounted

\* ... or one is granted the lock, ...
LEMMA CountGrants ==
  ASSUME Counting, NEW k \in Keys, NEW m \in Machines, NEW op \in LockTypes, NEW id, KeyCounted(k),
         locks[k] \in LockItems(Ids), locks'[k] = Acquired(locks[k], id, op),
         AcquireStatus(locks[k], id, op) = "OK",
         \A l \in Machines \ {m}, o \in LockTypes : <<k, o>> \in Held(l)' <=> <<k, o>> \in Held(l),
         Held(m) = {}, Held(m)' = {<<k, op>>}, failures' = failures
  PROVE  KeyCounted(k)'
<1>1. Holders(k)' = Holders(k) \cup {m} /\ m \notin Holders(k)
  BY DEF Holders
<1>2. Compatible(locks[k], op)
  BY DEF Counting, AcquireStatus, AlreadyGranted
<1>3. /\ locks'[k].i = locks[k].i + 1 /\ locks'[k].owners = {}
      /\ locks'[k].operation = op /\ locks[k].i \in Nat
  BY <1>2 DEF Counting, Acquired, AlreadyGranted, LockItems, KeyCounted
<1>4. /\ IsFiniteSet(Holders(k)')
      /\ Cardinality(Holders(k)') = Cardinality(Holders(k)) + 1
      /\ Cardinality(Holders(k)) \in Nat
  BY <1>1, FS_AddElement, FS_CardinalityType DEF KeyCounted
<1>5. op # "READ" => locks[k].i = 0
  BY <1>2 DEF Compatible, Free
<1>6. ASSUME NEW l \in Machines, NEW o \in LockTypes, <<k, o>> \in Held(l)'
      PROVE  o = op
  <2>1. CASE l = m
    BY <1>6, <2>1
  <2>2. CASE l # m
    <3>1. l \in Holders(k) /\ locks[k].operation = o
      BY <1>6, <2>2 DEF Holders, KeyCounted
    <3>2. Holders(k) # {} /\ IsFiniteSet(Holders(k))
      BY <3>1 DEF KeyCounted
    <3>3. Cardinality(Holders(k)) # 0
      BY <3>2, FS_EmptySet
    <3>4. locks[k].i # 0
      BY <1>3, <1>4, <3>3 DEF KeyCounted
    <3> QED BY <1>2, <3>1, <3>4 DEF Compatible, Free
  <2> QED BY <2>1, <2>2
<1> QED BY <1>3, <1>4, <1>5, <1>6 DEF KeyCounted

\* ... or the holder gives it back.
LEMMA CountReleases ==
  ASSUME Counting, NEW k \in Keys, NEW m \in Machines, NEW op \in LockTypes, NEW id, KeyCounted(k),
         locks[k] \in LockItems(Ids), locks'[k] = Released(locks[k], id),
         \A l \in Machines \ {m}, o \in LockTypes : <<k, o>> \in Held(l)' <=> <<k, o>> \in Held(l),
         Held(m) = {<<k, op>>}, Held(m)' = {}, failures' = failures
  PROVE  KeyCounted(k)' /\ ReleaseStatus(locks[k], id) = "OK"
<1>1. Holders(k)' = Holders(k) \ {m} /\ m \in Holders(k)
  BY DEF Holders
<1>2. /\ IsFiniteSet(Holders(k)')
      /\ Cardinality(Holders(k)') = Cardinality(Holders(k)) - 1
      /\ Cardinality(Holders(k)) \in Nat /\ Cardinality(Holders(k)') \in Nat
  BY <1>1, FS_RemoveElement, FS_CardinalityType DEF KeyCounted
<1>3. locks[k].i \in Nat /\ locks[k].i > 0
  BY <1>2 DEF KeyCounted, LockItems
<1>4. Releasable(locks[k], id)
  BY <1>3 DEF Counting, Releasable
<1>5. /\ locks'[k].i = locks[k].i - 1 /\ locks'[k].owners = {}
      /\ locks'[k].i # 0 => locks'[k].operation = locks[k].operation
  <2> DEFINE left == [locks[k] EXCEPT !.i = @ - 1, !.owners = @ \ {id}]
  <2>1. left.i = locks[k].i - 1 /\ left.owners = {} /\ left.operation = locks[k].operation
    BY DEF LockItems, KeyCounted
  <2>2. locks'[k] = IF Free(left) THEN Unlocked ELSE left
    BY <1>4 DEF Released, Counting
  <2> HIDE DEF left
  <2> QED BY <2>1, <2>2 DEF Free, Unlocked
<1>6. ASSUME NEW l \in Machines, NEW o \in LockTypes, <<k, o>> \in Held(l)'
      PROVE  locks'[k].operation = o
  <2>1. l # m
    BY <1>6
  <2>2. l \in Holders(k)' /\ locks[k].operation = o
    BY <1>1, <1>6, <2>1 DEF Holders, KeyCounted
  <2>3. Cardinality(Holders(k)') # 0
    BY <1>2, <2>2, FS_EmptySet
  <2>4. locks'[k].i # 0
    BY <1>2, <1>3, <1>5, <2>3 DEF KeyCounted
  <2> QED BY <1>5, <2>2, <2>4
<1>7. locks'[k].operation # "READ" => locks'[k].i <= 1
  BY <1>3, <1>5 DEF KeyCounted
<1>8. ReleaseStatus(locks[k], id) = "OK"
  BY <1>4 DEF ReleaseStatus
<1> QED BY <1>2, <1>3, <1>5, <1>6, <1>7, <1>8 DEF KeyCounted

\* What a step does not touch of a machine.
Client(m) == <<version[m], skip[m], pc[m], call[m], sessions[m], replies[m]>>

LEMMA ClientKept ==
  ASSUME NEW m \in Machines, ClientOrderly(m), Client(m)' = Client(m),
         failures' = 0 => failures = 0
  PROVE  ClientOrderly(m)' /\ Held(m)' = Held(m)
BY DEF Client, ClientOrderly, SkipTells, InCall, Held

\* A step of a process that keeps its lock, or is without one, changes nothing at the
\* server.
LEMMA HeldKept ==
  ASSUME TypeOK, TypeOK', CountInv, NEW m \in Machines, ClientOrderly(m)', Held(m)' = Held(m),
         \A l \in Machines \ {m} : Client(l)' = Client(l),
         UNCHANGED locks, delayed' = {}, failures' = 0 => failures = 0
  PROVE  CountInv'
<1>1. ASSUME NEW l \in Machines
      PROVE  ClientOrderly(l)' /\ Held(l)' = Held(l)
  BY ClientKept DEF CountInv
<1>2. ASSUME NEW k \in Keys
      PROVE  KeyCounted(k)'
  BY <1>1, CountKept DEF CountInv
<1> QED BY <1>1, <1>2 DEF CountInv

\* A process fails, or closes its file without the lock, and holds nothing any more.
LEMMA HeldForgotten ==
  ASSUME TypeOK, TypeOK', CountInv, NEW m \in Machines, ClientOrderly(m)', Held(m)' = {},
         \A l \in Machines \ {m} : Client(l)' = Client(l),
         UNCHANGED locks, delayed' = {}, failures' # 0
  PROVE  CountInv'
<1>1. ASSUME NEW l \in Machines, l # m
      PROVE  ClientOrderly(l)' /\ Held(l)' = Held(l)
  BY <1>1, ClientKept DEF CountInv
<1>2. ASSUME NEW k \in Keys
      PROVE  KeyCounted(k)'
  BY <1>1, CountForgets DEF CountInv, TypeOK, LockItems
<1> QED BY <1>1, <1>2 DEF CountInv

LEMMA CountServer ==
  ASSUME Counting, CountInv, TypeOK', NEW m \in Machines, ServerExecutes(m)
  PROVE  CountInv'
<1> PICK k, op : k = call[m].key /\ op = call[m].operation
  OBVIOUS
<1>1. /\ InCall(m) /\ replies[m] = {} /\ replies' = [replies EXCEPT ![m] = {Answer(Request(m))}]
      /\ UNCHANGED <<version, skip, pc, call, sessions, delayed, failures>>
      /\ locks' = Served(Request(m))
  BY DEF ServerExecutes, Counting
<1>2. /\ TypeOK /\ ClientOrderly(m) /\ k \in Keys /\ op \in LockTypes
      /\ locks[k] \in LockItems(Ids)
  BY DEF CountInv, TypeOK, Calls
<1>3. Request(m).key = k /\ Request(m).proc = pc[m]
      /\ (pc[m] = "acquire" => Request(m).operation = op)
  BY DEF Request
<1> DEFINE id == Request(m).id
<1>4. \A l \in Machines \ {m} : Client(l)' = Client(l)
  BY <1>1, <1>2 DEF Client, TypeOK
<1>5. \A l \in Machines \ {m} : ClientOrderly(l)' /\ Held(l)' = Held(l)
  BY <1>1, <1>4, ClientKept DEF CountInv
<1>6. replies'[m] = {Answer(Request(m))}
  BY <1>1, <1>2 DEF TypeOK
<1> HIDE DEF id
<1>7. CASE pc[m] = "acquire"
  <2>1. /\ locks' = [locks EXCEPT ![k] = Acquired(locks[k], id, op)]
        /\ Answer(Request(m)) = AcquireStatus(locks[k], id, op)
    BY <1>1, <1>3, <1>7 DEF Served, Answer, id
  <2>2. locks'[k] = Acquired(locks[k], id, op) /\ \A j \in Keys \ {k} : locks'[j] = locks[j]
    BY <1>2, <2>1 DEF TypeOK
  <2>3. ClientOrderly(m)'
    BY <1>1, <1>2, <1>6, <1>7 DEF ClientOrderly, SkipTells, InCall
  <2>4. Held(m) = {}
    BY <1>1, <1>7 DEF Held
  <2>5. CASE AcquireStatus(locks[k], id, op) = "OK"
    <3>1. Held(m)' = {<<k, op>>}
      BY <1>1, <1>6, <1>7, <2>1, <2>5 DEF Held
    <3>2. KeyCounted(k)'
      BY <1>1, <1>2, <1>5, <2>2, <2>4, <2>5, <3>1, CountGrants DEF CountInv
    <3>3. ASSUME NEW j \in Keys, j # k
          PROVE  KeyCounted(j)'
      <4>1. \A l \in Machines, o \in LockTypes : <<j, o>> \in Held(l)' <=> <<j, o>> \in Held(l)
        BY <1>5, <2>4, <3>1, <3>3
      <4> QED BY <1>1, <2>2, <3>3, <4>1, CountKept DEF CountInv
    <3> QED BY <1>1, <1>5, <2>3, <3>2, <3>3 DEF CountInv
  <2>6. CASE AcquireStatus(locks[k], id, op) # "OK"
    <3>1. Acquired(locks[k], id, op) = locks[k]
      BY <2>6 DEF AcquireStatus, Acquired
    <3>2. UNCHANGED locks
      BY <1>2, <2>1, <3>1 DEF TypeOK
    <3>3. Held(m)' = Held(m)
      BY <1>1, <1>6, <1>7, <2>1, <2>4, <2>6 DEF Held
    <3> QED BY <1>1, <1>2, <1>4, <2>3, <3>2, <3>3, HeldKept DEF CountInv
  <2> QED BY <2>5, <2>6
<1>8. CASE pc[m] = "release"
  <2>1. /\ locks' = [locks EXCEPT ![k] = Released(locks[k], id)]
        /\ Answer(Request(m)) = ReleaseStatus(locks[k], id)
    BY <1>1, <1>3, <1>8 DEF Served, Answer, id
  <2>2. locks'[k] = Released(locks[k], id) /\ \A j \in Keys \ {k} : locks'[j] = locks[j]
    BY <1>2, <2>1 DEF TypeOK
  <2>3. Held(m) = {<<k, op>>} /\ Held(m)' = {}
    BY <1>1, <1>6, <1>8 DEF Held
  <2>4. KeyCounted(k)' /\ ReleaseStatus(locks[k], id) = "OK"
    BY <1>1, <1>2, <1>5, <2>2, <2>3, CountReleases DEF CountInv
  <2>5. ClientOrderly(m)'
    BY <1>1, <1>2, <1>6, <1>8, <2>1, <2>4 DEF ClientOrderly, SkipTells, InCall
  <2>6. ASSUME NEW j \in Keys, j # k
        PROVE  KeyCounted(j)'
    <3>1. \A l \in Machines, o \in LockTypes : <<j, o>> \in Held(l)' <=> <<j, o>> \in Held(l)
      BY <1>5, <2>3, <2>6
    <3> QED BY <1>1, <2>2, <2>6, <3>1, CountKept DEF CountInv
  <2> QED BY <1>1, <1>5, <2>4, <2>5, <2>6 DEF CountInv
<1> QED BY <1>1, <1>7, <1>8 DEF InCall

LEMMA CountStep == Counting /\ CountInv /\ [Next]_vars => CountInv'
<1> SUFFICES ASSUME Counting, CountInv, [Next]_vars PROVE CountInv'
  OBVIOUS
<1>1. TypeOK /\ TypeOK' /\ delayed = {}
  BY TypeStep DEF CountInv
<1>2. ASSUME NEW m \in Machines, NEW k \in Keys, NEW op \in LockTypes, Open(m, k, op)
      PROVE  CountInv'
  <2>1. /\ pc[m] = "idle" /\ sessions[m] = {} /\ pc'[m] = "acquire" /\ ~call'[m].locked
        /\ UNCHANGED <<skip, sessions, replies, delayed, locks, failures>>
        /\ \A l \in Machines \ {m} : Client(l)' = Client(l)
    BY <1>1, <1>2 DEF Open, Counting, Client, TypeOK
  <2>2. ClientOrderly(m)
    BY DEF CountInv
  <2>3. ClientOrderly(m)'
    BY <2>1, <2>2 DEF ClientOrderly, SkipTells, InCall
  <2>4. Held(m)' = Held(m)
    BY <2>1, <2>2 DEF Held, ClientOrderly, InCall
  <2> QED BY <1>1, <2>1, <2>3, <2>4, HeldKept
<1>3. ASSUME NEW m \in Machines, CallReturns(m)
      PROVE  CountInv'
  <2>1. ClientOrderly(m) /\ InCall(m)
    BY <1>3 DEF CountInv, CallReturns, AcquireGranted, AcquireRetransmits, AcquireGivesUp,
                ReleaseDone, ReleaseRetransmits, InCall
  <2>2. /\ replies'[m] = {} /\ delayed' = {} /\ UNCHANGED <<version, sessions, locks, failures>>
        /\ \A l \in Machines \ {m} : Client(l)' = Client(l)
    BY <1>1, <1>3 DEF CallReturns, AcquireGranted, AcquireRetransmits, AcquireGivesUp,
                      ReleaseDone, ReleaseRetransmits, LeaveCall, Counting, Client, TypeOK
  <2>3. Refused(m) <=> \E s \in replies[m] : s # "OK"
    BY DEF Refused, Counting
  <2>4. ClientOrderly(m)' /\ Held(m)' = Held(m)
    <3>1. CASE AcquireGranted(m)
      <4>1. /\ pc[m] = "acquire" /\ "OK" \in replies[m] /\ pc'[m] = "open" /\ UNCHANGED skip
            /\ call'[m].locked /\ call'[m].key = call[m].key
            /\ call'[m].operation = call[m].operation
        BY <1>1, <3>1 DEF AcquireGranted, TypeOK, Calls
      <4> QED BY <2>1, <2>2, <4>1 DEF ClientOrderly, SkipTells, InCall, Held
    <3>2. CASE AcquireRetransmits(m)
      <4>1. /\ pc[m] = "acquire" /\ UNCHANGED <<pc, skip>> /\ call'[m].locked = call[m].locked
        BY <1>1, <3>2 DEF AcquireRetransmits, TypeOK, Calls
      <4>2. "OK" \notin replies[m]
        BY <2>1, <2>3, <3>2 DEF AcquireRetransmits, ClientOrderly
      <4> QED BY <2>1, <2>2, <4>1, <4>2 DEF ClientOrderly, SkipTells, InCall, Held
    <3>3. CASE AcquireGivesUp(m)
      <4>1. /\ pc[m] = "acquire" /\ pc'[m] = "open" /\ skip'[m] /\ UNCHANGED call
        BY <1>1, <3>3 DEF AcquireGivesUp, TypeOK
      <4>2. "OK" \notin replies[m]
        BY <2>1, <2>3, <3>3 DEF AcquireGivesUp, ClientOrderly
      <4> QED BY <2>1, <2>2, <4>1, <4>2 DEF ClientOrderly, SkipTells, InCall, Held
    <3>4. CASE ReleaseDone(m)
      <4>1. pc[m] = "release" /\ pc'[m] = "idle" /\ UNCHANGED <<skip, call>>
        BY <1>1, <3>4 DEF ReleaseDone, TypeOK
      <4>2. replies[m] # {} /\ sessions[m] = {}
        BY <2>1, <2>3, <3>4 DEF ReleaseDone, ClientOrderly
      <4> QED BY <2>1, <2>2, <4>1, <4>2 DEF ClientOrderly, SkipTells, InCall, Held
    <3>5. ~ReleaseRetransmits(m)
      BY <2>1, <2>3 DEF ReleaseRetransmits, ClientOrderly
    <3> QED BY <1>3, <3>1, <3>2, <3>3, <3>4, <3>5 DEF CallReturns
  <2> QED BY <1>1, <2>2, <2>4, HeldKept
<1>4. ASSUME NEW m \in Machines, OpenSucceeds(m)
      PROVE  CountInv'
  <2> PICK s : s = SessionOf(m)
    OBVIOUS
  <2>1. /\ pc[m] = "open" /\ pc'[m] = "idle" /\ sessions'[m] = sessions[m] \cup {s}
        /\ UNCHANGED <<version, skip, call, replies, delayed, locks, failures>>
        /\ \A l \in Machines \ {m} : Client(l)' = Client(l)
    BY <1>1, <1>4 DEF OpenSucceeds, Client, TypeOK
  <2>2. ClientOrderly(m) /\ sessions[m] = {}
    BY <2>1 DEF CountInv, ClientOrderly
  <2>3. /\ sessions'[m] = {s} /\ s.locked = call[m].locked
        /\ s.key = call[m].key /\ s.operation = call[m].operation
    BY <2>1, <2>2 DEF SessionOf
  <2>4. call[m].locked \in BOOLEAN
    BY <1>1 DEF TypeOK, Calls
  <2>5. ClientOrderly(m)'
    BY <2>1, <2>2, <2>3, <2>4 DEF ClientOrderly, SkipTells, InCall
  <2>6. Held(m)' = Held(m)
    BY <2>1, <2>3 DEF Held
  <2> QED BY <1>1, <2>1, <2>5, <2>6, HeldKept
<1>5. ASSUME NEW m \in Machines, OpenFails(m) \/ Crash(m)
      PROVE  CountInv'
  <2>1. /\ pc'[m] = "idle" /\ sessions'[m] = {} /\ replies'[m] = {}
        /\ delayed' = {} /\ UNCHANGED locks
        /\ \A l \in Machines \ {m} : Client(l)' = Client(l)
    BY <1>1, <1>5 DEF OpenFails, Crash, CountInv, ClientOrderly, InCall, Counting, Client, TypeOK
  <2>2. failures' # 0
    BY <1>1, <1>5 DEF OpenFails, Crash, TypeOK
  <2>3. ClientOrderly(m)' /\ Held(m)' = {}
    BY <2>1, <2>2 DEF ClientOrderly, SkipTells, InCall, Held
  <2> QED BY <1>1, <2>1, <2>2, <2>3, HeldForgotten
<1>6. ASSUME NEW m \in Machines, NEW s \in sessions[m], CloseSkipping(m, s)
      PROVE  CountInv'
  <2>1. /\ pc[m] = "idle" /\ skip[m] /\ ~skip'[m] /\ sessions'[m] = sessions[m] \ {s}
        /\ UNCHANGED <<version, pc, call, replies, delayed, locks, failures>>
        /\ \A l \in Machines \ {m} : Client(l)' = Client(l)
    BY <1>1, <1>6 DEF CloseSkipping, Client, TypeOK
  <2>2. ClientOrderly(m) /\ sessions[m] = {s}
    BY DEF CountInv, ClientOrderly
  <2>3. ClientOrderly(m)' /\ Held(m)' = {}
    BY <2>1, <2>2 DEF ClientOrderly, SkipTells, InCall, Held
  <2>4. failures = 0 => Held(m) = {}
    BY <2>1, <2>2 DEF ClientOrderly, SkipTells, Held
  <2> QED BY <1>1, <2>1, <2>3, <2>4, HeldKept, HeldForgotten
<1>7. ASSUME NEW m \in Machines, NEW s \in sessions[m], CloseReleasing(m, s)
      PROVE  CountInv'
  <2>1. /\ pc[m] = "idle" /\ ~skip[m] /\ pc'[m] = "release" /\ sessions'[m] = sessions[m] \ {s}
        /\ call'[m].key = s.key /\ call'[m].operation = s.operation
        /\ UNCHANGED <<version, skip, replies, delayed, locks, failures>>
        /\ \A l \in Machines \ {m} : Client(l)' = Client(l)
    BY <1>1, <1>7 DEF CloseReleasing, Client, TypeOK
  <2>2. ClientOrderly(m) /\ sessions[m] = {s}
    BY DEF CountInv, ClientOrderly
  <2>3. ClientOrderly(m)'
    BY <2>1, <2>2 DEF ClientOrderly, SkipTells, InCall
  <2>4. s.locked /\ replies[m] = {}
    BY <2>1, <2>2 DEF ClientOrderly, SkipTells, InCall
  <2>5. Held(m) = {<<s.key, s.operation>>}
    BY <2>1, <2>2, <2>4 DEF Held
  <2>6. Held(m)' = {<<s.key, s.operation>>}
    BY <2>1, <2>4 DEF Held
  <2> QED BY <1>1, <2>1, <2>3, <2>5, <2>6, HeldKept
<1>8. ASSUME NEW r \in delayed PROVE ~ServerExecutesDelayed(r)
  BY <1>1
<1>9. CASE UNCHANGED vars
  <2>1. \A m \in Machines : Client(m)' = Client(m)
    BY <1>9 DEF vars, Client
  <2>2. UNCHANGED <<delayed, locks, failures>>
    BY <1>9 DEF vars
  <2>3. \A m \in Machines : ClientOrderly(m)' /\ Held(m)' = Held(m)
    BY <2>1, <2>2, ClientKept DEF CountInv
  <2>4. \A k \in Keys : KeyCounted(k)'
    BY <2>2, <2>3, CountKept DEF CountInv
  <2> QED BY <1>1, <2>2, <2>3, <2>4 DEF CountInv
<1> QED BY <1>1, <1>2, <1>3, <1>4, <1>5, <1>6, <1>7, <1>8, <1>9, CountServer
        DEF Next, Terminating

LEMMA AlwaysCounted == ASSUME Counting PROVE Spec => []CountInv
<1>1. Init => CountInv
  <2> SUFFICES ASSUME Init PROVE CountInv
    OBVIOUS
  <2>1. \A m \in Machines : ClientOrderly(m) /\ Held(m) = {}
    BY DEF Init, ClientOrderly, SkipTells, InCall, Held
  <2>2. ASSUME NEW k \in Keys
        PROVE  KeyCounted(k)
    <3>1. Holders(k) = {}
      BY <2>1 DEF Holders
    <3>2. locks[k] = Unlocked
      BY DEF Init
    <3> QED BY <2>1, <3>1, <3>2, FS_EmptySet DEF KeyCounted, Unlocked
  <2> QED BY <2>1, <2>2, InitTypeOK DEF Init, CountInv
<1> QED BY <1>1, CountStep, PTL DEF Spec

\* What the server granted is held.
LEMMA GrantedIsHeld ==
  ASSUME CountInv, NEW m \in Machines, NEW s \in Granted(m)
  PROVE  /\ s.key \in Keys /\ s.operation \in LockTypes
         /\ <<s.key, s.operation>> \in Held(m)
         /\ m \in Holders(s.key) /\ locks[s.key].operation = s.operation
         /\ \A t \in Granted(m) : t = s
<1>1. TypeOK /\ ClientOrderly(m)
  BY DEF CountInv
<1>2. \/ pc[m] = "open" /\ call[m].locked /\ s = SessionOf(m) /\ sessions[m] = {}
      \/ pc[m] = "idle" /\ s \in sessions[m] /\ s.locked
  BY <1>1 DEF Granted, ClientOrderly, InCall, TypeOK
<1>3. s.key \in Keys /\ s.operation \in LockTypes
  BY <1>1, <1>2 DEF TypeOK, Calls, Sessions, SessionOf
<1>4. <<s.key, s.operation>> \in Held(m)
  BY <1>2 DEF Held, SessionOf
<1>5. \A t \in Granted(m) : t = s
  BY <1>1, <1>2 DEF Granted, ClientOrderly
<1> QED BY <1>3, <1>4, <1>5 DEF Holders, CountInv, KeyCounted

LEMMA OneMore ==
  ASSUME NEW S, NEW x, IsFiniteSet(S), Cardinality(S) = 1, x \notin S
  PROVE  IsFiniteSet(S \cup {x}) /\ Cardinality(S \cup {x}) = 2
BY FS_AddElement

\* The same promise of a server that only counts, when every message arrives once: for
\* any number of machines and keys, with opens that fail and restarts, and with machine
\* numbers that are all the same (acquire_1, release_1 and skip).
THEOREM CountsExclude ==
  ASSUME Counting PROVE Spec => []MutualExclusion
<1>1. CountInv => MutualExclusion
  <2> SUFFICES ASSUME CountInv, NEW m \in Machines, NEW n \in Machines,
                      NEW s \in Granted(m), NEW t \in Granted(n),
                      s.key = t.key, <<m, s>> # <<n, t>>
               PROVE  s.operation = "READ" /\ t.operation = "READ"
    BY DEF MutualExclusion
  <2> PICK k : k = s.key
    OBVIOUS
  <2>1. /\ k \in Keys /\ m \in Holders(k) /\ n \in Holders(k)
        /\ locks[k].operation = s.operation /\ locks[k].operation = t.operation
    BY GrantedIsHeld
  <2>2. m # n
    BY GrantedIsHeld
  <2>3. IsFiniteSet(Holders(k)) /\ Cardinality(Holders(k)) <= locks[k].i /\ locks[k].i \in Nat
    BY <2>1 DEF CountInv, KeyCounted, TypeOK, LockItems
  <2>4. IsFiniteSet({m, n}) /\ Cardinality({m, n}) = 2
    <3>1. IsFiniteSet({m}) /\ Cardinality({m}) = 1
      BY FS_Singleton
    <3>2. IsFiniteSet({m} \cup {n}) /\ Cardinality({m} \cup {n}) = 2
      BY <2>2, <3>1, OneMore
    <3>3. {m, n} = {m} \cup {n}
      OBVIOUS
    <3> QED BY <3>2, <3>3
  <2>5. Cardinality({m, n}) <= Cardinality(Holders(k))
    BY <2>1, <2>3, FS_Subset
  <2>6. locks[k].i > 1
    BY <2>3, <2>4, <2>5, FS_CardinalityType
  <2>7. locks[k].operation = "READ"
    BY <2>1, <2>3, <2>6 DEF CountInv, KeyCounted
  <2> QED BY <2>1, <2>7
<1> QED BY <1>1, AlwaysCounted, PTL

\* The sessions that hold the lock of a key are as many as the machines they are of.
LEMMA SessionsAreMachines ==
  ASSUME CountInv, NEW k \in Keys, NEW granted,
         granted = {x \in Machines \X UNION {Granted(m) : m \in Machines} :
                      x[2] \in Granted(x[1]) /\ x[2].key = k}
  PROVE  /\ IsFiniteSet(granted) /\ Cardinality(granted) <= Cardinality(Holders(k))
         /\ (\A m \in Machines : ~InCall(m)) => Cardinality(granted) = Cardinality(Holders(k))
<1> DEFINE f == [x \in granted |-> x[1]]
<1>1. \A x \in granted : x[1] \in Machines /\ x[2] \in Granted(x[1]) /\ x[2].key = k /\ x = <<x[1], x[2]>>
  OBVIOUS
<1>2. \A x \in granted : x[1] \in Holders(k)
  BY <1>1, GrantedIsHeld
<1>3. ASSUME NEW x \in granted, NEW y \in granted, x[1] = y[1]
      PROVE  x = y
  <2>1. x[2] = y[2]
    BY <1>1, <1>3, GrantedIsHeld
  <2> QED BY <1>1, <1>3, <2>1
<1>4. f \in Injection(granted, Holders(k))
  BY <1>2, <1>3 DEF Injection, IsInjective
<1>5. IsFiniteSet(Holders(k))
  BY DEF CountInv, KeyCounted
<1> HIDE DEF f
<1>6. /\ IsFiniteSet(granted) /\ Cardinality(granted) <= Cardinality(Holders(k))
      /\ Cardinality(granted) = Cardinality(Holders(k)) <=> f \in Surjection(granted, Holders(k))
  BY <1>4, <1>5, FS_Injection
<1>7. ASSUME \A m \in Machines : ~InCall(m)
      PROVE  f \in Surjection(granted, Holders(k))
  <2>1. ASSUME NEW m \in Holders(k)
        PROVE  \E x \in granted : x[1] = m
    <3>1. m \in Machines /\ pc[m] \in {"idle", "open"}
      BY <1>7 DEF Holders, CountInv, TypeOK, InCall
    <3>2. PICK s : s \in Granted(m) /\ s.key = k
      <4>1. PICK op \in LockTypes : <<k, op>> \in Held(m)
        BY DEF Holders
      <4>2. CASE pc[m] = "idle"
        <5>1. PICK s \in sessions[m] : s.locked /\ <<k, op>> = <<s.key, s.operation>>
          BY <4>1, <4>2 DEF Held
        <5> QED BY <5>1 DEF Granted
      <4>3. CASE pc[m] = "open"
        <5>1. call[m].locked /\ <<k, op>> = <<call[m].key, call[m].operation>>
          BY <4>1, <4>3 DEF Held
        <5>2. SessionOf(m).key = k
          BY <5>1 DEF SessionOf
        <5> QED BY <4>3, <5>1, <5>2 DEF Granted
      <4> QED BY <3>1, <4>2, <4>3
    <3>3. <<m, s>> \in granted
      BY <3>1, <3>2
    <3> QED BY <3>3
  <2>2. \A m \in Holders(k) : \E x \in granted : f[x] = m
    BY <2>1 DEF f
  <2> QED BY <1>4, <2>2 DEF Surjection, Injection
<1> QED BY <1>6, <1>7

\* The table of a server that counts agrees with the sessions, with the same generality:
\* what was granted is held, and as long as no process failed nothing else is, so that
\* no close leaks a lock or gives back one that is not its own (skip).
THEOREM TableMatchesSessions ==
  ASSUME Counting PROVE Spec => []LocksMatchSessions
<1>1. CountInv => LocksMatchSessions
  <2> SUFFICES ASSUME CountInv, NEW k \in Keys, NEW granted,
                      granted = {x \in Machines \X UNION {Granted(m) : m \in Machines} :
                                   x[2] \in Granted(x[1]) /\ x[2].key = k}
               PROVE  /\ \A x \in granted : locks[k].operation = x[2].operation
                      /\ locks[k].i >= Cardinality(granted)
                      /\ failures = 0 /\ (\A m \in Machines : ~InCall(m)) =>
                           locks[k].i = Cardinality(granted)
    BY DEF LocksMatchSessions
  <2>1. \A x \in granted : locks[k].operation = x[2].operation
    BY GrantedIsHeld
  <2>2. /\ locks[k].i \in Nat /\ Cardinality(Holders(k)) <= locks[k].i
        /\ failures = 0 => Cardinality(Holders(k)) = locks[k].i
        /\ Cardinality(Holders(k)) \in Nat
    BY FS_CardinalityType DEF CountInv, KeyCounted, TypeOK, LockItems
  <2>3. Cardinality(granted) \in Nat
    BY SessionsAreMachines, FS_CardinalityType
  <2> QED BY <2>1, <2>2, <2>3, SessionsAreMachines
<1> QED BY <1>1, AlwaysCounted, PTL
=============================================================================
