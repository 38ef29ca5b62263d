------------------------------ MODULE LockTable ------------------------------
(***************************************************************************)
(* The lock server that cloudfs calls through acquire_1 and release_1.      *)
(* Its program is not in the repository: this module models it from what    *)
(* the client side fixes, that is the enumerations status and type, the     *)
(* struct lock_item with its count i and its operation, and the identity    *)
(* (machine, version) that every request carries.  Whether the server looks *)
(* at that identity cannot be told from the client, so both servers are     *)
(* modelled: TracksOwners chooses between a table of owners and the bare    *)
(* count of lock_item.                                                      *)
(***************************************************************************)
EXTENDS Naturals

CONSTANT TracksOwners

ASSUME TracksOwnersAssumption == TracksOwners \in BOOLEAN

\* enum status and enum type
Status    == {"ERROR", "OK", "UNALLOC"}
LockTypes == {"READ", "WRITE"}

\* One entry of the table: the operation it is locked for, how many times it
\* was granted (counting server) and to whom (owner-tracking server).
LockItems(Ids) ==
  [operation : LockTypes \cup {"UNDEFINED"}, i : Nat, owners : SUBSET Ids]

Unlocked == [operation |-> "UNDEFINED", i |-> 0, owners |-> {}]

Free(item) == item.i = 0 /\ item.owners = {}

Compatible(item, op) ==
  \/ Free(item)
  \/ op = "READ" /\ item.operation = "READ"

\* The owner asks again for what it already has: a retransmitted request.
AlreadyGranted(item, id, op) ==
  TracksOwners /\ id \in item.owners /\ item.operation = op

AcquireStatus(item, id, op) ==
  IF AlreadyGranted(item, id, op) \/ Compatible(item, op) THEN "OK" ELSE "ERROR"

Acquired(item, id, op) ==
  IF AlreadyGranted(item, id, op) \/ ~Compatible(item, op)
  THEN item
  ELSE [operation |-> op,
        i         |-> IF TracksOwners THEN item.i ELSE item.i + 1,
        owners    |-> IF TracksOwners THEN item.owners \cup {id} ELSE item.owners]

\* A release is honoured when there is something of the caller's to release;
\* otherwise the server answers UNALLOC.
Releasable(item, id) == IF TracksOwners THEN id \in item.owners ELSE item.i > 0

\* Mistake: answers with a value of enum type.
ReleaseStatusConfused(item, id) == IF Releasable(item, id) THEN "OK" ELSE "UNDEFINED"

ReleaseStatus(item, id) == IF Releasable(item, id) THEN "OK" ELSE "UNALLOC"

Released(item, id) ==
  IF ~Releasable(item, id) THEN item
  ELSE LET left == [item EXCEPT !.i      = IF TracksOwners THEN @ ELSE @ - 1,
                                !.owners = @ \ {id}]
       IN  IF Free(left) THEN Unlocked ELSE left
=============================================================================
