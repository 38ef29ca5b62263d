---------------------------- MODULE MCLockService ----------------------------
(***************************************************************************)
(* LockService on small instances.                                          *)
(***************************************************************************)
EXTENDS LockService, TLC

CONSTANTS m1, m2

\* The global variable machine as it is hard coded, and as the lock server
\* needs it to tell the processes apart.
HardCodedId == [m \in Machines |-> 0]
DistinctIds == [m \in Machines |-> IF m = m1 THEN 1 ELSE 2]

SymmetricKeys == Permutations(Keys)
=============================================================================
