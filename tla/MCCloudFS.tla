------------------------------ MODULE MCCloudFS ------------------------------
(***************************************************************************)
(* CloudFS on small instances.                                              *)
(***************************************************************************)
EXTENDS CloudFS, FiniteSets, TLC

\* The paths of an instance have keys of their own.
MCKey == [p \in Paths |-> p]

Symmetry == Permutations(Machines) \cup Permutations(Handles) \cup Permutations(Blocks)
=============================================================================
