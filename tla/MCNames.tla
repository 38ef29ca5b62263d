------------------------------ MODULE MCNames ------------------------------
(***************************************************************************)
(* Names on a small instance: the directory a and the files /a/b and /a+b,  *)
(* which get_key maps to one key.                                           *)
(***************************************************************************)
EXTENDS Names, TLC

CONSTANTS a, a_b, aplusb, akey

MCParent == [n \in Dirs \cup Files |-> IF n = a_b THEN a ELSE Root]
MCKey == [f \in Files |-> akey]
Symmetry == Permutations(Handles)
=============================================================================
