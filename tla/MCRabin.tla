------------------------------ MODULE MCRabin -------------------------------
(***************************************************************************)
(* Rabin on a small instance: words of a few bits, bytes of two.            *)
(***************************************************************************)
EXTENDS Rabin

\* x^4 + x + 1
SmallPoly == {0, 1, 4}
=============================================================================
