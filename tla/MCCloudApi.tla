----------------------------- MODULE MCCloudApi -----------------------------
(***************************************************************************)
(* CloudApi on a small instance: three keys behind "(null)".                *)
(***************************************************************************)
EXTENDS CloudApi

MCKeys == 2..4
=============================================================================
