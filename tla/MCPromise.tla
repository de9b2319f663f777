----------------------------- MODULE MCPromise ------------------------------
(***************************************************************************)
(* A small instance of Promise for TLC; CallsReturn needs every caller, so *)
(* there is no symmetry.                                                   *)
(***************************************************************************)
EXTENDS Promise
=============================================================================
