-------------------------- MODULE MCOverlayDriver ---------------------------
(***************************************************************************)
(* Small instances of OverlayDriver for TLC.                               *)
(***************************************************************************)
EXTENDS OverlayDriver, TLC

Symmetry == Permutations(Handles) \union Permutations(Values)
=============================================================================
