------------------------- MODULE MCVolumeRepository -------------------------
(***************************************************************************)
(* Model-checking instances of VolumeRepository.                           *)
(***************************************************************************)
EXTENDS VolumeRepository, TLC

Symmetry == Permutations(Actors) \union Permutations(Handles)
=============================================================================
