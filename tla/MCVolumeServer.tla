--------------------------- MODULE MCVolumeServer ---------------------------
(***************************************************************************)
(* Small instances of VolumeServer for TLC.                                *)
(***************************************************************************)
EXTENDS VolumeServer, TLC

Symmetry == Permutations(Clients) \union Permutations(Workers) \union Permutations(Ids)
=============================================================================
