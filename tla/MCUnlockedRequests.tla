------------------------- MODULE MCUnlockedRequests -------------------------
(***************************************************************************)
(* Small instances of UnlockedRequests for TLC.                            *)
(***************************************************************************)
EXTENDS UnlockedRequests, FiniteSetsExt, TLC

CONSTANTS short, long

\* A map without properties has one block, the others two and three.
Weight == short :> 1 @@ long :> 2
MCSize == [p \in Properties |-> 1 + MapThenSumSet(LAMBDA n : Weight[p[n]], DOMAIN p)]

Symmetry == Permutations(ReadHandles)
=============================================================================
