---------------------------- MODULE MCVolumeAPI ----------------------------
(***************************************************************************)
(* A small instance of VolumeAPI for TLC.                                  *)
(***************************************************************************)
EXTENDS VolumeAPI, TLC

v4(host) == [family |-> 4, host |-> host]
v6(host) == [family |-> 6, host |-> host]
Interface(matches, fails, addrs) == [matches |-> matches, fails |-> fails, addrs |-> addrs]

\* The loopback interface does not match the pattern; another may have an
\* address of either family, none, or fail.
MCInterfaces ==
    LET lo == Interface(FALSE, FALSE, <<v4("lo")>>)
        eths == {Interface(TRUE, FALSE, <<v6("other"), v4("p2p")>>), Interface(TRUE, FALSE, <<v6("other")>>),
                 Interface(TRUE, FALSE, <<>>), Interface(TRUE, TRUE, <<>>)}
    IN {<<lo, e>> : e \in eths} \union {<<e, g>> : e \in eths, g \in eths}

Symmetry == Permutations(Handles) \union Permutations(Slots) \union Permutations(Files)
=============================================================================
