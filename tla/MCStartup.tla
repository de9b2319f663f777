------------------------------ MODULE MCStartup ------------------------------
(***************************************************************************)
(* A small instance of Startup for TLC.                                    *)
(***************************************************************************)
EXTENDS Startup

\* A volume with three directories, one in another.
MCTree == <<<<>>, <<1>>, <<1, 1>>, <<2>>>>

Linux(flag, release, btrfs, bins, native, disk) ==
    [flag |-> flag, release |-> release, btrfs |-> btrfs, bins |-> bins, native |-> native, disk |-> disk]

\* With btrfs on disks of several sizes, down to one below the reserve; without
\* it on kernels around 4.0; and with drivers the machine has not got.
MCMachines ==
    {Linux("detect", <<4, 15, 0>>, TRUE, TRUE, FALSE, disk) : disk \in {3, 4, 6, 9}} \union
    {Linux("detect", <<4, 15, 0>>, TRUE, TRUE, TRUE, 9),
     Linux("detect", <<3, 19>>, FALSE, TRUE, FALSE, 9), Linux("detect", <<4, 0>>, TRUE, FALSE, FALSE, 9),
     Linux("overlay", <<3, 19, 8>>, TRUE, TRUE, FALSE, 9), Linux("btrfs", <<5, 4, 0>>, FALSE, TRUE, FALSE, 9),
     Linux("naive", <<4>>, TRUE, TRUE, FALSE, 9)}

Line(container, size) == [container |-> container, size |-> size]
UserMaps == {<<Line(0, 4)>>, <<Line(0, 1), Line(1, 4)>>, <<Line(0, 15)>>, <<Line(3, 2), Line(0, 2)>>}
MCMaps == {<<>>} \union {<<u, g>> : u \in UserMaps, g \in UserMaps}
=============================================================================
