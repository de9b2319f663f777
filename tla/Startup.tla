------------------------------- MODULE Startup -------------------------------
(***************************************************************************)
(* baggageclaimcmd: what the server does before it serves, and serves from *)
(* then on, over restarts, reboots and changes of the machine.             *)
(*                                                                         *)
(* Runner makes the namespacers (IdMaps), chooses a driver by what the     *)
(* machine can do (KernelVersion), makes and mounts the btrfs image        *)
(* (BtrfsImage) and lets the driver recover.  cmd/fs_mounter makes and     *)
(* deletes the same image by hand while the server does not run.           *)
(***************************************************************************)
EXTENDS BtrfsImage, BtrfsDriver, KernelVersion, IdMaps, FiniteSets

CONSTANTS Machines,   \* [flag, release, btrfs, bins, native, disk]: --driver, the kernel, its
                      \* modules, the tools, whether the disk is btrfs itself, and its bytes
          Maps,       \* what /proc/self/uid_map and gid_map may be: pairs
          Reserve,    \* the bytes left free on the disk: 10 GiB
          Sizes,      \* sizes of images made by hand
          Volumes,    \* volumes that may be created
          Ids         \* owners of files

ASSUME ReserveFits == Reserve \in Nat /\ Reserve < Half
ASSUME MachinesFit ==
    Machines \subseteq [flag : {"detect", "btrfs", "overlay", "naive"}, release : Seq(Nat), btrfs : BOOLEAN,
                        bins : BOOLEAN, native : BOOLEAN, disk : 0..(2 * Half - 1)]

\* The numbers of a line are uints, and the kernel has no line without ids.
ASSUME MapsFit ==
    LET Map == Seq([container : 0..(2 * Half - 1), size : 1..(2 * Half - 1)]) IN
    Maps \subseteq {<<>>} \union (Map \X Map)

\* A size in megabytes other than 0.
ASSUME SizesFit == Sizes \subseteq 1..(2 * Half - 1)
ASSUME IdsFit == Ids \subseteq Nat

VARIABLES machine,  \* of Machines
          server,   \* the process: where it is, and what it has found out
          idmaps,   \* what the server has found in /proc: the maps of users and groups
          max,      \* maxID of the mappers; -1 without user namespaces
          file,     \* a file of an unprivileged or privileged volume
          moved,    \* history: has the machine changed since there are volumes, or was
                    \* fs_mounter told a size that is not the server's?
          stored    \* history: the volumes made and not removed by hand

serverVars == <<machine, server, moved, stored>>
fileVars == <<idmaps, max, file>>
vars == <<imageVars, driverVars, serverVars, fileVars>>

NoServer == [pc |-> "stopped", driver |-> "", overlay |-> FALSE, btrfs |-> FALSE, onBtrfs |-> FALSE]

\* privileged: what the volume is now; born: the file as the container sees it;
\* failed: history, what failed of SetPrivileged (a chmod at any time, the rest at the last).
NewFile(uid, symlink, setuid) == [uid |-> uid, symlink |-> symlink, setuid |-> setuid]
NoFile == [now |-> NewFile(0, FALSE, FALSE), born |-> NewFile(0, FALSE, FALSE), privileged |-> TRUE, failed |-> {}]

Init == /\ ImageInit /\ DriverInit
        /\ machine \in Machines
        /\ server = NoServer
        /\ idmaps = <<>>
        /\ max = -1
        /\ file = NoFile
        /\ moved = FALSE
        /\ stored = {}

(***************************************************************************)
(* Runner.                                                                 *)
(***************************************************************************)
In(pc) == server.pc = pc
Becomes(new) == server' = new /\ UNCHANGED fileVars
Advance(pc) == Becomes([server EXCEPT !.pc = pc])

\* Bound: what becomes of files and subvolumes is looked at between restarts.
Forget == idmaps' = <<>> /\ max' = -1 /\ file' = NoFile
Stop == server' = NoServer /\ Forget

UsesImage == machine.btrfs /\ machine.bins /\ ~machine.native /\ machine.flag \in {"detect", "btrfs"}

\* The namespacers; uid maps are missing where namespaces are not supported.
\* Bound: they are looked at on machines without an image.
Start(maps) ==
    /\ In("stopped")
    /\ At("none")
    /\ UsesImage => maps = <<>>
    /\ server' = [NoServer EXCEPT !.pc = "statfs"]
    /\ idmaps' = maps
    /\ max' = IF maps = <<>> THEN -1 ELSE MaxId(maps[1], maps[2])
    /\ UNCHANGED <<imageVars, driverVars, machine, moved, stored, file>>

\* driver(), up to the choice: statfs, the kernel, and whether btrfs can be used.
supportsFilesystem == machine.btrfs
Detect ==
    /\ In("statfs")
    /\ IF ~dir.there \/ ~Parses(machine.release) THEN Stop
       ELSE Becomes([server EXCEPT !.pc = "choose",
                        !.onBtrfs = mounts > 0 \/ machine.native,
                        !.overlay = CheckKernelVersion(machine.release, 4, 0, 0),
                        !.btrfs = supportsFilesystem /\ machine.bins])
    /\ UNCHANGED <<imageVars, driverVars, machine, moved, stored>>

ChooseDriver ==
    IF machine.flag # "detect" THEN machine.flag
    ELSE IF server.btrfs THEN "btrfs"
    ELSE IF server.overlay THEN "overlay"
    ELSE "naive"

\* Mutant of MountSize: does not look at the sign.
MountSizeUnsigned(diskSize) == Wrap(diskSize - Reserve)

\* Unsigned subtraction, and a comparison of the same bits as a signed number.
MountSize(diskSize) ==
    LET mountSize == Wrap(diskSize - Reserve) IN
    IF mountSize >= Half THEN diskSize ELSE mountSize

CreateImage ==
    /\ In("choose")
    /\ IF ChooseDriver = "btrfs" /\ ~server.onBtrfs
       THEN /\ Create(MountSize(machine.disk))
            /\ Becomes([server EXCEPT !.pc = "create", !.driver = ChooseDriver])
       ELSE /\ Becomes([server EXCEPT !.pc = "newDriver", !.driver = ChooseDriver])
            /\ UNCHANGED script
    /\ UNCHANGED <<image, loops, mounts, dir, misled, driverVars, machine, moved, stored>>

ImageCreated ==
    /\ In("create")
    /\ At("exit")
    /\ IF script.exit = "ok" THEN Advance("newDriver") ELSE Stop
    /\ script' = NoScript
    /\ UNCHANGED <<image, loops, mounts, dir, misled, driverVars, machine, moved, stored>>

NewDriver ==
    /\ In("newDriver")
    /\ IF server.driver = "overlay" /\ ~server.overlay THEN Stop ELSE Advance("recover")
    /\ UNCHANGED <<imageVars, driverVars, machine, moved, stored>>

\* NewFilesystem makes its directories, the driver recovers (see OverlayDriver),
\* and the API is served.
Serve ==
    /\ In("recover")
    /\ \/ Advance("ready")
       \/ Faults /\ Stop
    /\ UNCHANGED <<imageVars, driverVars, machine, moved, stored>>

(***************************************************************************)
(* The server at work, and what may happen to it.                          *)
(***************************************************************************)
\* Where the volumes are that it can see.
Visible == IF mounts > 0 THEN image.volumes ELSE dir.volumes

StoreVolume(v) ==
    /\ In("ready")
    /\ IF mounts > 0 THEN image' = [image EXCEPT !.volumes = @ \union {v}] /\ UNCHANGED dir
       ELSE dir' = [dir EXCEPT !.volumes = @ \union {v}] /\ UNCHANGED image
    /\ stored' = stored \union {v}
    /\ UNCHANGED <<loops, mounts, script, misled, driverVars, machine, server, moved, fileVars>>

\* Bound: subvolumes are looked at where the disk itself is btrfs.
BtrfsStep ==
    /\ In("ready")
    /\ server.driver = "btrfs" /\ machine.native
    /\ DriverStep(Faults)
    /\ UNCHANGED <<imageVars, serverVars, fileVars>>

\* tar, which runs in a user namespace if the volume is unprivileged and fails for
\* an owner that is not in the map.  Bound: what becomes of files is looked at
\* under the naive driver, one file at a time.
AddFile(uid, symlink, setuid) == LET namespaced == max # -1 /\ ~file.privileged IN
    /\ In("ready") /\ server.driver = "naive"
    /\ file.born = NoFile.born
    /\ IF namespaced THEN Entries(NewUnprivilegedMapper(max), uid) # {} ELSE max # -1 => uid <= max
    /\ symlink => ~setuid
    /\ file' = [file EXCEPT !.born = NewFile(uid, symlink, setuid),
                            !.now = NewFile(IF namespaced THEN Apply(NewUnprivilegedMapper(max), uid) ELSE uid, symlink, setuid),
                            !.failed = {}]
    /\ UNCHANGED <<imageVars, driverVars, serverVars, idmaps, max>>

\* NamespacePath: TranslatePath for every file that the walk finds; if it fails
\* the rest is as if chown had.  Without user namespaces the namespacers do nothing.
NamespacePath(privileged, f, failing) ==
    IF max = -1 THEN f
    ELSE TranslatePath(IF privileged THEN NewPrivilegedMapper(max) ELSE NewUnprivilegedMapper(max), f, failing)

\* NamespacePath, and StorePrivileged, which may fail, or not be reached, when
\* the files are changed already.
SetPrivileged(privileged, failing) ==
    /\ In("ready") /\ server.driver = "naive"
    /\ failing # {} => Faults
    /\ file' = [file EXCEPT !.now = NamespacePath(privileged, @, failing),
                            !.privileged = IF "store" \in failing THEN @ ELSE privileged,
                            !.failed = (@ \intersect {"chmod"}) \union failing]
    /\ UNCHANGED <<imageVars, driverVars, serverVars, idmaps, max>>

Kill == /\ ~In("stopped")
        /\ Stop
        /\ script' = NoScript
        /\ subs' = {} /\ erase' = NoErase
        /\ UNCHANGED <<image, loops, mounts, dir, misled, machine, moved, stored>>

Reboot(m) ==
    /\ RebootImage
    /\ Stop
    /\ machine' = m
    /\ moved' = (moved \/ (m # machine /\ stored # {}))
    /\ subs' = {} /\ erase' = NoErase
    /\ UNCHANGED stored

\* cmd/fs_mounter, which is of use where the server makes an image too; the size
\* is any, and may exceed the disk.
MounterCreate(bytes) ==
    /\ In("stopped") /\ At("none")
    /\ UsesImage
    /\ Create(bytes)
    /\ moved' = (moved \/ bytes # MountSize(machine.disk))
    /\ UNCHANGED <<image, loops, mounts, dir, misled, driverVars, machine, server, stored, fileVars>>

MounterRemove ==
    /\ In("stopped") /\ At("none")
    /\ UsesImage
    /\ Delete
    /\ UNCHANGED <<image, loops, mounts, dir, misled, driverVars, serverVars, fileVars>>

MounterExits ==
    /\ In("stopped") /\ At("exit")
    /\ script' = NoScript
    /\ UNCHANGED <<image, loops, mounts, dir, misled, driverVars, serverVars, fileVars>>

\* What a step takes away from the image and the directory.
Lost == (image.volumes \ image'.volumes) \union (dir.volumes \ dir'.volumes)

\* A step of the script, or of Delete, which removes volumes on purpose.
Script ==
    /\ ScriptStep(machine.btrfs)
    /\ stored' = IF script.pc \in {"removeAll", "remove"} THEN stored \ Lost ELSE stored
    /\ UNCHANGED <<driverVars, machine, server, moved, fileVars>>

Next ==
    \/ \E maps \in Maps : Start(maps)
    \/ Detect \/ CreateImage \/ ImageCreated \/ NewDriver \/ Serve
    \/ Script
    \/ \E v \in Volumes : StoreVolume(v)
    \/ BtrfsStep
    \/ \E u \in Ids, l, b \in BOOLEAN : AddFile(u, l, b)
    \/ \E p \in BOOLEAN, failing \in SUBSET {"chown", "chmod", "store"} : SetPrivileged(p, failing)
    \/ Kill
    \/ \E m \in Machines : Reboot(m)
    \/ (\E bytes \in Sizes : MounterCreate(bytes)) \/ MounterRemove \/ MounterExits

Spec == Init /\ [][Next]_vars
-----------------------------------------------------------------------------
\* However often it is started, killed and rebooted, and whichever command of a
\* start failed, the server finds every volume again that was not removed by
\* hand: no start formats or truncates the image, or serves the directory below
\* it.  The exceptions: a failure of "file | grep", which the script reads as an
\* image to format; a machine that has changed; and an image that fs_mounter gave
\* another size than the server gives it.
ServesVolumes == In("ready") /\ ~moved /\ "file" \notin misled => stored \subseteq Visible

\* A start that was killed or failed leaves nothing that the next one would do
\* again: there is one loop device, unless a failing losetup -j was read as none,
\* and it is mounted once, unless a failing mountpoint was read as no mount.
OneDevice == /\ "losetup" \notin misled => loops <= 1
             /\ "mountpoint" \notin misled => mounts <= 1

\* The driver that serves fits the machine: the overlay driver needs Linux 4.0
\* and the btrfs driver a btrfs file system below its volumes.  The image that
\* the server asks for is no larger than the disk, and leaves the reserve free if
\* the disk is larger; fs_mounter may ask for any.
DriverFits ==
    /\ In("ready") => /\ server.driver = "overlay" => machine.release[1] >= 4
                      /\ server.driver = "btrfs" => machine.native \/ mounts > 0
    /\ In("create") /\ At("size") =>
          /\ script.size <= machine.disk
          /\ machine.disk \in Reserve..(Half - 1) => script.size + Reserve = machine.disk

Knows(map, id) == \E i \in DOMAIN map : id \in map[i].container..(map[i].container + map[i].size - 1)
Gapless(map) == /\ map # <<>>
                /\ \A i \in DOMAIN map : map[i].container = IF i = 1 THEN 0 ELSE map[i - 1].container + map[i - 1].size

\* However often the privilege of a volume changes, its files have the owners and
\* the modes they had, root being the largest id where it is unprivileged.  A
\* change that failed half-way (a chown whose error is dropped, or the flag that is
\* not stored) leaves the wrong owners until one succeeds, which puts them right;
\* a mode that a failing chmod has lost is lost.  A file that belongs to the
\* largest id itself is the exception.  The largest id is one that both maps
\* know, if they have no gaps.
OwnersRight ==
    /\ file.born.uid # max =>
          /\ file.now.symlink = file.born.symlink
          /\ file.failed \intersect {"chown", "store"} = {} =>
                file.now.uid = IF ~file.privileged /\ max # -1 /\ file.born.uid = 0 THEN max ELSE file.born.uid
          /\ "chmod" \notin file.failed => file.now.setuid = file.born.setuid
    /\ idmaps # <<>> /\ (\A i \in 1..2 : Gapless(idmaps[i])) => \A i \in 1..2 : Knows(idmaps[i], max)

\* DestroyVolume of the btrfs driver deletes inner subvolumes before outer ones,
\* so that none is refused, and leaves none behind; if it fails on the way, the
\* volume itself is still there with what is left in it.
LeafFirst == /\ erase.pc # "refused"
             /\ erase.pc = "none" => subs = {} \/ <<>> \in subs
=============================================================================
