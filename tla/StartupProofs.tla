---------------------------- MODULE StartupProofs ----------------------------
(***************************************************************************)
(* Proofs about Startup, for every machine, every pair of id maps, every   *)
(* size of disks and every tree of directories.  Each of the five          *)
(* invariants needs a strengthening of its own: what the script knows of   *)
(* the image at each of its commands (ImageInv, SizeInv), what the server  *)
(* has found out (ServerInv), where the volumes are (StoredInv), what a    *)
(* file was before (FileInv), and what the walk has found (EraseInv).      *)
(***************************************************************************)
EXTENDS Startup, TLAPS, FiniteSetTheorems, SequenceTheorems

CreatePcs == {"size", "touch", "truncate", "find", "attach", "file", "mkfs", "mkdir", "mountpoint", "mount"}
DeletePcs == {"umount", "removeAll", "detach", "remove"}
ServerPcs == {"stopped", "statfs", "choose", "create", "newDriver", "recover", "ready"}

ImageType == [there : BOOLEAN, size : Nat, btrfs : BOOLEAN, cut : BOOLEAN, volumes : SUBSET Volumes]
DirType == [there : BOOLEAN, volumes : SUBSET Volumes]
ScriptType == [pc : CreatePcs \union DeletePcs \union {"none", "exit"}, size : Nat, lo : Nat,
               exit : {"", "ok", "failed"}]
ServerType == [pc : ServerPcs, driver : {"", "btrfs", "overlay", "naive"},
               overlay : BOOLEAN, btrfs : BOOLEAN, onBtrfs : BOOLEAN]

TypeOK ==
    /\ image \in ImageType
    /\ loops \in Nat
    /\ mounts \in Nat
    /\ dir \in DirType
    /\ script \in ScriptType
    /\ machine \in Machines
    /\ server \in ServerType
    /\ moved \in BOOLEAN
    /\ stored \in SUBSET Volumes

\* The machines on which the volumes are in an image.
ImageMachine == /\ ~machine.native
                /\ machine.flag = "btrfs" \/ (machine.flag = "detect" /\ machine.btrfs /\ machine.bins)

\* Each command of the script relies on what the ones before have seen, or believe
\* to have seen.
ImageInv ==
    /\ "losetup" \notin misled => loops <= 1
    /\ "mountpoint" \notin misled => mounts <= 1
    /\ At("attach") => loops = 0 \/ "losetup" \in misled
    /\ script.pc \in {"mount", "removeAll"} => mounts = 0 \/ "mountpoint" \in misled
    /\ script.pc \in {"detach", "remove"} => mounts = 0
    /\ mounts > 0 \/ script.pc # "none" => ImageMachine
    /\ mounts > 0 \/ script.pc \in CreatePcs \ {"size", "touch", "truncate"} => image.there
    /\ At("touch") => ~image.there
    /\ At("truncate") => image.there
    /\ ~image.there => image = NoImage

\* As long as nobody gives the image another size it keeps the one that the server
\* gives it, and what is mounted, or about to be, has a file system.
SizeInv == ~moved =>
    /\ script.pc \in CreatePcs => script.size = MountSize(machine.disk)
    /\ mounts > 0 \/ script.pc \in CreatePcs \ {"size", "touch", "truncate"} => image.size = MountSize(machine.disk)
    /\ mounts > 0 \/ script.pc \in {"mkdir", "mountpoint", "mount"} => image.btrfs
    /\ At("mkfs") => image.volumes = {} \/ "file" \in misled
    /\ ~image.btrfs => image.volumes = {}

\* What the server has found out is still so.
ServerInv ==
    /\ server.pc \notin {"stopped", "create"} => At("none")
    /\ In("create") => /\ script.pc \in CreatePcs \union {"exit"}
                       /\ script.exit = "ok" => mounts > 0
                       /\ script.size = MountSize(machine.disk)
    /\ server.pc \notin {"stopped", "statfs"} =>
          /\ server.onBtrfs => machine.native \/ mounts > 0
          /\ machine.native => server.onBtrfs
          /\ server.overlay => machine.release[1] >= 4
          /\ server.btrfs = (machine.btrfs /\ machine.bins)
    /\ server.pc \in {"create", "newDriver", "recover", "ready"} => server.driver = ChooseDriver
    /\ server.pc \in {"newDriver", "recover", "ready"} /\ server.driver = "btrfs" => machine.native \/ mounts > 0
    /\ server.pc \in {"recover", "ready"} /\ server.driver = "overlay" => server.overlay

\* Where the volumes are as long as the machine stays and file does not fail.
StoredInv ==
    ~moved /\ "file" \notin misled =>
              /\ ImageMachine => /\ stored \subseteq image.volumes
                                 /\ stored # {} => image.size = MountSize(machine.disk)
              /\ ~ImageMachine => stored \subseteq dir.volumes

\* What a file was before, and the mappers' largest id; without a server there is
\* no file.
FileType == [uid : Nat, symlink : BOOLEAN, setuid : BOOLEAN]
FilesType == [now : FileType, born : FileType, privileged : BOOLEAN, failed : SUBSET {"chown", "chmod", "store"}]

\* The owner outside of a file that is u's inside.
Owner(privileged, u) == IF ~privileged /\ max # -1 /\ u = 0 THEN max ELSE u

FileInv ==
    /\ max \in Nat \union {-1}
    /\ file \in FilesType
    /\ file.now.symlink => ~file.now.setuid
    /\ file.born.uid # max =>
          /\ file.now.symlink = file.born.symlink
          /\ file.now.uid \in {Owner(TRUE, file.born.uid), Owner(FALSE, file.born.uid)}
          /\ file.failed \intersect {"chown", "store"} = {} => file.now.uid = Owner(file.privileged, file.born.uid)
          /\ "chmod" \notin file.failed => file.now.setuid = file.born.setuid
    /\ In("stopped") => file = NoFile

\* The largest id is that of the maps the server has found.
Lines == [container : 0..(2 * Half - 1), size : 1..(2 * Half - 1)]
MapInv == idmaps # <<>> => /\ idmaps[1] \in Seq(Lines) /\ idmaps[2] \in Seq(Lines)
                           /\ max = MaxId(idmaps[1], idmaps[2])

Paths == {Tree[i] : i \in 1..Len(Tree)}

\* The walk lists the subvolumes it has passed, outer ones first; the deletion
\* takes them from the end.
EraseInv ==
    /\ subs \subseteq Paths
    /\ erase \in [pc : {"none", "walk", "delete"}, next : 1..Len(Tree), found : Seq(Paths)]
    /\ \A k, l \in 1..Len(erase.found) : k < l =>
          ~IsPrefix(erase.found[l], erase.found[k]) /\ erase.found[l] # erase.found[k]
    /\ erase.found # <<>> => erase.found[1] = <<>>
    /\ erase.pc = "none" => subs = {} \/ <<>> \in subs
    /\ erase.pc = "walk" => /\ <<>> \in subs
                            /\ erase.next > 1 <=> erase.found # <<>>
                            /\ \A i \in 1..(erase.next - 1) : Tree[i] \in subs =>
                                  \E k \in 1..Len(erase.found) : erase.found[k] = Tree[i]
                            /\ \A k \in 1..Len(erase.found) : \E i \in 1..(erase.next - 1) :
                                  erase.found[k] = Tree[i] /\ Tree[i] \in subs
    /\ erase.pc = "delete" => subs = {erase.found[k] : k \in 1..Len(erase.found)}
-----------------------------------------------------------------------------
\* The size of the image: the unsigned subtraction that wraps is noticed by its
\* sign.
LEMMA MountSizeRange ==
  ASSUME NEW d \in 0..(2 * Half - 1)
  PROVE  /\ MountSize(d) \in 0..d
         /\ d \in Reserve..(Half - 1) => MountSize(d) + Reserve = d
BY HalfPositive, ReserveFits DEF MountSize, Wrap

\* Only the overlay driver of a kernel from 4.0 on is offered.
LEMMA KernelFits ==
  ASSUME NEW r \in Seq(Nat), Parses(r)
  PROVE  /\ CheckKernelVersion(r, 4, 0, 0) \in BOOLEAN
         /\ CheckKernelVersion(r, 4, 0, 0) => r[1] >= 4
<1>1. r[1] \in Nat
  BY DEF Parses
<1>2. r[1] < 4 => CompareKernelVersion(ParseRelease(r), [kernel |-> 4, major |-> 0, minor |-> 0]) = -1
  BY <1>1 DEF CompareKernelVersion, ParseRelease
<1>3. CheckKernelVersion(r, 4, 0, 0) => r[1] >= 4
  BY <1>1, <1>2 DEF CheckKernelVersion
<1>4. CheckKernelVersion(r, 4, 0, 0) \in BOOLEAN
  BY DEF CheckKernelVersion
<1> QED BY <1>3, <1>4

\* The fields of a machine.
LEMMA MachineFields ==
  ASSUME NEW m \in Machines
  PROVE  /\ m.flag \in {"detect", "btrfs", "overlay", "naive"} /\ m.release \in Seq(Nat)
         /\ m.btrfs \in BOOLEAN /\ m.bins \in BOOLEAN /\ m.native \in BOOLEAN /\ m.disk \in 0..(2 * Half - 1)
         /\ MountSize(m.disk) \in Nat
BY MachinesFit, MountSizeRange

\* The steps of the script keep the types.
LEMMA ScriptTypes ==
  ASSUME TypeOK, NEW k, ScriptStep(k)
  PROVE  /\ image' \in ImageType /\ loops' \in Nat /\ mounts' \in Nat
         /\ dir' \in DirType /\ script' \in ScriptType
<1>1. image \in ImageType /\ loops \in Nat /\ mounts \in Nat /\ dir \in DirType /\ script \in ScriptType
  BY DEF TypeOK
<1>2. ASSUME NEW pc \in CreatePcs \union DeletePcs, Goto(pc) PROVE script' \in ScriptType
  BY <1>1, <1>2 DEF Goto, ScriptType
<1>3. ASSUME NEW status \in {"ok", "failed"}, Exit(status) PROVE script' \in ScriptType
  BY <1>1, <1>3 DEF Exit, ScriptType
<1>4. NoImage \in ImageType
  BY DEF NoImage, ImageType
<1>5. CASE CheckSize \/ CheckFile \/ CheckMount \/ CommandFails
  BY <1>1, <1>2, <1>3, <1>5 DEF CheckSize, CheckFile, CheckMount, CommandFails, CreatePcs, DeletePcs
<1>14. CASE FindLoop
  <2>1. script' \in ScriptType
    <3>1. CASE Goto("attach")
      BY <1>2, <3>1 DEF CreatePcs
    <3>2. CASE ~Goto("attach")
      BY <1>1, <1>14, <3>2 DEF FindLoop, ScriptType, CreatePcs
    <3> QED BY <3>1, <3>2
  <2> QED BY <1>1, <1>14, <2>1 DEF FindLoop
<1>15. CASE Attach
  <2>1. script' = [script EXCEPT !.pc = "file", !.lo = 1] /\ loops' = loops + 1 /\ UNCHANGED <<image, mounts, dir>>
    BY <1>15 DEF Attach
  <2>2. script' \in ScriptType
    BY <1>1, <2>1 DEF ScriptType, CreatePcs
  <2> QED BY <1>1, <2>1, <2>2
<1>6. CASE Touch
  BY <1>1, <1>2, <1>4, <1>6 DEF Touch, ImageType, CreatePcs, DeletePcs
<1>7. CASE Truncate
  <2>1. image' \in ImageType
    BY <1>1, <1>7 DEF Truncate, ImageType, ScriptType
  <2> QED BY <1>1, <1>2, <1>7, <2>1 DEF Truncate, CreatePcs, DeletePcs
<1>8. CASE Mkfs
  <2>1. image' \in ImageType
    BY <1>1, <1>8 DEF Mkfs, ImageType
  <2> QED BY <1>1, <1>2, <1>3, <1>8, <2>1 DEF Mkfs, CreatePcs, DeletePcs
<1>9. CASE RemoveImage
  BY <1>1, <1>3, <1>4, <1>9 DEF RemoveImage
<1>10. CASE Mount(k)
  BY <1>1, <1>2, <1>3, <1>10 DEF Mount, CreatePcs, DeletePcs
<1>11. CASE Umount \/ Detach
  BY <1>1, <1>2, <1>3, <1>11 DEF Umount, Detach, CreatePcs, DeletePcs
<1>12. CASE Mkdir
  <2>1. dir' \in DirType
    BY <1>1, <1>12 DEF Mkdir, DirType
  <2> QED BY <1>1, <1>2, <1>12, <2>1 DEF Mkdir, CreatePcs, DeletePcs
<1>13. CASE RemoveAll
  <2>1. dir' \in DirType /\ image' \in ImageType
    <3>1. [there |-> FALSE, volumes |-> {}] \in DirType
      BY DEF DirType
    <3>2. [image EXCEPT !.volumes = {}] \in ImageType
      BY <1>1 DEF ImageType
    <3> QED BY <1>1, <1>13, <3>1, <3>2 DEF RemoveAll
  <2> QED BY <1>1, <1>2, <1>3, <1>13, <2>1 DEF RemoveAll, CreatePcs, DeletePcs
<1> QED BY <1>5, <1>6, <1>7, <1>8, <1>9, <1>10, <1>11, <1>12, <1>13, <1>14, <1>15 DEF ScriptStep

\* What steps of the server may do to its state.
LEMMA ServerTypes ==
  ASSUME TypeOK, Detect \/ CreateImage \/ ImageCreated \/ NewDriver \/ Serve
  PROVE  server' \in ServerType
<1> USE DEF ServerType, ServerPcs
<1>1. NoServer \in ServerType
  BY DEF NoServer
<1>2. server \in ServerType /\ machine \in Machines
  BY DEF TypeOK
<1>3. CASE Detect
  <2>1. CASE Stop
    BY <1>1, <2>1 DEF Stop
  <2>2. CASE ~Stop
    <3>1. Parses(machine.release)
      BY <1>3, <2>2 DEF Detect
    <3>2. server' = [server EXCEPT !.pc = "choose", !.onBtrfs = mounts > 0 \/ machine.native,
                        !.overlay = CheckKernelVersion(machine.release, 4, 0, 0),
                        !.btrfs = supportsFilesystem /\ machine.bins]
      BY <1>3, <2>2 DEF Detect, Becomes
    <3>3. CheckKernelVersion(machine.release, 4, 0, 0) \in BOOLEAN
      BY <1>2, <3>1, KernelFits, MachineFields
    <3>4. (mounts > 0 \/ machine.native) \in BOOLEAN /\ (supportsFilesystem /\ machine.bins) \in BOOLEAN
      OBVIOUS
    <3> QED BY <1>2, <3>2, <3>3, <3>4
  <2> QED BY <2>1, <2>2
<1>4. CASE CreateImage
  <2>1. ChooseDriver \in {"", "btrfs", "overlay", "naive"}
    BY <1>2, MachineFields DEF ChooseDriver
  <2> QED BY <1>2, <1>4, <2>1 DEF CreateImage, Becomes
<1>5. CASE ImageCreated
  BY <1>1, <1>2, <1>5 DEF ImageCreated, Advance, Becomes, Stop
<1>6. CASE NewDriver
  BY <1>1, <1>2, <1>6 DEF NewDriver, Advance, Becomes, Stop
<1>7. CASE Serve
  BY <1>1, <1>2, <1>7 DEF Serve, Advance, Becomes, Stop
<1> QED BY <1>3, <1>4, <1>5, <1>6, <1>7

\* The type invariant.
LEMMA TypeStep == TypeOK /\ [Next]_vars => TypeOK'
<1> SUFFICES ASSUME TypeOK, [Next]_vars PROVE TypeOK'
  OBVIOUS
<1>1. /\ image \in ImageType /\ loops \in Nat /\ mounts \in Nat /\ dir \in DirType /\ script \in ScriptType
      /\ machine \in Machines /\ server \in ServerType /\ moved \in BOOLEAN /\ stored \in SUBSET Volumes
  BY DEF TypeOK
<1>2. ASSUME image' \in ImageType, loops' \in Nat, mounts' \in Nat, dir' \in DirType, script' \in ScriptType,
             machine' \in Machines, server' \in ServerType, moved' \in BOOLEAN, stored' \in SUBSET Volumes
      PROVE  TypeOK'
  BY <1>2 DEF TypeOK
<1>3. NoScript \in ScriptType /\ NoServer \in ServerType
  BY DEF NoScript, NoServer, ScriptType, ServerType, ServerPcs
<1>4. ASSUME NEW maps \in Maps, Start(maps) PROVE TypeOK'
  <2>1. server' \in ServerType
    BY <1>3, <1>4 DEF Start, ServerType, ServerPcs
  <2> QED BY <1>1, <1>2, <1>4, <2>1 DEF Start, imageVars
<1>5. CASE Detect \/ NewDriver \/ Serve
  BY <1>1, <1>2, <1>5, ServerTypes DEF Detect, NewDriver, Serve, imageVars
<1>6. ASSUME NEW bytes \in Nat, Create(bytes) PROVE script' \in ScriptType
  BY <1>6 DEF Create, NoScript, ScriptType, CreatePcs
<1>7. MountSize(machine.disk) \in Nat
  BY <1>1, MachineFields
<1>8. CASE CreateImage
  BY <1>1, <1>2, <1>6, <1>7, <1>8, ServerTypes DEF CreateImage
<1>9. CASE ImageCreated
  BY <1>1, <1>2, <1>3, <1>9, ServerTypes DEF ImageCreated
<1>10. CASE Script
  <2>1. stored' \in SUBSET Volumes
    BY <1>1, <1>10 DEF Script
  <2> QED BY <1>1, <1>2, <1>10, <2>1, ScriptTypes DEF Script
<1>11. ASSUME NEW v \in Volumes, StoreVolume(v) PROVE TypeOK'
  <2>1. image' \in ImageType /\ dir' \in DirType
    BY <1>1, <1>11 DEF StoreVolume, ImageType, DirType
  <2> QED BY <1>1, <1>2, <1>11, <2>1 DEF StoreVolume
<1>12. CASE BtrfsStep \/ (\E u \in Ids, l, b \in BOOLEAN : AddFile(u, l, b))
           \/ (\E p \in BOOLEAN, failing \in SUBSET {"chown", "chmod", "store"} : SetPrivileged(p, failing))
  BY <1>1, <1>2, <1>12 DEF BtrfsStep, AddFile, SetPrivileged, imageVars, serverVars
<1>13. CASE Kill
  BY <1>1, <1>2, <1>3, <1>13 DEF Kill, Stop
<1>14. ASSUME NEW m \in Machines, Reboot(m) PROVE TypeOK'
  BY <1>1, <1>2, <1>3, <1>14 DEF Reboot, RebootImage, Stop
<1>15. ASSUME NEW bytes \in Sizes, MounterCreate(bytes) PROVE TypeOK'
  <2>1. bytes \in Nat
    BY SizesFit, HalfPositive
  <2> QED BY <1>1, <1>2, <1>6, <1>15, <2>1 DEF MounterCreate
<1>16. CASE MounterRemove
  <2>1. script' \in ScriptType
    BY <1>16 DEF MounterRemove, Delete, NoScript, ScriptType, DeletePcs
  <2> QED BY <1>1, <1>2, <1>16, <2>1 DEF MounterRemove, serverVars
<1>17. CASE MounterExits
  BY <1>1, <1>2, <1>3, <1>17 DEF MounterExits, serverVars
<1>18. CASE UNCHANGED vars
  BY <1>1, <1>2, <1>18 DEF vars, imageVars, serverVars
<1> QED BY <1>4, <1>5, <1>8, <1>9, <1>10, <1>11, <1>12, <1>13, <1>14, <1>15, <1>16, <1>17, <1>18 DEF Next

\* It holds at the start.
LEMMA TypeInit == Init => TypeOK
<1> SUFFICES ASSUME Init PROVE TypeOK
  OBVIOUS
<1>1. image \in ImageType
  BY DEF Init, ImageInit, NoImage, ImageType
<1>2. dir \in DirType
  BY DEF Init, ImageInit, DirType
<1>3. script \in ScriptType
  BY DEF Init, ImageInit, NoScript, ScriptType
<1>4. server \in ServerType
  BY DEF Init, NoServer, ServerType, ServerPcs
<1>5. loops \in Nat /\ mounts \in Nat /\ machine \in Machines /\ moved \in BOOLEAN /\ stored \in SUBSET Volumes
  BY DEF Init, ImageInit
<1> QED BY <1>1, <1>2, <1>3, <1>4, <1>5 DEF TypeOK
-----------------------------------------------------------------------------
\* How the script moves on, and how it ends.
LEMMA ScriptFields ==
  ASSUME TypeOK, NEW x
  PROVE  /\ Goto(x) => script'.pc = x /\ script'.size = script.size /\ script'.exit = script.exit
         /\ Exit(x) => script'.pc = "exit" /\ script'.size = script.size /\ script'.exit = x
BY DEF TypeOK, ScriptType, Goto, Exit

\* ImageInv is preserved by every command of the script and of Delete.
LEMMA ScriptImage ==
  ASSUME TypeOK, ImageInv, ScriptStep(machine.btrfs), UNCHANGED machine
  PROVE  ImageInv'
<1>1. ImageMachine' = ImageMachine
  BY DEF ImageMachine
<1>2. ASSUME NEW x, Goto(x) PROVE script'.pc = x
  BY <1>2, ScriptFields
<1>3. ASSUME NEW x, Exit(x) PROVE script'.pc = "exit"
  BY <1>3, ScriptFields
<1> USE DEF CreatePcs, DeletePcs, At
<1>4. /\ loops \in Nat /\ mounts \in Nat /\ image \in ImageType
      /\ script.pc # "none" => ImageMachine
      /\ mounts > 0 \/ script.pc \in CreatePcs \ {"size", "touch", "truncate"} => image.there
  BY DEF TypeOK, ImageInv
<1>5. ASSUME image' = image, loops' = loops, mounts' = mounts, script.pc # "none", misled' = misled,
             \/ script'.pc = "exit"
             \/ /\ script.pc \in CreatePcs /\ script'.pc \in CreatePcs
                /\ script'.pc = "attach" => loops = 0
                /\ script'.pc = "mount" => mounts = 0
                /\ script'.pc \notin {"size", "touch", "truncate"} => image.there
                /\ script'.pc = "touch" => ~image.there
                /\ script'.pc = "truncate" => image.there
      PROVE  ImageInv'
  BY <1>1, <1>4, <1>5 DEF ImageInv
<1>6. CASE CheckSize
  BY <1>2, <1>4, <1>5, <1>6 DEF CheckSize
<1>7. CASE FindLoop
  <2>1. image.there /\ UNCHANGED <<image, loops, mounts>> /\ script.pc = "find"
    BY <1>4, <1>7 DEF FindLoop
  <2>2. CASE UNCHANGED misled
    <3>1. script'.pc = "file" \/ (script'.pc = "attach" /\ (loops = 0 \/ "losetup" \in misled))
      BY <1>2, <1>7, <2>2 DEF FindLoop, TypeOK, ScriptType
    <3> QED BY <1>1, <1>4, <2>1, <2>2, <3>1 DEF ImageInv
  <2>3. CASE misled' = misled \union {"losetup"} /\ Goto("attach")
    <3>1. script'.pc = "attach" /\ "losetup" \in misled' /\ ("mountpoint" \in misled' <=> "mountpoint" \in misled)
      BY <1>2, <2>3
    <3> QED BY <1>1, <1>4, <2>1, <3>1 DEF ImageInv
  <2> QED BY <1>7, <2>2, <2>3 DEF FindLoop
<1>8. CASE CheckFile
  <2>1. /\ script'.pc \in {"mkdir", "mkfs"} /\ UNCHANGED <<image, loops, mounts>> /\ script.pc = "file" /\ image.there
        /\ ("losetup" \in misled' <=> "losetup" \in misled) /\ ("mountpoint" \in misled' <=> "mountpoint" \in misled)
    BY <1>2, <1>4, <1>8 DEF CheckFile
  <2> QED BY <1>1, <1>4, <2>1 DEF ImageInv
<1>9. CASE CheckMount
  <2>1. image.there /\ UNCHANGED <<image, loops, mounts>> /\ script.pc = "mountpoint"
    BY <1>4, <1>9 DEF CheckMount
  <2>2. CASE UNCHANGED misled
    <3>1. script'.pc = "exit" \/ (script'.pc = "mount" /\ (mounts = 0 \/ "mountpoint" \in misled))
      BY <1>2, <1>3, <1>9, <2>2 DEF CheckMount
    <3> QED BY <1>1, <1>4, <2>1, <2>2, <3>1 DEF ImageInv
  <2>3. CASE misled' = misled \union {"mountpoint"} /\ Goto("mount")
    <3>1. script'.pc = "mount" /\ "mountpoint" \in misled' /\ ("losetup" \in misled' <=> "losetup" \in misled)
      BY <1>2, <2>3
    <3> QED BY <1>1, <1>4, <2>1, <3>1 DEF ImageInv
  <2> QED BY <1>9, <2>2, <2>3 DEF CheckMount
<1>10. CASE CommandFails
  BY <1>3, <1>5, <1>10 DEF CommandFails
<1>11. CASE Touch
  <2>1. image'.there /\ script'.pc = "truncate" /\ UNCHANGED <<loops, mounts, misled>> /\ script.pc = "touch"
    BY <1>2, <1>11 DEF Touch, NoImage
  <2> QED BY <1>1, <1>4, <2>1 DEF ImageInv
<1>12. CASE Truncate
  <2>1. image.there /\ script'.pc = "find" /\ UNCHANGED <<loops, mounts, misled>> /\ script.pc = "truncate"
    BY <1>2, <1>12 DEF Truncate, ImageInv
  <2>2. image'.there = image.there
    BY <1>4, <1>12 DEF Truncate, ImageType
  <2> QED BY <1>1, <1>4, <2>1, <2>2 DEF ImageInv
<1>13. CASE Attach
  <2>1. script'.pc = "file" /\ loops' = loops + 1 /\ UNCHANGED <<image, mounts, misled>> /\ script.pc = "attach"
    BY <1>13 DEF Attach, TypeOK, ScriptType
  <2> QED BY <1>1, <1>4, <2>1 DEF ImageInv
<1>14. CASE Mkfs
  <2>1. image.there /\ UNCHANGED <<loops, mounts, misled>> /\ script.pc = "mkfs" /\ script'.pc \in {"mkdir", "exit"}
    BY <1>2, <1>3, <1>4, <1>14 DEF Mkfs
  <2>2. image'.there = image.there
    BY <1>4, <1>14 DEF Mkfs, ImageType
  <2> QED BY <1>1, <1>4, <2>1, <2>2 DEF ImageInv
<1>15. CASE Mkdir
  <2>1. script'.pc = "mountpoint" /\ UNCHANGED <<image, loops, mounts, misled>> /\ script.pc = "mkdir"
    BY <1>2, <1>15 DEF Mkdir
  <2> QED BY <1>1, <1>4, <2>1 DEF ImageInv
<1>16. CASE Mount(machine.btrfs)
  <2>1. /\ script'.pc = "exit" /\ UNCHANGED <<image, loops, misled>> /\ script.pc = "mount"
        /\ mounts' \in {mounts, mounts + 1}
    BY <1>3, <1>16 DEF Mount
  <2> QED BY <1>1, <1>4, <2>1 DEF ImageInv
<1>17. CASE Umount
  <2>1. /\ script'.pc \in {"exit", "removeAll"} /\ UNCHANGED <<image, loops, misled>> /\ script.pc = "umount"
        /\ mounts' = (IF mounts > 0 THEN mounts - 1 ELSE 0) /\ (script'.pc = "removeAll" => mounts > 0)
    BY <1>2, <1>3, <1>4, <1>17 DEF Umount
  <2> QED BY <1>1, <1>4, <2>1 DEF ImageInv
<1>18. CASE RemoveAll
  <2>1. CASE mounts = 0
    <3>1. script'.pc = "detach" /\ UNCHANGED <<image, loops, mounts, misled>> /\ script.pc = "removeAll"
      BY <1>2, <1>18, <2>1 DEF RemoveAll
    <3> QED BY <1>1, <1>4, <2>1, <3>1 DEF ImageInv
  <2>2. CASE mounts # 0
    <3>1. script'.pc = "exit" /\ UNCHANGED <<loops, mounts, misled>> /\ script.pc = "removeAll" /\ image.there
      BY <1>3, <1>4, <1>18, <2>2 DEF RemoveAll
    <3>2. image'.there = image.there
      BY <1>4, <1>18, <2>2 DEF RemoveAll, ImageType
    <3> QED BY <1>1, <1>4, <3>1, <3>2 DEF ImageInv
  <2> QED BY <2>1, <2>2
<1>19. CASE Detach
  <2>1. /\ script'.pc \in {"exit", "remove"} /\ UNCHANGED <<image, mounts, misled>> /\ mounts = 0
        /\ loops' = (IF loops > 0 THEN loops - 1 ELSE 0) /\ script.pc = "detach"
    BY <1>2, <1>3, <1>4, <1>19 DEF Detach, ImageInv
  <2> QED BY <1>1, <1>4, <2>1 DEF ImageInv
<1>20. CASE RemoveImage
  <2>1. script'.pc = "exit" /\ image' = NoImage /\ UNCHANGED <<mounts, misled>> /\ mounts = 0 /\ loops' = 0
        /\ script.pc = "remove"
    BY <1>3, <1>4, <1>20 DEF RemoveImage, ImageInv
  <2> QED BY <1>1, <1>4, <2>1 DEF ImageInv
<1> QED BY <1>6, <1>7, <1>8, <1>9, <1>10, <1>11, <1>12, <1>13, <1>14, <1>15, <1>16, <1>17, <1>18, <1>19, <1>20
        DEF ScriptStep

\* ImageInv is preserved by what the server and its surroundings do.
LEMMA ImageStep == TypeOK /\ ImageInv /\ ServerInv /\ [Next]_vars => ImageInv'
<1> SUFFICES ASSUME TypeOK, ImageInv, ServerInv, [Next]_vars PROVE ImageInv'
  OBVIOUS
<1> USE DEF CreatePcs, At
<1>1. ASSUME UNCHANGED <<image, loops, mounts, misled, machine>>, script' = script \/ script'.pc = "none"
      PROVE  ImageInv'
  BY <1>1 DEF ImageInv, ImageMachine
<1>2. ASSUME UNCHANGED <<image, loops, mounts, misled, machine>>, ImageMachine, script'.pc \in {"size", "umount"}
      PROVE  ImageInv'
  BY <1>2 DEF ImageInv, ImageMachine
<1>3. NoScript.pc = "none" /\ \A bytes : Create(bytes) => script'.pc = "size"
  BY DEF NoScript, Create
<1>4. UsesImage => ImageMachine
  BY DEF UsesImage, ImageMachine
<1>5. ASSUME NEW maps \in Maps, Start(maps) PROVE ImageInv'
  BY <1>1, <1>5 DEF Start, imageVars
<1>6. CASE Detect \/ NewDriver \/ Serve
  BY <1>1, <1>6 DEF Detect, NewDriver, Serve, imageVars
<1>7. CASE CreateImage
  <2>1. CASE ChooseDriver = "btrfs" /\ ~server.onBtrfs
    <3>1. ImageMachine
      BY <1>7, <2>1 DEF CreateImage, In, ServerInv, ChooseDriver, ImageMachine
    <3>2. script'.pc = "size"
      BY <1>3, <1>7, <2>1 DEF CreateImage
    <3> QED BY <1>2, <1>7, <3>1, <3>2 DEF CreateImage
  <2>2. CASE ~(ChooseDriver = "btrfs" /\ ~server.onBtrfs)
    BY <1>1, <1>7, <2>2 DEF CreateImage
  <2> QED BY <2>1, <2>2
<1>8. CASE ImageCreated
  BY <1>1, <1>3, <1>8 DEF ImageCreated
<1>9. CASE Script
  BY <1>9, ScriptImage DEF Script
<1>10. ASSUME NEW v \in Volumes, StoreVolume(v) PROVE ImageInv'
  <2>1. CASE mounts > 0
    <3>1. image.there
      BY <2>1 DEF ImageInv
    <3>2. image' = [image EXCEPT !.volumes = @ \union {v}]
      BY <1>10, <2>1 DEF StoreVolume
    <3>3. image'.there
      BY <3>1, <3>2 DEF TypeOK, ImageType
    <3>4. ~At("touch")
      BY <3>1 DEF ImageInv
    <3>5. UNCHANGED <<loops, mounts, script, misled, machine>>
      BY <1>10 DEF StoreVolume
    <3> QED BY <3>1, <3>3, <3>4, <3>5 DEF ImageInv, ImageMachine
  <2>2. CASE ~(mounts > 0)
    BY <1>1, <1>10, <2>2 DEF StoreVolume
  <2> QED BY <2>1, <2>2
<1>11. CASE BtrfsStep \/ (\E u \in Ids, l, b \in BOOLEAN : AddFile(u, l, b))
           \/ (\E p \in BOOLEAN, failing \in SUBSET {"chown", "chmod", "store"} : SetPrivileged(p, failing))
  BY <1>1, <1>11 DEF BtrfsStep, AddFile, SetPrivileged, imageVars, serverVars
<1>12. CASE Kill
  BY <1>1, <1>3, <1>12 DEF Kill
<1>13. ASSUME NEW m \in Machines, Reboot(m) PROVE ImageInv'
  BY <1>3, <1>13 DEF Reboot, RebootImage, ImageInv
<1>14. ASSUME NEW bytes \in Sizes, MounterCreate(bytes) PROVE ImageInv'
  BY <1>2, <1>3, <1>4, <1>14 DEF MounterCreate
<1>15. CASE MounterRemove
  <2>1. script'.pc = "umount"
    BY <1>15 DEF MounterRemove, Delete, NoScript
  <2> QED BY <1>2, <1>4, <1>15, <2>1 DEF MounterRemove, serverVars
<1>16. CASE MounterExits
  BY <1>1, <1>3, <1>16 DEF MounterExits, serverVars
<1>17. CASE UNCHANGED vars
  BY <1>1, <1>17 DEF vars, imageVars, serverVars
<1> QED BY <1>5, <1>6, <1>7, <1>8, <1>9, <1>10, <1>11, <1>12, <1>13, <1>14, <1>15, <1>16, <1>17 DEF Next

\* SizeInv is preserved by every command of the script and of Delete.
LEMMA ScriptSize ==
  ASSUME TypeOK, ImageInv, SizeInv, ScriptStep(machine.btrfs), UNCHANGED <<machine, moved>>
  PROVE  SizeInv'
<1> DEFINE sz == MountSize(machine.disk)
<1>1. sz' = sz
  BY DEF MountSize, Wrap
<1> HIDE DEF sz
<1> SUFFICES ASSUME ~moved PROVE SizeInv'
  BY DEF SizeInv
<1>2. ASSUME NEW x, Goto(x) PROVE script'.pc = x /\ script'.size = script.size
  BY <1>2, ScriptFields
<1>3. ASSUME NEW x, Exit(x) PROVE script'.pc = "exit"
  BY <1>3, ScriptFields
<1> USE DEF CreatePcs, DeletePcs, At
<1>4. /\ mounts \in Nat /\ image \in ImageType /\ script \in ScriptType
      /\ script.pc \in CreatePcs => script.size = sz
      /\ mounts > 0 \/ script.pc \in CreatePcs \ {"size", "touch", "truncate"} => image.size = sz
      /\ mounts > 0 \/ script.pc \in {"mkdir", "mountpoint", "mount"} => image.btrfs
      /\ script.pc = "mkfs" => image.volumes = {} \/ "file" \in misled
      /\ ~image.btrfs => image.volumes = {}
  BY DEF TypeOK, SizeInv, sz
<1>5. ASSUME image' = image, mounts' = mounts,
             \/ script'.pc \in {"exit"} \union DeletePcs
             \/ /\ script'.size = script.size
                /\ script.pc \in CreatePcs /\ script'.pc \in CreatePcs
                /\ script'.pc \notin {"size", "touch", "truncate"} => image.size = sz
                /\ script'.pc \in {"mkdir", "mountpoint", "mount"} => image.btrfs
                /\ script'.pc = "mkfs" => image.volumes = {} \/ "file" \in misled'
      PROVE  SizeInv'
  BY <1>1, <1>4, <1>5 DEF SizeInv, sz
<1>6. CASE CheckSize
  BY <1>2, <1>4, <1>5, <1>6 DEF CheckSize
<1>7. CASE FindLoop
  <2>1. script'.pc \in {"attach", "file"} /\ script'.size = script.size
    BY <1>2, <1>4, <1>7 DEF FindLoop, ScriptType
  <2> QED BY <1>4, <1>5, <1>7, <2>1 DEF FindLoop
<1>8. CASE CheckFile
  <2>1. /\ script'.pc \in {"mkdir", "mkfs"} /\ script'.size = script.size /\ (script'.pc = "mkdir" => image.btrfs)
        /\ script'.pc = "mkfs" => image.volumes = {} \/ "file" \in misled'
    BY <1>2, <1>4, <1>8 DEF CheckFile
  <2> QED BY <1>4, <1>5, <1>8, <2>1 DEF CheckFile
<1>9. CASE CheckMount
  BY <1>2, <1>3, <1>4, <1>5, <1>9 DEF CheckMount
<1>10. CASE CommandFails
  BY <1>3, <1>5, <1>10 DEF CommandFails
<1>11. CASE Touch
  <2>1. /\ image' \in ImageType /\ image'.there /\ ~image'.btrfs /\ image'.volumes = {}
        /\ script'.pc = "truncate" /\ script'.size = script.size /\ script.size = sz
    BY <1>2, <1>4, <1>11 DEF Touch, NoImage, ImageType
  <2>2. mounts = 0 /\ mounts' = 0
    BY <1>4, <1>11 DEF Touch, ImageInv
  <2> QED BY <1>1, <2>1, <2>2 DEF SizeInv, sz
<1>12. CASE Truncate
  <2>1. /\ script'.pc = "find" /\ script'.size = script.size /\ script.size = sz /\ UNCHANGED mounts
        /\ script.size \in Nat
    BY <1>2, <1>4, <1>12 DEF Truncate, ScriptType
  <2>2. image'.size = sz /\ (~image'.btrfs => image'.volumes = {})
    BY <1>4, <1>12, <2>1 DEF Truncate, ImageType
  <2>3. mounts > 0 => image'.btrfs
    <3> SUFFICES ASSUME mounts > 0 PROVE image'.btrfs
      OBVIOUS
    <3>1. image.size = script.size /\ image.btrfs
      BY <1>4, <2>1
    <3>2. image' = [image EXCEPT !.size = script.size]
      BY <1>12, <2>1, <3>1 DEF Truncate
    <3> QED BY <1>4, <3>1, <3>2 DEF ImageType
  <2> QED BY <1>1, <2>1, <2>2, <2>3 DEF SizeInv, sz
<1>13. CASE Attach
  <2>1. script'.pc = "file" /\ script'.size = script.size
    BY <1>4, <1>13 DEF Attach, ScriptType
  <2> QED BY <1>4, <1>5, <1>13, <2>1 DEF Attach
<1>14. CASE Mkfs
  <2>1. CASE image.size >= MinSize
    <3>1. image.size \in Nat
      BY <1>4 DEF ImageType
    <3>2. image' = [image EXCEPT !.btrfs = TRUE, !.cut = FALSE, !.volumes = {}] /\ Goto("mkdir") /\ UNCHANGED mounts
      BY <1>14, <2>1, <3>1, SomeSize DEF Mkfs
    <3>3. image'.size = sz /\ image'.btrfs /\ script'.pc = "mkdir" /\ script'.size = sz
      BY <1>2, <1>4, <1>14, <3>2 DEF Mkfs, ImageType
    <3> QED BY <1>1, <3>2, <3>3 DEF SizeInv, sz
  <2>2. CASE ~(image.size >= MinSize)
    BY <1>3, <1>5, <1>14, <2>2 DEF Mkfs
  <2> QED BY <2>1, <2>2
<1>15. CASE Mkdir
  BY <1>2, <1>4, <1>5, <1>15 DEF Mkdir
<1>16. CASE Mount(machine.btrfs)
  <2>1. script'.pc = "exit" /\ UNCHANGED image /\ image.size = sz /\ image.btrfs
    BY <1>3, <1>4, <1>16 DEF Mount
  <2> QED BY <1>1, <2>1 DEF SizeInv, sz
<1>17. CASE Umount
  <2>1. script'.pc \in {"exit", "removeAll"} /\ UNCHANGED image /\ (mounts' > 0 => mounts > 0)
    BY <1>2, <1>3, <1>4, <1>17 DEF Umount
  <2> QED BY <1>1, <1>4, <2>1 DEF SizeInv, sz
<1>18. CASE RemoveAll
  <2>1. CASE mounts = 0
    BY <1>2, <1>5, <1>18, <2>1 DEF RemoveAll
  <2>2. CASE mounts # 0
    <3>1. script'.pc = "exit" /\ UNCHANGED mounts /\ image' = [image EXCEPT !.volumes = {}]
      BY <1>3, <1>18, <2>2 DEF RemoveAll
    <3>2. image'.size = image.size /\ image'.btrfs = image.btrfs /\ image'.volumes = {}
      BY <1>4, <3>1 DEF ImageType
    <3> QED BY <1>1, <1>4, <3>1, <3>2 DEF SizeInv, sz
  <2> QED BY <2>1, <2>2
<1>19. CASE Detach
  BY <1>2, <1>3, <1>5, <1>19 DEF Detach
<1>20. CASE RemoveImage
  <2>1. script'.pc = "exit" /\ image'.volumes = {} /\ mounts' = 0
    BY <1>3, <1>4, <1>20 DEF RemoveImage, ImageInv, NoImage
  <2> QED BY <2>1 DEF SizeInv
<1> QED BY <1>6, <1>7, <1>8, <1>9, <1>10, <1>11, <1>12, <1>13, <1>14, <1>15, <1>16, <1>17, <1>18, <1>19, <1>20
        DEF ScriptStep

\* SizeInv is preserved by what the server and its surroundings do.
LEMMA SizeStep == TypeOK /\ ImageInv /\ ServerInv /\ SizeInv /\ [Next]_vars => SizeInv'
<1> SUFFICES ASSUME TypeOK, ImageInv, ServerInv, SizeInv, [Next]_vars PROVE SizeInv'
  OBVIOUS
<1> USE DEF CreatePcs, At
<1>1. ASSUME UNCHANGED <<image, mounts, misled, machine, moved>>, script' = script \/ script'.pc \in {"none", "umount"}
      PROVE  SizeInv'
  BY <1>1 DEF SizeInv
<1>2. ASSUME UNCHANGED <<image, mounts, misled, machine>>, moved => moved', script'.pc = "size",
             moved' \/ script'.size = MountSize(machine.disk)
      PROVE  SizeInv'
  BY <1>2 DEF SizeInv
<1>3. NoScript.pc = "none" /\ \A bytes : Create(bytes) => script'.pc = "size" /\ script'.size = bytes
  BY DEF NoScript, Create
<1>4. CASE (\E maps \in Maps : Start(maps)) \/ Detect \/ NewDriver \/ Serve
  BY <1>1, <1>4 DEF Start, Detect, NewDriver, Serve, imageVars
<1>5. CASE CreateImage
  <2>1. CASE ChooseDriver = "btrfs" /\ ~server.onBtrfs
    <3>1. Create(MountSize(machine.disk)) /\ UNCHANGED <<image, mounts, misled, machine, moved>>
      BY <1>5, <2>1 DEF CreateImage
    <3> QED BY <1>2, <1>3, <3>1
  <2>2. CASE ~(ChooseDriver = "btrfs" /\ ~server.onBtrfs)
    BY <1>1, <1>5, <2>2 DEF CreateImage
  <2> QED BY <2>1, <2>2
<1>6. CASE ImageCreated
  BY <1>1, <1>3, <1>6 DEF ImageCreated
<1>7. CASE Script
  BY <1>7, ScriptSize DEF Script
<1>8. ASSUME NEW v \in Volumes, StoreVolume(v) PROVE SizeInv'
  <2>1. CASE mounts > 0
    <3>1. image' = [image EXCEPT !.volumes = @ \union {v}] /\ UNCHANGED <<mounts, script, misled, machine, moved>>
      BY <1>8, <2>1 DEF StoreVolume
    <3>2. image'.btrfs = image.btrfs /\ image'.size = image.size
      BY <3>1 DEF TypeOK, ImageType
    <3>3. ~At("mkfs")
      BY <1>8 DEF StoreVolume, In, ServerInv
    <3> QED BY <2>1, <3>1, <3>2, <3>3 DEF SizeInv
  <2>2. CASE ~(mounts > 0)
    BY <1>1, <1>8, <2>2 DEF StoreVolume
  <2> QED BY <2>1, <2>2
<1>9. CASE BtrfsStep \/ (\E u \in Ids, l, b \in BOOLEAN : AddFile(u, l, b))
           \/ (\E p \in BOOLEAN, failing \in SUBSET {"chown", "chmod", "store"} : SetPrivileged(p, failing))
  BY <1>1, <1>9 DEF BtrfsStep, AddFile, SetPrivileged, imageVars, serverVars
<1>10. CASE Kill
  BY <1>1, <1>3, <1>10 DEF Kill
<1>11. ASSUME NEW m \in Machines, Reboot(m) PROVE SizeInv'
  <2>1. mounts' = 0 /\ script'.pc = "none" /\ UNCHANGED image
    BY <1>3, <1>11 DEF Reboot, RebootImage
  <2>2. moved => moved'
    BY <1>11, Zenon DEF Reboot
  <2> QED BY <2>1, <2>2 DEF SizeInv
<1>12. ASSUME NEW bytes \in Sizes, MounterCreate(bytes) PROVE SizeInv'
  <2>1. script'.pc = "size" /\ script'.size = bytes
    BY <1>3, <1>12 DEF MounterCreate
  <2> QED BY <1>2, <1>12, <2>1 DEF MounterCreate, TypeOK
<1>13. CASE MounterRemove
  <2>1. script'.pc = "umount"
    BY <1>13 DEF MounterRemove, Delete, NoScript
  <2> QED BY <1>1, <1>13, <2>1 DEF MounterRemove, serverVars
<1>14. CASE MounterExits
  BY <1>1, <1>3, <1>14 DEF MounterExits, serverVars
<1>15. CASE UNCHANGED vars
  BY <1>1, <1>15 DEF vars, imageVars, serverVars
<1> QED BY <1>4, <1>5, <1>6, <1>7, <1>8, <1>9, <1>10, <1>11, <1>12, <1>13, <1>14, <1>15 DEF Next

\* The script of Create goes on or exits, and with success only when the image is
\* mounted.
LEMMA ScriptMoves ==
  ASSUME TypeOK, ScriptStep(machine.btrfs)
  PROVE  /\ script.pc \notin {"none", "exit"}
         /\ script.pc \in CreatePcs =>
               /\ script'.pc \in CreatePcs \union {"exit"}
               /\ mounts' >= mounts
               /\ script'.size = script.size
               /\ script'.exit = "ok" => script.exit = "ok" \/ mounts' > 0
<1> USE DEF CreatePcs, DeletePcs, At
<1>1. ASSUME NEW x, Goto(x) PROVE script'.pc = x /\ script'.size = script.size /\ script'.exit = script.exit
  BY <1>1, ScriptFields
<1>2. ASSUME NEW x, Exit(x) PROVE script'.pc = "exit" /\ script'.size = script.size /\ script'.exit = x
  BY <1>2, ScriptFields
<1>3. mounts \in Nat
  BY DEF TypeOK
<1>10. script \in ScriptType
  BY DEF TypeOK
<1>4. CASE CheckSize \/ Touch \/ Truncate \/ CheckFile \/ Mkdir
  BY <1>1, <1>3, <1>4 DEF CheckSize, Touch, Truncate, CheckFile, Mkdir
<1>8. CASE FindLoop
  <2>1. \/ Goto("attach")
        \/ script' = [script EXCEPT !.pc = IF loops = 0 THEN "attach" ELSE "file", !.lo = loops]
    BY <1>8 DEF FindLoop
  <2>2. script'.pc \in {"attach", "file"} /\ script'.size = script.size /\ script'.exit = script.exit
    BY <1>1, <1>10, <2>1 DEF ScriptType
  <2>3. script.pc = "find" /\ mounts' = mounts
    BY <1>8 DEF FindLoop
  <2> QED BY <1>3, <2>2, <2>3
<1>9. CASE Attach
  <2>1. script' = [script EXCEPT !.pc = "file", !.lo = 1] /\ script.pc = "attach" /\ mounts' = mounts
    BY <1>9 DEF Attach
  <2>2. script'.pc = "file" /\ script'.size = script.size /\ script'.exit = script.exit
    BY <1>10, <2>1 DEF ScriptType
  <2> QED BY <1>3, <2>1, <2>2
<1>5. CASE Mkfs \/ CheckMount \/ CommandFails
  BY <1>1, <1>2, <1>3, <1>5 DEF Mkfs, CheckMount, CommandFails
<1>6. CASE Mount(machine.btrfs)
  BY <1>2, <1>3, <1>6 DEF Mount
<1>7. CASE Umount \/ RemoveAll \/ Detach \/ RemoveImage
  BY <1>7 DEF Umount, RemoveAll, Detach, RemoveImage
<1> QED BY <1>4, <1>5, <1>6, <1>7, <1>8, <1>9 DEF ScriptStep

\* ServerInv is preserved: nothing changes below the server while it starts.
LEMMA ServerStep == TypeOK /\ ServerInv /\ [Next]_vars => ServerInv'
<1> SUFFICES ASSUME TypeOK, ServerInv, [Next]_vars PROVE ServerInv'
  OBVIOUS
<1> USE DEF In, At
<1>1. NoServer.pc = "stopped" /\ NoScript.pc = "none"
  BY DEF NoServer, NoScript
<1>2. ASSUME server'.pc = "stopped" PROVE ServerInv'
  BY <1>2 DEF ServerInv
<1>3. ASSUME UNCHANGED <<script, mounts, machine, server>> PROVE ServerInv'
  BY <1>3 DEF ServerInv, ChooseDriver
<1>4. server \in ServerType /\ machine \in Machines /\ mounts \in Nat
  BY DEF TypeOK
<1>5. ASSUME NEW maps \in Maps, Start(maps) PROVE ServerInv'
  <2>1. server'.pc = "statfs" /\ UNCHANGED script /\ At("none")
    BY <1>5 DEF Start, NoServer, imageVars
  <2> QED BY <2>1 DEF ServerInv
<1>6. CASE Detect
  <2>1. CASE Stop
    BY <1>1, <1>2, <2>1 DEF Stop
  <2>2. CASE ~Stop
    <3>1. Parses(machine.release) /\ UNCHANGED <<script, mounts, machine>> /\ In("statfs")
      BY <1>6, <2>2 DEF Detect, imageVars
    <3>2. server' = [server EXCEPT !.pc = "choose", !.onBtrfs = mounts > 0 \/ machine.native,
                        !.overlay = CheckKernelVersion(machine.release, 4, 0, 0),
                        !.btrfs = supportsFilesystem /\ machine.bins]
      BY <1>6, <2>2 DEF Detect, Becomes
    <3>3. /\ server'.pc = "choose" /\ server'.onBtrfs = (mounts > 0 \/ machine.native)
          /\ server'.overlay = CheckKernelVersion(machine.release, 4, 0, 0)
          /\ server'.btrfs = (machine.btrfs /\ machine.bins)
      BY <1>4, <3>2 DEF ServerType, supportsFilesystem
    <3>4. CheckKernelVersion(machine.release, 4, 0, 0) => machine.release[1] >= 4
      BY <1>4, <3>1, KernelFits, MachineFields
    <3> QED BY <3>1, <3>3, <3>4 DEF ServerInv
  <2> QED BY <2>1, <2>2
<1>8. CASE CreateImage
  <2>1. UNCHANGED <<mounts, machine>> /\ In("choose")
    BY <1>8 DEF CreateImage
  <2>2. ASSUME NEW p, server' = [server EXCEPT !.pc = p, !.driver = ChooseDriver]
        PROVE  /\ server'.pc = p /\ server'.driver = ChooseDriver /\ server'.onBtrfs = server.onBtrfs
               /\ server'.btrfs = server.btrfs /\ server'.overlay = server.overlay
    BY <1>4, <2>2 DEF ServerType
  <2>3. CASE ChooseDriver = "btrfs" /\ ~server.onBtrfs
    <3>1. Create(MountSize(machine.disk)) /\ server' = [server EXCEPT !.pc = "create", !.driver = ChooseDriver]
      BY <1>8, <2>3 DEF CreateImage, Becomes
    <3>2. script'.pc = "size" /\ script'.exit = "" /\ script'.size = MountSize(machine.disk)
      BY <3>1 DEF Create, NoScript
    <3>3. ChooseDriver' = ChooseDriver
      BY <2>1, <2>2, <3>1 DEF ChooseDriver
    <3> QED BY <2>1, <2>2, <3>1, <3>2, <3>3 DEF ServerInv, CreatePcs
  <2>4. CASE ~(ChooseDriver = "btrfs" /\ ~server.onBtrfs)
    <3>1. UNCHANGED script /\ server' = [server EXCEPT !.pc = "newDriver", !.driver = ChooseDriver]
      BY <1>8, <2>4 DEF CreateImage, Becomes
    <3>2. ChooseDriver' = ChooseDriver
      BY <2>1, <2>2, <3>1 DEF ChooseDriver
    <3> QED BY <2>1, <2>2, <2>4, <3>1, <3>2 DEF ServerInv
  <2> QED BY <2>3, <2>4
<1>9. ASSUME NEW p, Advance(p), UNCHANGED <<machine, mounts>>, server.pc \in {"create", "newDriver", "recover"},
             script'.pc = "none", p \in {"newDriver", "recover", "ready"},
             server.pc # "create" \/ mounts > 0,
             server.pc = "newDriver" /\ server.driver = "overlay" => server.overlay,
             p = "newDriver" <=> server.pc = "create"
      PROVE  ServerInv'
  <2>1. /\ server'.pc = p /\ server'.driver = server.driver /\ server'.onBtrfs = server.onBtrfs
        /\ server'.btrfs = server.btrfs /\ server'.overlay = server.overlay
    BY <1>4, <1>9 DEF Advance, Becomes, ServerType
  <2>2. ChooseDriver' = ChooseDriver
    BY <1>9, <2>1 DEF ChooseDriver
  <2> QED BY <1>9, <2>1, <2>2 DEF ServerInv
<1>10. CASE ImageCreated
  <2>1. CASE script.exit = "ok"
    <3>1. mounts > 0 /\ Advance("newDriver")
      BY <1>10, <2>1 DEF ImageCreated, ServerInv
    <3> QED BY <1>1, <1>9, <1>10, <3>1 DEF ImageCreated
  <2>2. CASE script.exit # "ok"
    BY <1>1, <1>2, <1>10, <2>2 DEF ImageCreated, Stop
  <2> QED BY <2>1, <2>2
<1>11. CASE NewDriver
  <2>1. CASE server.driver = "overlay" /\ ~server.overlay
    BY <1>1, <1>2, <1>11, <2>1 DEF NewDriver, Stop
  <2>2. CASE ~(server.driver = "overlay" /\ ~server.overlay)
    <3>1. script'.pc = "none"
      BY <1>11 DEF NewDriver, ServerInv, imageVars
    <3> QED BY <1>9, <1>11, <2>2, <3>1 DEF NewDriver, imageVars
  <2> QED BY <2>1, <2>2
<1>12. CASE Serve
  <2>1. CASE Stop
    BY <1>1, <1>2, <2>1 DEF Stop
  <2>2. CASE ~Stop
    <3>1. script'.pc = "none"
      BY <1>12 DEF Serve, ServerInv, imageVars
    <3> QED BY <1>9, <1>12, <2>2, <3>1 DEF Serve, imageVars
  <2> QED BY <2>1, <2>2
<1>13. CASE Script
  <2>1. UNCHANGED <<machine, server>> /\ ScriptStep(machine.btrfs)
    BY <1>13 DEF Script
  <2>2. script.pc \notin {"none", "exit"}
    BY <2>1, ScriptMoves
  <2>3. CASE In("stopped")
    BY <1>2, <2>1, <2>3
  <2>4. CASE In("create")
    <3>1. script.pc \in CreatePcs
      BY <2>2, <2>4 DEF ServerInv
    <3>2. mounts' \in Nat
      BY TypeStep DEF TypeOK
    <3> QED BY <1>4, <2>1, <2>4, <3>1, <3>2, ScriptMoves DEF ServerInv, ChooseDriver
  <2> QED BY <2>2, <2>3, <2>4 DEF ServerInv
<1>14. ASSUME NEW v \in Volumes, StoreVolume(v) PROVE ServerInv'
  BY <1>3, <1>14 DEF StoreVolume
<1>15. CASE BtrfsStep \/ (\E u \in Ids, l, b \in BOOLEAN : AddFile(u, l, b))
           \/ (\E p \in BOOLEAN, failing \in SUBSET {"chown", "chmod", "store"} : SetPrivileged(p, failing))
  BY <1>3, <1>15 DEF BtrfsStep, AddFile, SetPrivileged, imageVars, serverVars
<1>16. CASE Kill \/ (\E m \in Machines : Reboot(m))
  BY <1>1, <1>2, <1>16 DEF Kill, Reboot, Stop
<1>17. CASE (\E bytes \in Sizes : MounterCreate(bytes)) \/ MounterRemove \/ MounterExits
  BY <1>2, <1>17 DEF MounterCreate, MounterRemove, MounterExits, serverVars
<1>18. CASE UNCHANGED vars
  BY <1>3, <1>18 DEF vars, imageVars, serverVars
<1> QED BY <1>5, <1>6, <1>8, <1>10, <1>11, <1>12, <1>13, <1>14, <1>15, <1>16, <1>17, <1>18 DEF Next

\* What the script and Delete do to the volumes in the image.
LEMMA ScriptStored ==
  ASSUME TypeOK, ImageInv, SizeInv, StoredInv, Script, ~moved, "file" \notin misled'
  PROVE  StoredInv'
<1> USE DEF At
<1>1. ScriptStep(machine.btrfs) /\ UNCHANGED <<machine, moved>> /\ script.pc # "none" /\ ImageMachine
  BY ScriptMoves DEF Script, ImageInv
<1>2. "file" \notin misled
  BY <1>1 DEF ScriptStep, CheckSize, Touch, Truncate, FindLoop, Attach, CheckFile, Mkfs, Mkdir, CheckMount, Mount,
              Umount, RemoveAll, Detach, RemoveImage, CommandFails
<1>3. /\ stored \subseteq image.volumes
      /\ stored # {} => image.size = MountSize(machine.disk)
      /\ image \in ImageType
  BY <1>1, <1>2 DEF StoredInv, TypeOK
<1>4. /\ stored' \subseteq stored
      /\ script.pc \in {"removeAll", "remove"} => stored' = stored \ Lost
  BY DEF Script
<1>5. ASSUME stored' \subseteq image'.volumes, stored' # {} => image'.size = MountSize(machine.disk)
      PROVE  StoredInv'
  BY <1>1, <1>5 DEF StoredInv, ImageMachine
<1>6. ASSUME image' = image \/ stored' = {} PROVE StoredInv'
  BY <1>3, <1>4, <1>5, <1>6
<1>7. ASSUME image.volumes = {} PROVE StoredInv'
  BY <1>3, <1>4, <1>6, <1>7
<1>8. CASE Touch
  <2>1. image = NoImage
    BY <1>8 DEF Touch, ImageInv
  <2>2. image.volumes = {}
    BY <2>1 DEF NoImage
  <2> QED BY <1>7, <2>2
<1>9. CASE Truncate
  <2>1. script.size = MountSize(machine.disk) /\ script.size \in Nat
    BY <1>9 DEF Truncate, SizeInv, CreatePcs, TypeOK, ScriptType
  <2>2. CASE stored = {}
    BY <1>4, <1>6, <2>2
  <2>3. CASE stored # {}
    <3>1. image' = [image EXCEPT !.size = script.size]
      BY <1>3, <1>9, <2>1, <2>3 DEF Truncate
    <3>2. image'.size = script.size /\ image'.volumes = image.volumes
      BY <1>3, <3>1 DEF ImageType
    <3> QED BY <1>3, <1>4, <1>5, <2>1, <3>2
  <2> QED BY <2>2, <2>3
<1>10. CASE Mkfs
  BY <1>2, <1>7, <1>10 DEF Mkfs, SizeInv
<1>11. CASE RemoveAll \/ RemoveImage
  <2>1. CASE UNCHANGED image
    BY <1>6, <2>1
  <2>2. CASE ~UNCHANGED image
    <3>1. image' = [image EXCEPT !.volumes = {}] \/ image' = NoImage
      BY <1>11, <2>2 DEF RemoveAll, RemoveImage
    <3>2. image'.volumes = {}
      BY <1>3, <3>1 DEF ImageType, NoImage
    <3>3. stored' = stored \ Lost
      BY <1>4, <1>11 DEF RemoveAll, RemoveImage
    <3>4. stored' = {}
      BY <1>3, <3>2, <3>3 DEF Lost
    <3> QED BY <1>6, <3>4
  <2> QED BY <2>1, <2>2
<1>12. CASE CheckSize \/ FindLoop \/ Attach \/ CheckFile \/ Mkdir \/ CheckMount
  BY <1>6, <1>12 DEF CheckSize, FindLoop, Attach, CheckFile, Mkdir, CheckMount
<1>13. CASE Mount(machine.btrfs) \/ Umount \/ Detach \/ CommandFails
  BY <1>6, <1>13 DEF Mount, Umount, Detach, CommandFails
<1> QED BY <1>1, <1>8, <1>9, <1>10, <1>11, <1>12, <1>13 DEF ScriptStep

\* StoredInv is preserved.
LEMMA StoredStep == TypeOK /\ ImageInv /\ ServerInv /\ SizeInv /\ StoredInv /\ [Next]_vars => StoredInv'
<1> SUFFICES ASSUME TypeOK, ImageInv, ServerInv, SizeInv, StoredInv, [Next]_vars, ~moved', "file" \notin misled'
             PROVE  StoredInv'
  BY DEF StoredInv
<1>1. ASSUME UNCHANGED <<image, dir, misled, machine, stored>>, ~moved PROVE StoredInv'
  BY <1>1 DEF StoredInv, ImageMachine
<1>2. CASE (\E maps \in Maps : Start(maps)) \/ Detect \/ CreateImage \/ ImageCreated \/ NewDriver \/ Serve \/ Kill
  BY <1>1, <1>2 DEF Start, Detect, CreateImage, ImageCreated, NewDriver, Serve, Kill, imageVars
<1>3. CASE Script
  BY <1>3, ScriptStored DEF Script
<1>4. ASSUME NEW v \in Volumes, StoreVolume(v) PROVE StoredInv'
  <2>1. UNCHANGED <<machine, moved, misled>> /\ ~moved /\ stored' = stored \union {v} /\ In("ready")
    BY <1>4 DEF StoreVolume
  <2>2. mounts > 0 => ImageMachine /\ image.size = MountSize(machine.disk)
    BY <2>1 DEF ImageInv, SizeInv
  <2>3. ImageMachine => mounts > 0
    BY <2>1 DEF ServerInv, ImageMachine, In, ChooseDriver
  <2>4. CASE mounts > 0
    <3>1. image' = [image EXCEPT !.volumes = @ \union {v}]
      BY <1>4, <2>4 DEF StoreVolume
    <3>2. image'.volumes = image.volumes \union {v} /\ image'.size = image.size
      BY <3>1 DEF TypeOK, ImageType
    <3> QED BY <2>1, <2>2, <2>4, <3>2 DEF StoredInv, ImageMachine
  <2>5. CASE ~(mounts > 0)
    <3>1. dir' = [dir EXCEPT !.volumes = @ \union {v}]
      BY <1>4, <2>5 DEF StoreVolume
    <3>2. dir'.volumes = dir.volumes \union {v}
      BY <3>1 DEF TypeOK, DirType
    <3> QED BY <2>1, <2>3, <2>5, <3>2 DEF StoredInv, ImageMachine
  <2> QED BY <2>4, <2>5
<1>5. CASE BtrfsStep \/ (\E u \in Ids, l, b \in BOOLEAN : AddFile(u, l, b))
           \/ (\E p \in BOOLEAN, failing \in SUBSET {"chown", "chmod", "store"} : SetPrivileged(p, failing))
  BY <1>1, <1>5 DEF BtrfsStep, AddFile, SetPrivileged, imageVars, serverVars
<1>6. ASSUME NEW m \in Machines, Reboot(m) PROVE StoredInv'
  <2>1. UNCHANGED <<image, dir, stored>> /\ ~moved /\ "file" \notin misled /\ (stored = {} \/ machine' = machine)
    BY <1>6 DEF Reboot, RebootImage
  <2>2. CASE stored = {}
    BY <2>1, <2>2 DEF StoredInv
  <2>3. CASE machine' = machine
    BY <2>1, <2>3 DEF StoredInv, ImageMachine
  <2> QED BY <2>1, <2>2, <2>3
<1>7. CASE (\E bytes \in Sizes : MounterCreate(bytes)) \/ MounterRemove \/ MounterExits
  BY <1>1, <1>7 DEF MounterCreate, MounterRemove, MounterExits, serverVars
<1>8. CASE UNCHANGED vars
  BY <1>1, <1>8 DEF vars, imageVars, serverVars
<1> QED BY <1>2, <1>3, <1>4, <1>5, <1>6, <1>7, <1>8 DEF Next

\* The invariants of the image and of the server together.
LEMMA StartInvariant == Spec => [](TypeOK /\ ImageInv /\ ServerInv /\ SizeInv /\ StoredInv)
<1>1. Init => TypeOK /\ ImageInv /\ ServerInv /\ SizeInv /\ StoredInv
  <2> SUFFICES ASSUME Init PROVE TypeOK /\ ImageInv /\ ServerInv /\ SizeInv /\ StoredInv
    OBVIOUS
  <2>1. NoScript.pc = "none" /\ NoServer.pc = "stopped" /\ NoImage.volumes = {}
    BY DEF NoScript, NoServer, NoImage
  <2>2. ImageInv
    BY <2>1 DEF Init, ImageInit, ImageInv, At, CreatePcs
  <2>3. ServerInv /\ SizeInv /\ StoredInv
    BY <2>1 DEF Init, ImageInit, ServerInv, SizeInv, StoredInv, In, At, CreatePcs
  <2> QED BY <2>2, <2>3, TypeInit
<1>2. TypeOK /\ ImageInv /\ ServerInv /\ SizeInv /\ StoredInv /\ [Next]_vars
         => TypeOK' /\ ImageInv' /\ ServerInv' /\ SizeInv' /\ StoredInv'
  BY TypeStep, ImageStep, ServerStep, SizeStep, StoredStep
<1> QED BY <1>1, <1>2, PTL DEF Spec

\* The script of fs/btrfs.go, killed or failing after any of its commands and run
\* again any number of times, attaches one loop device and mounts it once.
THEOREM OneDeviceHolds == Spec => []OneDevice
<1>1. ImageInv => OneDevice
  BY DEF ImageInv, OneDevice
<1> QED BY <1>1, StartInvariant, PTL

\* The driver that Runner has chosen fits the machine, and the image fits the
\* disk, for every size of it: the unsigned subtraction of the reserve does no
\* harm.
THEOREM DriverFitsHolds == Spec => []DriverFits
<1>1. TypeOK /\ ImageInv /\ ServerInv => DriverFits
  <2> SUFFICES ASSUME TypeOK, ImageInv, ServerInv PROVE DriverFits
    OBVIOUS
  <2>1. In("ready") => /\ server.driver = "overlay" => machine.release[1] >= 4
                       /\ server.driver = "btrfs" => machine.native \/ mounts > 0
    BY DEF ServerInv, In
  <2>2. In("create") => script.size = MountSize(machine.disk)
    BY DEF ServerInv, In
  <2>3. machine.disk \in 0..(2 * Half - 1)
    BY MachineFields DEF TypeOK
  <2>4. /\ MountSize(machine.disk) <= machine.disk
        /\ machine.disk \in Reserve..(Half - 1) => MountSize(machine.disk) + Reserve = machine.disk
    BY <2>3, MountSizeRange
  <2> QED BY <2>1, <2>2, <2>4 DEF DriverFits
<1> QED BY <1>1, StartInvariant, PTL

\* No start formats or cuts the image of the volumes, or serves the directory
\* below it, on a machine that stays as it is.
THEOREM ServesVolumesHolds == Spec => []ServesVolumes
<1>1. TypeOK /\ ImageInv /\ ServerInv /\ StoredInv => ServesVolumes
  <2> SUFFICES ASSUME TypeOK, ImageInv, ServerInv, StoredInv, In("ready"), ~moved, "file" \notin misled
               PROVE  stored \subseteq Visible
    BY DEF ServesVolumes
  <2>1. ImageMachine <=> mounts > 0
    BY DEF ImageInv, ServerInv, ImageMachine, In, ChooseDriver
  <2> QED BY <2>1 DEF StoredInv, Visible
<1> QED BY <1>1, StartInvariant, PTL
-----------------------------------------------------------------------------
\* What the mappers made from a largest id do to an owner.
LEMMA FindPrivileged ==
  ASSUME NEW m \in Nat, NEW u \in Nat
  PROVE  findMapping(NewPrivilegedMapper(m), u) = IF u = m THEN 0 ELSE u
<1> DEFINE map == <<Entry(m, 0, 1), Entry(1, 1, m - 1)>>
           Hits == {i \in DOMAIN map : map[i].size = 1 /\ map[i].container = u}
           first == CHOOSE i \in Hits : \A j \in Hits : i <= j
<1>1. /\ DOMAIN map = 1..2
      /\ map[1].container = m /\ map[1].host = 0 /\ map[1].size = 1
      /\ map[2].container = 1 /\ map[2].host = 1 /\ map[2].size = m - 1
  BY DEF Entry
<1> HIDE DEF map
<1>2. findMapping(map, u) = IF Hits = {} THEN u ELSE map[first].host
  BY DEF findMapping
<1>3. CASE u = m
  <2>1. 1 \in Hits /\ \A j \in Hits : 1 <= j
    BY <1>1, <1>3
  <2>2. first = 1
    <3>1. first \in Hits /\ \A j \in Hits : first <= j
      BY <2>1
    <3> QED BY <1>1, <2>1, <3>1
  <2> QED BY <1>1, <1>2, <1>3, <2>1, <2>2 DEF NewPrivilegedMapper, map
<1>4. CASE u # m
  <2>1. Hits \subseteq {2} /\ (2 \in Hits => u = 1)
    BY <1>1, <1>4
  <2>2. CASE Hits = {}
    BY <1>2, <1>4, <2>2 DEF NewPrivilegedMapper, map
  <2>3. CASE Hits # {}
    <3>1. Hits = {2} /\ u = 1
      BY <2>1, <2>3
    <3>2. first = 2
      BY <3>1
    <3> QED BY <1>1, <1>2, <1>4, <2>3, <3>1, <3>2 DEF NewPrivilegedMapper, map
  <2> QED BY <2>2, <2>3
<1> QED BY <1>3, <1>4

\* The same for unprivileged volumes.
LEMMA FindUnprivileged ==
  ASSUME NEW m \in Nat, NEW u \in Nat
  PROVE  findMapping(NewUnprivilegedMapper(m), u) = IF u = 0 THEN m ELSE u
<1> DEFINE map == <<Entry(0, m, 1), Entry(1, 1, m - 1)>>
           Hits == {i \in DOMAIN map : map[i].size = 1 /\ map[i].container = u}
           first == CHOOSE i \in Hits : \A j \in Hits : i <= j
<1>1. /\ DOMAIN map = 1..2
      /\ map[1].container = 0 /\ map[1].host = m /\ map[1].size = 1
      /\ map[2].container = 1 /\ map[2].host = 1 /\ map[2].size = m - 1
  BY DEF Entry
<1> HIDE DEF map
<1>2. findMapping(map, u) = IF Hits = {} THEN u ELSE map[first].host
  BY DEF findMapping
<1>3. CASE u = 0
  <2>1. 1 \in Hits /\ Hits \subseteq {1}
    BY <1>1, <1>3
  <2>2. first = 1
    <3>1. Hits = {1}
      BY <2>1
    <3> QED BY <3>1
  <2> QED BY <1>1, <1>2, <1>3, <2>1, <2>2 DEF NewUnprivilegedMapper, map
<1>4. CASE u # 0
  <2>1. Hits \subseteq {2} /\ (2 \in Hits => u = 1)
    BY <1>1, <1>4
  <2>2. CASE Hits = {}
    BY <1>2, <1>4, <2>2 DEF NewUnprivilegedMapper, map
  <2>3. CASE Hits # {}
    <3>1. Hits = {2} /\ u = 1
      BY <2>1, <2>3
    <3>2. first = 2
      BY <3>1
    <3> QED BY <1>1, <1>2, <1>4, <2>3, <3>1, <3>2 DEF NewUnprivilegedMapper, map
  <2> QED BY <2>2, <2>3
<1> QED BY <1>3, <1>4

\* What tar gives to a file in the user namespace of the same map.
LEMMA ApplyUnprivileged ==
  ASSUME NEW m \in Nat, NEW u \in Nat, Entries(NewUnprivilegedMapper(m), u) # {}
  PROVE  Apply(NewUnprivilegedMapper(m), u) = IF u = 0 THEN m ELSE u
<1> DEFINE map == <<Entry(0, m, 1), Entry(1, 1, m - 1)>>
           i == CHOOSE k \in Entries(map, u) : TRUE
<1>1. /\ DOMAIN map = 1..2
      /\ map[1].container = 0 /\ map[1].host = m /\ map[1].size = 1
      /\ map[2].container = 1 /\ map[2].host = 1 /\ map[2].size = m - 1
  BY DEF Entry
<1>2. i \in Entries(map, u)
  BY DEF NewUnprivilegedMapper
<1> HIDE DEF map
<1>3. Apply(map, u) = map[i].host + u - map[i].container
  BY DEF Apply
<1>4. i \in {1, 2} /\ u \in map[i].container..(map[i].container + map[i].size - 1)
  BY <1>1, <1>2 DEF Entries
<1> HIDE DEF i
<1>5. Apply(map, u) = IF u = 0 THEN m ELSE u
  <2>1. CASE i = 1
    BY <1>1, <1>3, <1>4, <2>1
  <2>2. CASE i = 2
    BY <1>1, <1>3, <1>4, <2>2
  <2> QED BY <1>4, <2>1, <2>2
<1> QED BY <1>5 DEF NewUnprivilegedMapper, map

\* The largest id is an int, and no larger than what the last line of a map ends
\* with, although the addition may wrap.
LEMMA MaxValidRange ==
  ASSUME NEW map \in Seq(Lines)
  PROVE  /\ MaxValid(map) \in Nat
         /\ map # <<>> => MaxValid(map) <= map[Len(map)].container + map[Len(map)].size - 1
<1>1. CASE map = <<>>
  BY <1>1 DEF MaxValid
<1>2. CASE map # <<>>
  <2>1. map[Len(map)] \in Lines
    BY <1>2
  <2>2. map[Len(map)].container \in 0..(2 * Half - 1) /\ map[Len(map)].size \in 1..(2 * Half - 1)
    BY <2>1 DEF Lines
  <2> QED BY <1>2, <2>2, HalfPositive DEF MaxValid, Smaller, Wrap, maxInt
<1> QED BY <1>1, <1>2

\* TranslatePath keeps the kind of a file, gives it the owner unless chown fails,
\* and keeps the mode unless chmod does.
LEMMA TranslateFile ==
  ASSUME NEW map, NEW f \in FileType, f.symlink => ~f.setuid, NEW u \in Nat, findMapping(map, f.uid) = u,
         NEW failing, NEW to, to = TranslatePath(map, f, failing)
  PROVE  /\ to \in FileType /\ (to.symlink => ~to.setuid) /\ to.symlink = f.symlink
         /\ to.uid \in {f.uid, u} /\ ("chown" \notin failing => to.uid = u)
         /\ "chmod" \notin failing => to.setuid = f.setuid
<1>1. CASE u = f.uid
  BY <1>1 DEF TranslatePath
<1>2. CASE u # f.uid
  <2>1. /\ Chown(f, u) \in FileType /\ Chown(f, u).symlink = f.symlink /\ Chown(f, u).uid = u /\ ~Chown(f, u).setuid
        /\ [f EXCEPT !.setuid = f.setuid] = f
    BY DEF Chown, FileType
  <2>2. \A g \in FileType : /\ [g EXCEPT !.setuid = f.setuid] \in FileType
                            /\ [g EXCEPT !.setuid = f.setuid].symlink = g.symlink
                            /\ [g EXCEPT !.setuid = f.setuid].uid = g.uid
                            /\ [g EXCEPT !.setuid = f.setuid].setuid = f.setuid
    BY DEF FileType
  <2>3. CASE "chown" \in failing
    BY <1>2, <2>1, <2>3 DEF TranslatePath
  <2>4. CASE "chown" \notin failing /\ (f.symlink \/ "chmod" \in failing)
    <3>1. to = Chown(f, u)
      BY <1>2, <2>4 DEF TranslatePath
    <3>2. "chmod" \notin failing => ~f.setuid
      BY <2>4
    <3> QED BY <2>1, <3>1, <3>2 DEF FileType
  <2>5. CASE "chown" \notin failing /\ ~f.symlink /\ "chmod" \notin failing
    <3>1. to = [Chown(f, u) EXCEPT !.setuid = f.setuid]
      BY <1>2, <2>5 DEF TranslatePath
    <3> QED BY <2>1, <2>2, <2>5, <3>1
  <2> QED BY <2>3, <2>4, <2>5
<1> QED BY <1>1, <1>2

\* A file keeps its owner as the container sees it, however often it changes
\* hands.
LEMMA FileStep == TypeOK /\ FileInv /\ [Next]_vars => FileInv'
<1> SUFFICES ASSUME TypeOK, FileInv, [Next]_vars PROVE FileInv'
  OBVIOUS
<1>1. /\ max \in Nat \union {-1} /\ file \in FilesType /\ file.now \in FileType /\ file.born \in FileType
      /\ file.privileged \in BOOLEAN /\ server \in ServerType
  BY DEF FileInv, FilesType, TypeOK
<1>2. ASSUME file' = NoFile, max' \in Nat \union {-1} PROVE FileInv'
  <2>1. NoFile \in FilesType /\ NoFile.privileged /\ NoFile.now = NoFile.born /\ NoFile.born \in FileType
        /\ ~NoFile.born.symlink
    BY DEF NoFile, NewFile, FileType, FilesType
  <2> QED BY <1>2, <2>1 DEF FileInv, Owner
<1>3. ASSUME UNCHANGED <<file, max>>, server' = server \/ server'.pc # "stopped" PROVE FileInv'
  BY <1>3 DEF FileInv, Owner, In
<1>4. ASSUME Stop PROVE FileInv'
  BY <1>2, <1>4 DEF Stop, Forget
<1>5. ASSUME NEW p, p # "stopped", Advance(p) PROVE FileInv'
  BY <1>1, <1>3, <1>5 DEF Advance, Becomes, fileVars, ServerType
<1>6. ASSUME NEW maps \in Maps, Start(maps) PROVE FileInv'
  <2>1. file' = NoFile
    BY <1>6 DEF Start, FileInv
  <2>2. maps # <<>> => maps[1] \in Seq(Lines) /\ maps[2] \in Seq(Lines)
    BY MapsFit DEF Lines
  <2>3. max' \in Nat \union {-1}
    <3>1. maps # <<>> => MaxValid(maps[1]) \in Nat /\ MaxValid(maps[2]) \in Nat
      BY <2>2, MaxValidRange
    <3> QED BY <1>6, <3>1 DEF Start, MaxId, Smaller
  <2> QED BY <1>2, <2>1, <2>3
<1>7. CASE Detect
  <2>1. CASE Stop
    BY <1>4, <2>1
  <2>2. CASE ~Stop
    <3>1. UNCHANGED <<file, max>> /\ server'.pc = "choose"
      BY <1>1, <1>7, <2>2 DEF Detect, Becomes, fileVars, ServerType
    <3> QED BY <1>3, <3>1
  <2> QED BY <2>1, <2>2
<1>8. CASE CreateImage
  <2>1. UNCHANGED <<file, max>> /\ server'.pc \in {"create", "newDriver"}
    BY <1>1, <1>8 DEF CreateImage, Becomes, fileVars, ServerType
  <2> QED BY <1>3, <2>1
<1>9. CASE ImageCreated \/ NewDriver \/ Serve
  BY <1>4, <1>5, <1>9 DEF ImageCreated, NewDriver, Serve
<1>10. CASE Script \/ (\E v \in Volumes : StoreVolume(v)) \/ BtrfsStep
  BY <1>3, <1>10 DEF Script, StoreVolume, BtrfsStep, serverVars, fileVars
<1>11. CASE Kill \/ (\E m \in Machines : Reboot(m))
  BY <1>4, <1>11 DEF Kill, Reboot
<1>12. CASE (\E bytes \in Sizes : MounterCreate(bytes)) \/ MounterRemove \/ MounterExits \/ UNCHANGED vars
  BY <1>3, <1>12 DEF MounterCreate, MounterRemove, MounterExits, serverVars, fileVars, vars
<1>13. ASSUME NEW u \in Ids, NEW l \in BOOLEAN, NEW b \in BOOLEAN, AddFile(u, l, b) PROVE FileInv'
  <2> DEFINE namespaced == max # -1 /\ ~file.privileged
             new == IF namespaced THEN Apply(NewUnprivilegedMapper(max), u) ELSE u
  <2>1. u \in Nat /\ UNCHANGED <<max, server>> /\ ~In("stopped") /\ (l => ~b)
    BY <1>13, IdsFit DEF AddFile, serverVars, In
  <2>2. new = IF ~file.privileged /\ max # -1 /\ u = 0 THEN max ELSE u
    <3>1. CASE namespaced
      <4>1. max \in Nat /\ Entries(NewUnprivilegedMapper(max), u) # {}
        BY <1>1, <1>13, <3>1 DEF AddFile
      <4> QED BY <2>1, <3>1, <4>1, ApplyUnprivileged
    <3>2. CASE ~namespaced
      BY <3>2
    <3> QED BY <3>1, <3>2
  <2>3. new \in Nat
    BY <1>1, <2>1, <2>2
  <2> HIDE DEF new
  <2>4. NewFile(u, l, b) \in FileType /\ NewFile(new, l, b) \in FileType
        /\ NewFile(new, l, b).uid = new
        /\ NewFile(u, l, b).symlink = l /\ NewFile(u, l, b).setuid = b /\ NewFile(u, l, b).uid = u
        /\ NewFile(new, l, b).symlink = l /\ NewFile(new, l, b).setuid = b
    BY <2>1, <2>3 DEF NewFile, FileType
  <2>5. file' = [file EXCEPT !.born = NewFile(u, l, b), !.now = NewFile(new, l, b), !.failed = {}]
    BY <1>1, <1>13 DEF AddFile, new, FilesType
  <2>6. /\ file' \in FilesType /\ file'.born = NewFile(u, l, b) /\ file'.now = NewFile(new, l, b)
        /\ file'.privileged = file.privileged /\ file'.failed = {}
    BY <1>1, <2>4, <2>5 DEF FilesType
  <2> QED BY <1>1, <2>1, <2>2, <2>4, <2>6 DEF FileInv, Owner, In
<1>14. ASSUME NEW p \in BOOLEAN, NEW failing \in SUBSET {"chown", "chmod", "store"}, SetPrivileged(p, failing)
       PROVE  FileInv'
  <2>1. UNCHANGED <<max, server>> /\ ~In("stopped")
    BY <1>14 DEF SetPrivileged, serverVars, In
  <2>2. PICK to : to = NamespacePath(p, file.now, failing)
    OBVIOUS
  <2>3. PICK flag \in BOOLEAN : flag = IF "store" \in failing THEN file.privileged ELSE p
    BY <1>1
  <2>4. PICK failed \in SUBSET {"chown", "chmod", "store"} : failed = (file.failed \intersect {"chmod"}) \union failing
    BY <1>1 DEF FilesType
  <2>5. file' = [file EXCEPT !.now = to, !.privileged = flag, !.failed = failed]
    BY <1>14, <2>2, <2>3, <2>4 DEF SetPrivileged
  <2> DEFINE u == IF max = -1 THEN file.now.uid
                  ELSE IF p THEN IF file.now.uid = max THEN 0 ELSE file.now.uid
                  ELSE IF file.now.uid = 0 THEN max ELSE file.now.uid
  <2>6. file.now.uid \in Nat /\ u \in Nat
    BY <1>1 DEF FileType
  <2>7. /\ to \in FileType /\ (to.symlink => ~to.setuid) /\ to.symlink = file.now.symlink
        /\ to.uid \in {file.now.uid, u} /\ ("chown" \notin failing => to.uid = u)
        /\ "chmod" \notin failing => to.setuid = file.now.setuid
    <3>1. file.now.symlink => ~file.now.setuid
      BY DEF FileInv
    <3>2. CASE max = -1
      BY <1>1, <2>2, <3>1, <3>2 DEF NamespacePath
    <3>3. CASE max # -1 /\ p
      <4>1. max \in Nat
        BY <1>1, <3>3
      <4>2. findMapping(NewPrivilegedMapper(max), file.now.uid) = u
        BY <2>6, <3>3, <4>1, FindPrivileged
      <4>3. to = TranslatePath(NewPrivilegedMapper(max), file.now, failing)
        BY <2>2, <3>3 DEF NamespacePath
      <4> HIDE DEF u
      <4> QED BY <1>1, <2>6, <3>1, <4>2, <4>3, TranslateFile
    <3>4. CASE max # -1 /\ ~p
      <4>1. max \in Nat
        BY <1>1, <3>4
      <4>2. findMapping(NewUnprivilegedMapper(max), file.now.uid) = u
        BY <2>6, <3>4, <4>1, FindUnprivileged
      <4>3. to = TranslatePath(NewUnprivilegedMapper(max), file.now, failing)
        BY <2>2, <3>4 DEF NamespacePath
      <4> HIDE DEF u
      <4> QED BY <1>1, <2>6, <3>1, <4>2, <4>3, TranslateFile
    <3> QED BY <3>2, <3>3, <3>4
  <2>8. file' \in FilesType /\ file'.now = to /\ file'.born = file.born /\ file'.privileged = flag /\ file'.failed = failed
    BY <1>1, <2>5, <2>7 DEF FilesType
  <2>9. ASSUME file.born.uid # max
        PROVE  /\ to.symlink = file.born.symlink
               /\ to.uid \in {Owner(TRUE, file.born.uid), Owner(FALSE, file.born.uid)}
               /\ failed \intersect {"chown", "store"} = {} => to.uid = Owner(flag, file.born.uid)
               /\ "chmod" \notin failed => to.setuid = file.born.setuid
    <3>1. /\ file.now.symlink = file.born.symlink
          /\ file.now.uid \in {Owner(TRUE, file.born.uid), Owner(FALSE, file.born.uid)}
          /\ "chmod" \notin file.failed => file.now.setuid = file.born.setuid
      BY <2>9 DEF FileInv
    <3>2. u = Owner(p, file.born.uid)
      BY <1>1, <2>9, <3>1 DEF Owner
    <3>3. Owner(p, file.born.uid) \in {Owner(TRUE, file.born.uid), Owner(FALSE, file.born.uid)}
      BY DEF Owner
    <3>4. to.uid \in {Owner(TRUE, file.born.uid), Owner(FALSE, file.born.uid)}
      <4> HIDE DEF u
      <4> QED BY <2>7, <3>1, <3>2, <3>3
    <3>5. ASSUME failed \intersect {"chown", "store"} = {} PROVE to.uid = Owner(flag, file.born.uid)
      <4>1. "chown" \notin failing /\ "store" \notin failing
        BY <2>4, <3>5
      <4>2. flag = p
        BY <2>3, <4>1
      <4> HIDE DEF u
      <4> QED BY <2>7, <3>2, <4>1, <4>2
    <3>6. "chmod" \notin failed => to.setuid = file.born.setuid
      <4> HIDE DEF u
      <4> QED BY <2>4, <2>7, <3>1
    <3> QED BY <2>7, <3>1, <3>4, <3>5, <3>6
  <2>10. Owner(TRUE, file.born.uid)' = Owner(TRUE, file.born.uid) /\ Owner(FALSE, file.born.uid)' = Owner(FALSE, file.born.uid)
         /\ Owner(file.privileged, file.born.uid)' = Owner(flag, file.born.uid)
    BY <2>1, <2>8 DEF Owner
  <2> HIDE DEF u
  <2> QED BY <1>1, <2>1, <2>7, <2>8, <2>9, <2>10 DEF FileInv, In
<1> QED BY <1>6, <1>7, <1>8, <1>9, <1>10, <1>11, <1>12, <1>13, <1>14 DEF Next

\* The largest id and the maps change together.
LEMMA MapStep == MapInv /\ [Next]_vars => MapInv'
<1> SUFFICES ASSUME MapInv, [Next]_vars PROVE MapInv'
  OBVIOUS
<1>1. ASSUME UNCHANGED <<idmaps, max>> PROVE MapInv'
  BY <1>1 DEF MapInv
<1>2. ASSUME Stop PROVE MapInv'
  BY <1>2 DEF Stop, Forget, MapInv
<1>3. ASSUME NEW x, Becomes(x) PROVE MapInv'
  BY <1>1, <1>3 DEF Becomes, fileVars
<1>4. ASSUME NEW maps \in Maps, Start(maps) PROVE MapInv'
  BY <1>4, MapsFit DEF Start, MapInv, Lines
<1>5. CASE Detect \/ CreateImage \/ ImageCreated \/ NewDriver \/ Serve
  BY <1>2, <1>3, <1>5 DEF Detect, CreateImage, ImageCreated, NewDriver, Serve, Advance
<1>6. CASE Script \/ (\E v \in Volumes : StoreVolume(v)) \/ BtrfsStep
           \/ (\E u \in Ids, l, b \in BOOLEAN : AddFile(u, l, b))
           \/ (\E p \in BOOLEAN, failing \in SUBSET {"chown", "chmod", "store"} : SetPrivileged(p, failing))
  BY <1>1, <1>6 DEF Script, StoreVolume, BtrfsStep, AddFile, SetPrivileged, fileVars
<1>7. CASE Kill \/ (\E m \in Machines : Reboot(m))
  BY <1>2, <1>7 DEF Kill, Reboot
<1>8. CASE (\E bytes \in Sizes : MounterCreate(bytes)) \/ MounterRemove \/ MounterExits \/ UNCHANGED vars
  BY <1>1, <1>8 DEF MounterCreate, MounterRemove, MounterExits, fileVars, vars
<1> QED BY <1>4, <1>5, <1>6, <1>7, <1>8 DEF Next

\* Every nonempty set of finite sets has an element that contains no other.
LEMMA LeastSubset ==
  ASSUME NEW S, NEW T \in SUBSET (SUBSET S), IsFiniteSet(S), T # {}
  PROVE  \E x \in T : \A y \in T : ~(y \subseteq x /\ y # x)
<1>1. \A y \in T : IsFiniteSet(y)
  BY FS_Subset
<1>2. T \subseteq FiniteSubsetsOf(S)
  BY <1>1 DEF FiniteSubsetsOf
<1>3. PICK x \in T : \A y \in T : ~(<<y, x>> \in StrictSubsetOrdering(S))
  BY <1>2, WFMin, FS_StrictSubsetOrderingWellFounded
<1>4. \A y \in T : y \subseteq x /\ y # x => <<y, x>> \in StrictSubsetOrdering(S)
  BY DEF StrictSubsetOrdering
<1>5. \A y \in T : ~(y \subseteq x /\ y # x)
  BY <1>3, <1>4
<1> QED BY <1>5, Zenon

\* Every nonempty set of natural numbers has a least element.
LEMMA Least ==
  ASSUME NEW T \in SUBSET Nat, T # {}
  PROVE  \E x \in T : \A y \in T : x <= y
<1>1. PICK n \in T : TRUE
  OBVIOUS
<1> DEFINE U == {1..m : m \in {k \in T : k <= n}}
<1>2. U \in SUBSET (SUBSET (1..n))
  OBVIOUS
<1>3. PICK x \in U : \A y \in U : ~(y \subseteq x /\ y # x)
  <2> DEFINE S == 1..n
  <2>1. U \in SUBSET (SUBSET S) /\ IsFiniteSet(S)
    BY <1>2, FS_Interval
  <2>2. U # {}
    <3>1. (1..n) \in U
      OBVIOUS
    <3> QED BY <3>1
  <2> HIDE DEF U, S
  <2> QED BY <2>1, <2>2, LeastSubset
<1>4. PICK m \in T : m <= n /\ x = 1..m
  OBVIOUS
<1>5. ASSUME NEW k \in T, ~(m <= k) PROVE FALSE
  <2>1. (1..k) \in U
    BY <1>4, <1>5
  <2>2. 1..k \subseteq 1..m /\ 1..k # 1..m
    <3>1. m \in 1..m /\ m \notin 1..k
      BY <1>5
    <3> QED BY <1>5, <3>1
  <2> QED BY <1>3, <1>4, <2>1, <2>2
<1> QED BY <1>5

\* The numbers of a line.
LEMMA LineFields ==
  ASSUME NEW l \in Lines
  PROVE  l.container \in Nat /\ l.size \in Nat
BY HalfPositive DEF Lines

\* A map without gaps knows every id up to its end: the first line that ends
\* behind the id has it.
LEMMA GaplessKnows ==
  ASSUME NEW map \in Seq(Lines), Gapless(map), NEW id \in Nat,
         id <= map[Len(map)].container + map[Len(map)].size - 1
  PROVE  Knows(map, id)
<1>1. Len(map) \in Nat \ {0} /\ DOMAIN map = 1..Len(map)
  BY DEF Gapless
<1>2. \A i \in 1..Len(map) : map[i].container \in Nat /\ map[i].size \in Nat
  <2>1. \A i \in 1..Len(map) : map[i] \in Lines
    BY <1>1
  <2> QED BY <2>1, LineFields
<1> DEFINE T == {i \in 1..Len(map) : id <= map[i].container + map[i].size - 1}
<1>3. T \in SUBSET Nat /\ T # {}
  <2>1. Len(map) \in T
    BY <1>1
  <2> QED BY <2>1
<1>4. PICK i \in T : \A j \in T : i <= j
  <2> HIDE DEF T
  <2> QED BY <1>3, Least
<1>5. map[i].container <= id
  <2>1. CASE i = 1
    <3>1. i \in DOMAIN map
      BY <1>1, <1>4
    <3>2. map[i].container = IF i = 1 THEN 0 ELSE map[i - 1].container + map[i - 1].size
      BY <3>1, Zenon DEF Gapless
    <3> QED BY <2>1, <3>2
  <2>2. CASE i # 1
    <3>1. i - 1 \in 1..Len(map) /\ i - 1 \notin T
      BY <1>1, <1>4, <2>2
    <3>2. map[i].container = map[i - 1].container + map[i - 1].size
      BY <1>1, <1>4, <2>2 DEF Gapless
    <3>3. map[i - 1].container \in Nat /\ map[i - 1].size \in Nat
      BY <1>2, <3>1
    <3>4. ~(id <= map[i - 1].container + map[i - 1].size - 1)
      BY <3>1
    <3> QED BY <3>2, <3>3, <3>4
  <2> QED BY <2>1, <2>2
<1> QED BY <1>1, <1>2, <1>4, <1>5 DEF Knows

\* SetPrivileged and the streams that add files, any number of times: the owners
\* and modes of the files stay what they were, and the largest id, to which root
\* is mapped, is one that the user namespace knows.
THEOREM OwnersRightHolds == Spec => []OwnersRight
<1>1. Init => FileInv /\ MapInv
  <2> SUFFICES ASSUME Init PROVE FileInv /\ MapInv
    OBVIOUS
  <2>1. /\ NoFile \in FilesType /\ NoFile.privileged
        /\ NoFile.now = NoFile.born /\ NoFile.born \in FileType /\ ~NoFile.born.symlink
    BY DEF NoFile, NewFile, FileType, FilesType
  <2> QED BY <2>1 DEF Init, FileInv, Owner, MapInv
<1>2. FileInv /\ MapInv => OwnersRight
  <2> SUFFICES ASSUME FileInv, MapInv PROVE OwnersRight
    OBVIOUS
  <2>1. ASSUME idmaps # <<>>, NEW i \in 1..2, Gapless(idmaps[i]) PROVE Knows(idmaps[i], max)
    <3>1. idmaps[1] \in Seq(Lines) /\ idmaps[2] \in Seq(Lines) /\ max = MaxId(idmaps[1], idmaps[2])
      BY <2>1 DEF MapInv
    <3>2. MaxValid(idmaps[1]) \in Nat /\ MaxValid(idmaps[2]) \in Nat
      BY <3>1, MaxValidRange
    <3>3. max \in Nat /\ max <= MaxValid(idmaps[i])
      BY <3>1, <3>2 DEF MaxId, Smaller
    <3>4. idmaps[i] \in Seq(Lines) /\ idmaps[i] # <<>>
      BY <2>1, <3>1 DEF Gapless
    <3>5. MaxValid(idmaps[i]) <= idmaps[i][Len(idmaps[i])].container + idmaps[i][Len(idmaps[i])].size - 1
      BY <3>4, MaxValidRange
    <3>6. idmaps[i][Len(idmaps[i])].container \in Nat /\ idmaps[i][Len(idmaps[i])].size \in Nat
      <4>1. idmaps[i][Len(idmaps[i])] \in Lines
        BY <3>4
      <4> QED BY <4>1, LineFields
    <3>7. max <= idmaps[i][Len(idmaps[i])].container + idmaps[i][Len(idmaps[i])].size - 1
      <4> DEFINE valid == MaxValid(idmaps[i])
                 first == idmaps[i][Len(idmaps[i])].container
                 size == idmaps[i][Len(idmaps[i])].size
      <4>1. valid \in Nat
        BY <3>2
      <4>2. max \in Nat /\ max <= valid /\ valid <= first + size - 1 /\ first \in Nat /\ size \in Nat
        BY <3>3, <3>5, <3>6
      <4> HIDE DEF valid, first, size
      <4>3. max <= first + size - 1
        BY <4>1, <4>2
      <4> QED BY <4>3 DEF first, size
    <3> QED BY <2>1, <3>3, <3>4, <3>7, GaplessKnows
  <2>2. file.born.uid # max =>
          /\ file.now.symlink = file.born.symlink
          /\ file.failed \intersect {"chown", "store"} = {} =>
                file.now.uid = IF ~file.privileged /\ max # -1 /\ file.born.uid = 0 THEN max ELSE file.born.uid
          /\ "chmod" \notin file.failed => file.now.setuid = file.born.setuid
    BY DEF FileInv, Owner
  <2> QED BY <2>1, <2>2 DEF OwnersRight
<1>3. TypeOK /\ FileInv /\ MapInv /\ [Next]_vars => FileInv' /\ MapInv'
  BY FileStep, MapStep
<1> QED BY <1>1, <1>2, <1>3, StartInvariant, PTL DEF Spec
-----------------------------------------------------------------------------
\* The volume itself is the first of the paths.
LEMMA RootPath == Len(Tree) \in Nat \ {0} /\ 1 \in 1..Len(Tree) /\ Tree[1] = <<>> /\ <<>> \in Paths
<1>1. Len(Tree) \in Nat \ {0} /\ 1 \in 1..Len(Tree) /\ Tree[1] = <<>>
  BY RootFirst
<1> QED BY <1>1 DEF Paths

\* What is left of a sequence without its last element.
LEMMA FrontOf ==
  ASSUME NEW S, NEW s \in Seq(S), Len(s) > 0
  PROVE  /\ SubSeq(s, 1, Len(s) - 1) \in Seq(S)
         /\ Len(SubSeq(s, 1, Len(s) - 1)) = Len(s) - 1
         /\ \A k \in 1..(Len(s) - 1) : SubSeq(s, 1, Len(s) - 1)[k] = s[k]
<1>1. Len(s) \in Nat /\ 1 \in Int /\ Len(s) - 1 \in Int
  OBVIOUS
<1>2. \A k \in 1..(Len(s) - 1) : s[k] \in S
  BY <1>1
<1> DEFINE t == SubSeq(s, 1, Len(s) - 1)
           n == Len(s)
           m == n - 1
           u == SubSeq(s, 1, m)
<1>3. m \in Int /\ n \in Nat /\ n > 0 /\ m = n - 1 /\ (\A k \in 1..m : s[k] \in S) /\ u = t
  BY <1>1, <1>2
<1> HIDE DEF m
<1>4. u \in Seq(S) /\ Len(u) = (IF 1 <= m THEN m - 1 + 1 ELSE 0)
      /\ \A k \in 1..(m - 1 + 1) : u[k] = s[1 + k - 1]
  BY <1>1, <1>3, SubSeqProperties
<1> HIDE DEF t, n, u
<1>5. m - 1 + 1 = m /\ Len(u) = m
  BY <1>3, <1>4
<1>6. \A k \in 1..m : u[k] = s[k]
  BY <1>3, <1>4, <1>5
<1>7. t \in Seq(S) /\ Len(t) = n - 1 /\ \A k \in 1..(n - 1) : t[k] = s[k]
  BY <1>3, <1>4, <1>5, <1>6
<1> QED BY <1>7 DEF t, n

\* The same, of what a set of distinct elements lists.
LEMMA FrontImage ==
  ASSUME NEW f, NEW g, NEW n \in Nat, n > 0, Len(g) = n - 1,
         \A k \in 1..(n - 1) : g[k] = f[k],
         \A k, l \in 1..n : k < l => f[l] # f[k]
  PROVE  {f[k] : k \in 1..n} \ {f[n]} = {g[k] : k \in 1..Len(g)}
<1>1. ASSUME NEW x \in {f[k] : k \in 1..n} \ {f[n]} PROVE x \in {g[k] : k \in 1..Len(g)}
  <2>1. PICK k \in 1..n : x = f[k]
    BY <1>1
  <2>2. k # n
    BY <1>1, <2>1
  <2>3. k \in 1..(n - 1)
    BY <2>2
  <2>4. g[k] = x /\ k \in 1..Len(g)
    BY <2>1, <2>3
  <2> QED BY <2>4
<1>2. ASSUME NEW x \in {g[k] : k \in 1..Len(g)} PROVE x \in {f[k] : k \in 1..n} \ {f[n]}
  <2>1. PICK k \in 1..(n - 1) : x = g[k]
    BY <1>2
  <2>2. k \in 1..n /\ n \in 1..n /\ k < n /\ x = f[k]
    BY <2>1
  <2>3. f[n] # f[k]
    BY <2>2
  <2> QED BY <2>2, <2>3
<1> QED BY <1>1, <1>2

\* EraseInv is preserved by DestroyVolume of the btrfs driver.
LEMMA EraseStep ==
  ASSUME EraseInv, NEW faults, DriverStep(faults)
  PROVE  EraseInv'
<1> DEFINE E == [pc : {"none", "walk", "delete"}, next : 1..Len(Tree), found : Seq(Paths)]
           f == erase.found
           n == Len(f)
<1>1. /\ erase \in E /\ f \in Seq(Paths) /\ n \in Nat /\ erase.next \in 1..Len(Tree) /\ subs \subseteq Paths
      /\ \A k \in 1..n : f[k] \in Paths
  BY DEF EraseInv
<1>2. NoErase \in E /\ NoErase.pc = "none" /\ NoErase.next = 1 /\ NoErase.found = <<>>
  BY RootPath DEF NoErase
<1>3. CASE CreateVolume
  BY <1>3, RootPath DEF CreateVolume, EraseInv
<1>4. ASSUME NEW i \in 2..Len(Tree), Nest(i) PROVE EraseInv'
  <2>1. Tree[i] \in Paths
    BY <1>4, RootPath DEF Paths
  <2> QED BY <1>4, <2>1 DEF Nest, EraseInv
<1>5. CASE DestroyVolume
  <2>1. erase' \in E /\ erase'.pc = "walk" /\ erase'.next = 1 /\ erase'.found = <<>> /\ UNCHANGED subs /\ <<>> \in subs
    BY <1>2, <1>5 DEF DestroyVolume
  <2> QED BY <1>1, <2>1 DEF EraseInv
<1>6. CASE findSubvolumes
  <2> DEFINE p == Tree[erase.next]
             last == erase.next = Len(Tree)
             g == IF p \in subs THEN Append(f, p) ELSE f
             Listed == /\ g \in Seq(Paths) /\ g # <<>> /\ g[1] = <<>>
                       /\ \A k, l \in 1..Len(g) : k < l => ~IsPrefix(g[l], g[k]) /\ g[l] # g[k]
                       /\ \A i \in 1..erase.next : Tree[i] \in subs => \E k \in 1..Len(g) : g[k] = Tree[i]
                       /\ \A k \in 1..Len(g) : \E i \in 1..erase.next : g[k] = Tree[i] /\ Tree[i] \in subs
  <2>1. UNCHANGED subs /\ erase.pc = "walk" /\ p \in Paths /\ <<>> \in subs
    BY <1>1, <1>6 DEF findSubvolumes, EraseInv, Paths
  <2>2. /\ erase'.pc = IF last THEN "delete" ELSE "walk"
        /\ erase'.next = IF last THEN 1 ELSE erase.next + 1
        /\ erase'.found = g
        /\ erase' = [pc |-> IF last THEN "delete" ELSE "walk", next |-> IF last THEN 1 ELSE erase.next + 1, found |-> g]
    BY <1>6 DEF findSubvolumes
  <2>3. /\ \A i \in 1..(erase.next - 1) : Tree[i] \in subs => \E k \in 1..n : f[k] = Tree[i]
        /\ \A k \in 1..n : \E i \in 1..(erase.next - 1) : f[k] = Tree[i] /\ Tree[i] \in subs
        /\ erase.next > 1 <=> f # <<>>
        /\ \A k, l \in 1..n : k < l => ~IsPrefix(f[l], f[k]) /\ f[l] # f[k]
        /\ f # <<>> => f[1] = <<>>
    BY <2>1 DEF EraseInv
  <2>4. ASSUME p \in subs PROVE Listed
    <3>1. g = Append(f, p) /\ g \in Seq(Paths) /\ Len(g) = n + 1 /\ g[n + 1] = p /\ \A k \in 1..n : g[k] = f[k]
      BY <1>1, <2>1, <2>4
    <3>2. g # <<>> /\ g[1] = <<>>
      BY <1>1, <2>3, <3>1, RootPath
    <3>3. \A k, l \in 1..Len(g) : k < l => ~IsPrefix(g[l], g[k]) /\ g[l] # g[k]
      <4> SUFFICES ASSUME NEW k \in 1..Len(g), NEW l \in 1..Len(g), k < l PROVE ~IsPrefix(g[l], g[k]) /\ g[l] # g[k]
        OBVIOUS
      <4>1. CASE l \in 1..n
        BY <1>1, <2>3, <3>1, <4>1
      <4>2. CASE l = n + 1
        <5>1. k \in 1..n /\ g[k] = f[k] /\ g[l] = p
          BY <1>1, <3>1, <4>2
        <5>2. PICK i \in 1..(erase.next - 1) : f[k] = Tree[i]
          BY <2>3, <5>1
        <5>3. i \in 1..Len(Tree) /\ i < erase.next
          BY <1>1, RootPath
        <5> QED BY <1>1, <5>1, <5>2, <5>3, OutsideFirst
      <4> QED BY <1>1, <3>1, <4>1, <4>2
    <3>4. \A i \in 1..erase.next : Tree[i] \in subs => \E k \in 1..Len(g) : g[k] = Tree[i]
      <4> SUFFICES ASSUME NEW i \in 1..erase.next, Tree[i] \in subs PROVE \E k \in 1..Len(g) : g[k] = Tree[i]
        OBVIOUS
      <4>1. CASE i = erase.next
        <5>1. n + 1 \in 1..Len(g) /\ g[n + 1] = Tree[i]
          BY <1>1, <3>1, <4>1
        <5> QED BY <5>1
      <4>2. CASE i # erase.next
        <5>0. i \in 1..(erase.next - 1)
          BY <1>1, <4>2
        <5>1. PICK k \in 1..n : f[k] = Tree[i]
          BY <2>3, <5>0
        <5>2. k \in 1..Len(g) /\ g[k] = Tree[i]
          BY <1>1, <3>1, <5>1
        <5> QED BY <5>2
      <4> QED BY <4>1, <4>2
    <3>5. \A k \in 1..Len(g) : \E i \in 1..erase.next : g[k] = Tree[i] /\ Tree[i] \in subs
      <4> SUFFICES ASSUME NEW k \in 1..Len(g) PROVE \E i \in 1..erase.next : g[k] = Tree[i] /\ Tree[i] \in subs
        OBVIOUS
      <4>1. CASE k = n + 1
        <5>1. erase.next \in 1..erase.next /\ g[k] = Tree[erase.next]
          BY <1>1, <3>1, <4>1
        <5> QED BY <2>4, <5>1
      <4>2. CASE k # n + 1
        <5>1. k \in 1..n
          BY <1>1, <3>1, <4>2
        <5>2. PICK i \in 1..(erase.next - 1) : f[k] = Tree[i] /\ Tree[i] \in subs
          BY <2>3, <5>1
        <5>3. i \in 1..erase.next
          BY <1>1
        <5> QED BY <3>1, <5>1, <5>2, <5>3
      <4> QED BY <4>1, <4>2
    <3> QED BY <3>1, <3>2, <3>3, <3>4, <3>5
  <2>5. ASSUME p \notin subs PROVE Listed
    <3>1. g = f /\ erase.next > 1
      BY <1>1, <2>1, <2>5, RootPath
    <3>2. \A i \in 1..erase.next : Tree[i] \in subs => i \in 1..(erase.next - 1)
      BY <1>1, <2>5
    <3>3. \A i \in 1..(erase.next - 1) : i \in 1..erase.next
      BY <1>1
    <3> HIDE DEF g
    <3> QED BY <1>1, <2>3, <3>1, <3>2, <3>3
  <2>6. Listed
    BY <2>4, <2>5
  <2> HIDE DEF g
  <2>7. CASE last
    <3>1. erase' \in E
      BY <2>2, <2>6, <2>7, RootPath
    <3>2. subs = {g[k] : k \in 1..Len(g)}
      <4>1. ASSUME NEW q \in subs PROVE \E k \in 1..Len(g) : g[k] = q
        <5>1. PICK i \in 1..Len(Tree) : q = Tree[i]
          BY <1>1 DEF Paths
        <5>2. i \in 1..erase.next /\ Tree[i] \in subs
          BY <2>7, <5>1
        <5> QED BY <2>6, <5>1, <5>2
      <4>2. \A k \in 1..Len(g) : g[k] \in subs
        BY <2>6
      <4> QED BY <4>1, <4>2
    <3>3. erase'.pc = "delete" /\ erase'.found = g /\ subs' = subs
      BY <2>1, <2>2, <2>7
    <3>4. \A k, l \in 1..Len(g) : k < l => ~IsPrefix(g[l], g[k]) /\ g[l] # g[k]
      BY <2>6
    <3>5. g # <<>> /\ g[1] = <<>>
      BY <2>6
    <3> HIDE DEF Listed, last, p
    <3> QED BY <1>1, <3>1, <3>2, <3>3, <3>4, <3>5 DEF EraseInv
  <2>8. CASE ~last
    <3>1. erase.next + 1 \in 1..Len(Tree) /\ (erase.next + 1) - 1 = erase.next /\ erase.next + 1 > 1
      BY <1>1, <2>8, RootPath
    <3>2. erase' \in E
      BY <2>2, <2>6, <2>8, <3>1
    <3> QED BY <1>1, <2>1, <2>2, <2>6, <2>8, <3>1, <3>2 DEF EraseInv
  <2> QED BY <2>7, <2>8
<1>7. CASE DeleteNext
  <2> DEFINE g == SubSeq(f, 1, n - 1)
  <2>1. /\ erase.pc = "delete" /\ n > 0 /\ subs = {f[k] : k \in 1..n} /\ n \in 1..n
        /\ \A k, l \in 1..n : k < l => ~IsPrefix(f[l], f[k]) /\ f[l] # f[k]
        /\ f # <<>> => f[1] = <<>>
    BY <1>1, <1>7 DEF DeleteNext, EraseInv
  <2>2. Inside(f[n]) = {}
    <3> SUFFICES ASSUME NEW q \in Inside(f[n]) PROVE FALSE
      OBVIOUS
    <3>1. q \in subs /\ q # f[n] /\ IsPrefix(f[n], q)
      BY DEF Inside
    <3>2. PICK k \in 1..n : q = f[k]
      BY <2>1, <3>1
    <3> QED BY <1>1, <2>1, <3>1, <3>2
  <2>3. subs' = subs \ {f[n]} /\ erase' = [erase EXCEPT !.found = g]
    BY <1>7, <2>2 DEF DeleteNext
  <2>4. g \in Seq(Paths) /\ Len(g) = n - 1 /\ \A k \in 1..(n - 1) : g[k] = f[k]
    BY <1>1, <2>1, FrontOf
  <2> HIDE DEF g
  <2>5. erase' \in E /\ erase'.pc = "delete" /\ erase'.found = g
    BY <1>1, <2>1, <2>3, <2>4
  <2>6. subs' = {g[k] : k \in 1..Len(g)}
    <3>1. \A k, l \in 1..n : k < l => f[l] # f[k]
      BY <2>1
    <3>2. {f[k] : k \in 1..n} \ {f[n]} = {g[k] : k \in 1..Len(g)}
      <4> HIDE DEF f, n
      <4> QED BY <1>1, <2>1, <2>4, <3>1, FrontImage
    <3> QED BY <2>1, <2>3, <3>2
  <2>7. \A k, l \in 1..Len(g) : k < l => ~IsPrefix(g[l], g[k]) /\ g[l] # g[k]
    <3>1. n \in Nat /\ Len(g) = n - 1 /\ (\A k \in 1..(n - 1) : g[k] = f[k])
          /\ \A k, l \in 1..n : k < l => ~IsPrefix(f[l], f[k]) /\ f[l] # f[k]
      BY <1>1, <2>1, <2>4
    <3> HIDE DEF f, n
    <3> SUFFICES ASSUME NEW k \in 1..Len(g), NEW l \in 1..Len(g), k < l PROVE ~IsPrefix(g[l], g[k]) /\ g[l] # g[k]
      OBVIOUS
    <3>2. k \in 1..(n - 1) /\ l \in 1..(n - 1) /\ k \in 1..n /\ l \in 1..n
      BY <3>1
    <3>3. g[k] = f[k] /\ g[l] = f[l]
      BY <3>1, <3>2
    <3> QED BY <3>1, <3>2, <3>3
  <2>8. g # <<>> => g[1] = <<>>
    <3>1. ASSUME g # <<>> PROVE g[1] = <<>>
      <4>0. Len(g) \in Nat \ {0}
        BY <2>4, <3>1, EmptySeq
      <4>1. Len(g) # 0
        BY <4>0
      <4>2. f # <<>>
        BY <2>1
      <4>3. 1 \in 1..(n - 1)
        <5> HIDE DEF f, n
        <5> QED BY <1>1, <2>1, <2>4, <4>1
      <4> QED BY <2>1, <2>4, <4>2, <4>3
    <3> QED BY <3>1
  <2>9. subs' \subseteq Paths
    BY <1>1, <2>3
  <2> QED BY <2>5, <2>6, <2>7, <2>8, <2>9 DEF EraseInv
<1>8. CASE Destroyed \/ DestroyFails
  <2>1. UNCHANGED subs /\ erase' = NoErase /\ erase.pc \in {"walk", "delete"}
    BY <1>8 DEF Destroyed, DestroyFails
  <2>2. subs = {} \/ <<>> \in subs
    <3>1. CASE erase.pc = "walk"
      BY <3>1 DEF EraseInv
    <3>2. CASE erase.pc = "delete" /\ f = <<>>
      BY <3>2 DEF EraseInv
    <3>3. CASE erase.pc = "delete" /\ f # <<>>
      <4>1. 1 \in 1..n /\ f[1] = <<>>
        BY <1>1, <3>3 DEF EraseInv
      <4> QED BY <3>3, <4>1 DEF EraseInv
    <3> QED BY <2>1, <3>1, <3>2, <3>3
  <2> QED BY <1>1, <1>2, <2>1, <2>2 DEF EraseInv
<1> QED BY <1>3, <1>4, <1>5, <1>6, <1>7, <1>8 DEF DriverStep

\* DestroyVolume of the btrfs driver, on a volume with any nest of subvolumes and
\* failing at any step, deletes inner subvolumes first and the volume last.
THEOREM LeafFirstHolds == Spec => []LeafFirst
<1>1. NoErase \in [pc : {"none", "walk", "delete"}, next : 1..Len(Tree), found : Seq(Paths)]
      /\ NoErase.pc = "none" /\ NoErase.found = <<>>
  BY RootPath DEF NoErase
<1>2. Init => EraseInv
  BY <1>1 DEF Init, DriverInit, EraseInv
<1>3. EraseInv /\ [Next]_vars => EraseInv'
  <2> SUFFICES ASSUME EraseInv, [Next]_vars PROVE EraseInv'
    OBVIOUS
  <2>1. ASSUME UNCHANGED driverVars PROVE EraseInv'
    BY <2>1 DEF driverVars, EraseInv
  <2>2. ASSUME subs' = {}, erase' = NoErase PROVE EraseInv'
    BY <1>1, <2>2 DEF EraseInv
  <2>3. CASE BtrfsStep
    BY <2>3, EraseStep DEF BtrfsStep
  <2>4. CASE Kill \/ (\E m \in Machines : Reboot(m))
    BY <2>2, <2>4 DEF Kill, Reboot
  <2>5. CASE (\E maps \in Maps : Start(maps)) \/ Detect \/ CreateImage \/ ImageCreated \/ NewDriver \/ Serve
    BY <2>1, <2>5 DEF Start, Detect, CreateImage, ImageCreated, NewDriver, Serve
  <2>6. CASE Script \/ (\E v \in Volumes : StoreVolume(v))
             \/ (\E u \in Ids, l, b \in BOOLEAN : AddFile(u, l, b))
           \/ (\E p \in BOOLEAN, failing \in SUBSET {"chown", "chmod", "store"} : SetPrivileged(p, failing))
    BY <2>1, <2>6 DEF Script, StoreVolume, AddFile, SetPrivileged
  <2>7. CASE (\E bytes \in Sizes : MounterCreate(bytes)) \/ MounterRemove \/ MounterExits \/ UNCHANGED vars
    BY <2>1, <2>7 DEF MounterCreate, MounterRemove, MounterExits, vars
  <2> QED BY <2>3, <2>4, <2>5, <2>6, <2>7 DEF Next
<1>4. EraseInv => LeafFirst
  BY DEF EraseInv, LeafFirst
<1> QED BY <1>2, <1>3, <1>4, PTL DEF Spec
=============================================================================
