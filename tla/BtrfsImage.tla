----------------------------- MODULE BtrfsImage -----------------------------
(***************************************************************************)
(* fs/btrfs.go: a btrfs file system in an image file, on a loop device,    *)
(* mounted where the volumes are.  Create is a shell script that may be    *)
(* killed, or fail, after any of its commands and is run again at the next *)
(* start; Delete undoes it.                                                *)
(*                                                                         *)
(* The script is run with bash -e and without pipefail: a command that     *)
(* fails ends it, but not one that stands in a condition, or before a      *)
(* pipe.  There a failure is read as an answer, and may be the wrong one.  *)
(***************************************************************************)
EXTENDS Naturals

CONSTANTS MinSize,     \* the smallest image that mkfs.btrfs accepts
          MaxDevices,  \* bound: as many devices, and mounts, come of wrong answers
          Faults       \* may a command fail?

ASSUME DevicesBound == MaxDevices \in Nat
ASSUME SomeSize == MinSize \in Nat \ {0}
ASSUME FaultsSwitch == Faults \in BOOLEAN

VARIABLES image,   \* the file: its size, whether it has a file system, volumes in it
          loops,   \* loop devices attached to it
          mounts,  \* file systems mounted on the volumes directory
          dir,     \* the volumes directory itself: is it there, has it volumes?
          script,  \* the script or Delete at work; lo: how many devices it names in $lo
          misled   \* history: the commands that failed and were taken for a wrong answer

imageVars == <<image, loops, mounts, dir, script, misled>>

NoImage == [there |-> FALSE, size |-> 0, btrfs |-> FALSE, cut |-> FALSE, volumes |-> {}]
NoScript == [pc |-> "none", size |-> 0, lo |-> 0, exit |-> ""]

ImageInit == /\ image = NoImage
             /\ loops = 0
             /\ mounts = 0
             /\ dir = [there |-> TRUE, volumes |-> {}]
             /\ script = NoScript
             /\ misled = {}

At(pc) == script.pc = pc
Goto(pc) == script' = [script EXCEPT !.pc = pc]
Exit(status) == script' = [script EXCEPT !.pc = "exit", !.exit = status]

\* A command fails before it has done anything, and with it the script;
\* Delete returns the error of a command that fails.
CommandFails ==
    /\ Faults
    /\ script.pc \in {"touch", "truncate", "attach", "mkfs", "mkdir", "mount",
                     "umount", "removeAll", "detach", "remove"}
    /\ Exit("failed")
    /\ UNCHANGED <<image, loops, mounts, dir, misled>>

Create(bytes) == script' = [NoScript EXCEPT !.pc = "size", !.size = bytes]

\* If stat fails it prints no size, which is not the right one.
CheckSize ==
    /\ At("size")
    /\ \/ Goto(IF ~image.there THEN "touch" ELSE IF image.size # script.size THEN "truncate" ELSE "find")
       \/ Faults /\ image.there /\ Goto("truncate")
    /\ UNCHANGED <<image, loops, mounts, dir, misled>>

Touch == /\ At("touch")
         /\ image' = [NoImage EXCEPT !.there = TRUE]
         /\ Goto("truncate")
         /\ UNCHANGED <<loops, mounts, dir, misled>>

\* What lies behind the new end is lost.
Truncate ==
    /\ At("truncate")
    /\ image' = IF script.size < image.size
                THEN [image EXCEPT !.size = script.size, !.volumes = {}, !.cut = TRUE,
                                   !.btrfs = @ /\ script.size >= MinSize]
                ELSE [image EXCEPT !.size = script.size]
    /\ Goto("find")
    /\ UNCHANGED <<loops, mounts, dir, misled>>

\* Without the output of losetup -j there seems to be no device.
FindLoop ==
    /\ At("find")
    /\ \/ /\ script' = [script EXCEPT !.pc = IF loops = 0 THEN "attach" ELSE "file", !.lo = loops]
          /\ UNCHANGED misled
       \/ /\ Faults /\ loops \in 1..(MaxDevices - 1)
          /\ Goto("attach")
          /\ misled' = misled \union {"losetup"}
    /\ UNCHANGED <<image, loops, mounts, dir>>

Attach == /\ At("attach")
          /\ loops' = loops + 1
          /\ script' = [script EXCEPT !.pc = "file", !.lo = 1]
          /\ UNCHANGED <<image, mounts, dir, misled>>

\* Mutant of CheckFile: does not look for a file system.
CheckFileNever == /\ At("file")
                  /\ Goto("mkfs")
                  /\ UNCHANGED <<image, loops, mounts, dir, misled>>

\* Without the output of file, or of grep, there seems to be no file system.
\* misled remembers it if there is something to lose.
CheckFile ==
    /\ At("file")
    /\ \/ /\ Goto(IF image.btrfs THEN "mkdir" ELSE "mkfs")
          /\ UNCHANGED misled
       \/ /\ Faults /\ image.btrfs
          /\ Goto("mkfs")
          /\ misled' = IF image.volumes = {} THEN misled ELSE misled \union {"file"}
    /\ UNCHANGED <<image, loops, mounts, dir>>

\* mkfs.btrfs may also refuse an image that has a file system: CommandFails.
Mkfs ==
    /\ At("mkfs")
    /\ \/ /\ image.size >= MinSize
          /\ image' = [image EXCEPT !.btrfs = TRUE, !.cut = FALSE, !.volumes = {}]
          /\ Goto("mkdir")
       \/ /\ image.size < MinSize
          /\ Exit("failed")
          /\ UNCHANGED image
    /\ UNCHANGED <<loops, mounts, dir, misled>>

Mkdir == /\ At("mkdir")
         /\ dir' = [dir EXCEPT !.there = TRUE]
         /\ Goto("mountpoint")
         /\ UNCHANGED <<image, loops, mounts, misled>>

\* Mutant of CheckMount: mounts once more.
CheckMountNever == /\ At("mountpoint")
                   /\ Goto("mount")
                   /\ UNCHANGED <<image, loops, mounts, dir, misled>>

\* If mountpoint fails the directory seems to be no mount point.
CheckMount ==
    /\ At("mountpoint")
    /\ \/ /\ IF mounts = 0 THEN Goto("mount") ELSE Exit("ok")
          /\ UNCHANGED misled
       \/ /\ Faults /\ mounts \in 1..(MaxDevices - 1)
          /\ Goto("mount")
          /\ misled' = misled \union {"mountpoint"}
    /\ UNCHANGED <<image, loops, mounts, dir>>

\* The kernel must know the file system, and may refuse one without its end or
\* one that is mounted there.  $lo is not quoted: two devices are too many words.
Mount(kernelHasBtrfs) ==
    /\ At("mount")
    /\ \/ kernelHasBtrfs /\ script.lo = 1 /\ mounts' = mounts + 1 /\ Exit("ok")
       \/ /\ ~kernelHasBtrfs \/ script.lo # 1 \/ image.cut \/ mounts > 0
          /\ Exit("failed")
          /\ UNCHANGED mounts
    /\ UNCHANGED <<image, loops, dir, misled>>

(***************************************************************************)
(* Delete.                                                                 *)
(***************************************************************************)
Delete == script' = [NoScript EXCEPT !.pc = "umount"]

Umount ==
    /\ At("umount")
    /\ \/ mounts > 0 /\ mounts' = mounts - 1 /\ Goto("removeAll")
       \/ mounts = 0 /\ Exit("failed") /\ UNCHANGED mounts
    /\ UNCHANGED <<image, loops, dir, misled>>

\* What is mounted there is emptied, and the directory stays.
RemoveAll ==
    /\ At("removeAll")
    /\ IF mounts = 0
       THEN dir' = [there |-> FALSE, volumes |-> {}] /\ Goto("detach") /\ UNCHANGED image
       ELSE image' = [image EXCEPT !.volumes = {}] /\ Exit("failed") /\ UNCHANGED dir
    /\ UNCHANGED <<loops, mounts, misled>>

\* losetup -j, then -d of the first device, the name of which is empty if there
\* is none.
Detach ==
    /\ At("detach")
    /\ \/ loops > 0 /\ loops' = loops - 1 /\ Goto("remove")
       \/ loops = 0 /\ Exit("failed") /\ UNCHANGED loops
    /\ UNCHANGED <<image, mounts, dir, misled>>

\* A device that is left is none of the next image: losetup -j compares inodes.
RemoveImage == /\ At("remove")
               /\ image' = NoImage
               /\ loops' = 0
               /\ Exit("ok")
               /\ UNCHANGED <<mounts, dir, misled>>

ScriptStep(kernelHasBtrfs) ==
    \/ CheckSize \/ Touch \/ Truncate \/ FindLoop \/ Attach \/ CheckFile \/ Mkfs \/ Mkdir
    \/ CheckMount \/ Mount(kernelHasBtrfs)
    \/ Umount \/ RemoveAll \/ Detach \/ RemoveImage \/ CommandFails

\* A reboot detaches and unmounts everything; what runs is killed.
RebootImage == /\ loops' = 0
               /\ mounts' = 0
               /\ script' = NoScript
               /\ misled' = misled \intersect {"file"}
               /\ UNCHANGED <<image, dir>>
=============================================================================
