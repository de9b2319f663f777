---------------------------- MODULE OverlayDriver ---------------------------
(***************************************************************************)
(* The overlay driver, volume/driver/overlay_linux.go, below the           *)
(* directories of volume/filesystem.go.  The data of a volume is in a      *)
(* layer overlays/h, named by its handle, which is bind-mounted on the     *)
(* data path of a volume without parent; the layer of a copy-on-write      *)
(* volume is mounted as an overlay above the data of its oldest ancestor,  *)
(* and a volume whose parent has a parent starts with a copy of its        *)
(* parent's layer.  Mounts move with the directory they are in and are     *)
(* gone after a reboot: Recover makes them again before requests are       *)
(* served.                                                                 *)
(*                                                                         *)
(* One action is one step of a request that others can see.  Requests on   *)
(* one directory exclude each other: InitOwned, DeadOwned and LookupStable *)
(* of VolumeRepository.  A layer is reduced to the content of one file.    *)
(***************************************************************************)
CONSTANTS Handles,
          Values,     \* contents of the file
          Reuse,      \* may a request create a handle that is in use or left over?
          Faults,     \* may mounts, unmounts and metadata stores fail?
          Reboots,    \* may the machine be rebooted?
          NoHandle, NoDir, NoMount, NoLayer, Empty, Gone

ASSUME Switches == Reuse \in BOOLEAN /\ Faults \in BOOLEAN /\ Reboots \in BOOLEAN
ASSUME Nulls == /\ {NoHandle, Gone} \intersect Handles = {}
                /\ {NoLayer, Empty} \intersect Values = {} /\ Empty # NoLayer

\* What is mounted: the upper directory of the mount, and the lower one of an
\* overlay.  Gone is a directory that was removed under the mount.
Mount == [upper : Handles \union {Gone}, lower : Handles \union {NoHandle, Gone}]

Dir == [parent : Handles \union {NoHandle}, mount : Mount \union {NoMount}]

ASSUME NullRecords == NoMount \notin Mount /\ NoDir \notin Dir

VARIABLES init, live, dead,   \* the volume directories
          layer,              \* the file in overlays/h; Empty without it, or NoLayer
          creating, tearing,  \* the handles with a request at work in init/ and dead/
          recovering          \* the volumes Recover has still to mount

vars == <<init, live, dead, layer, creating, tearing, recovering>>

Init == /\ init = [h \in Handles |-> NoDir]
        /\ live = [h \in Handles |-> NoDir]
        /\ dead = [h \in Handles |-> NoDir]
        /\ layer = [h \in Handles |-> NoLayer]
        /\ creating = {}
        /\ tearing = {}
        /\ recovering = {}

Serving == recovering = {}

\* baseVolume.Parent: the link counts while the directory it names is there.
Parent(d) == IF d.parent \in Handles /\ live[d.parent] # NoDir THEN d.parent ELSE NoHandle

HasParent(d) == Parent(d) # NoHandle

\* The loop of findRootParent, from a live volume p.
findRootParent(p) ==
    LET root[h \in Handles] == IF live[h] # NoDir /\ HasParent(live[h]) THEN root[Parent(live[h])] ELSE h
    IN  root[p]

\* Mutant of MkdirAll: makes the layer anew.
MkdirAllNew(h) == Empty

\* os.MkdirAll keeps a layer that is there.
MkdirAll(h) == IF layer[h] = NoLayer THEN Empty ELSE layer[h]

\* Mutant of CopyLayer: the copy is left out.
CopyLayerNot(h, p) == MkdirAll(h)

\* The layer of a child: cp -a of its parent's layer over it, if the parent has
\* a parent.
CopyLayer(h, p) ==
    IF HasParent(live[p]) /\ layer[p] \notin {NoLayer, Empty} THEN layer[p] ELSE MkdirAll(h)

Copyable(p) == HasParent(live[p]) => layer[p] # NoLayer

BindMount(h) == [upper |-> h, lower |-> NoHandle]

\* The lower directory is what the data path of the root parent shows now.
OverlayMount(h, p) == LET root == live[findRootParent(p)] IN
    [upper |-> h, lower |-> IF root.mount = NoMount THEN Gone ELSE root.mount.upper]

(***************************************************************************)
(* NewVolume and NewSubvolume with CreateVolume and CreateCopyOnWriteLayer *)
(* of the driver.  If the driver fails init/h is removed, the layer is not.*)
(***************************************************************************)
Creatable(h) == /\ Serving
                /\ init[h] = NoDir
                /\ ~Reuse => live[h] = NoDir /\ dead[h] = NoDir /\ layer[h] = NoLayer

Materialize(h, d, content) ==
    /\ layer' = [layer EXCEPT ![h] = content]
    /\ \/ /\ init' = [init EXCEPT ![h] = d]
          /\ creating' = creating \union {h}
       \/ /\ Faults
          /\ UNCHANGED <<init, creating>>
    /\ UNCHANGED <<live, dead, tearing, recovering>>

NewVolume(h) == /\ Creatable(h)
                /\ Materialize(h, [parent |-> NoHandle, mount |-> BindMount(h)], MkdirAll(h))

NewSubvolume(h, p) == /\ Creatable(h)
                      /\ live[p] # NoDir /\ Copyable(p)
                      /\ Materialize(h, [parent |-> p, mount |-> OverlayMount(h, p)], CopyLayer(h, p))

\* The rename to live/, which fails if the handle is taken.
Initialize(h) == /\ Serving /\ h \in creating
                 /\ live[h] = NoDir
                 /\ live' = [live EXCEPT ![h] = init[h]]
                 /\ init' = [init EXCEPT ![h] = NoDir]
                 /\ creating' = creating \ {h}
                 /\ UNCHANGED <<dead, layer, tearing, recovering>>

(***************************************************************************)
(* Destroy: of a volume that cannot go live, and on request.  The rename   *)
(* fails if dead/h is there.  Consumers delete children before parents     *)
(* (doc.go).                                                               *)
(***************************************************************************)
Discard(h) == /\ Serving /\ h \in creating
              /\ live[h] # NoDir \/ Faults
              /\ creating' = creating \ {h}
              /\ dead' = [dead EXCEPT ![h] = IF @ = NoDir THEN init[h] ELSE @]
              /\ init' = [init EXCEPT ![h] = IF dead[h] = NoDir THEN NoDir ELSE @]
              /\ tearing' = IF dead[h] = NoDir THEN tearing \union {h} ELSE tearing
              /\ UNCHANGED <<live, layer, recovering>>

Childless(h) == \A c \in Handles : /\ live[c] # NoDir => live[c].parent # h
                                   /\ c \in creating => init[c].parent # h

DestroyVolume(h) == /\ Serving
                    /\ live[h] # NoDir /\ Childless(h)
                    /\ dead[h] = NoDir
                    /\ dead' = [dead EXCEPT ![h] = live[h]]
                    /\ live' = [live EXCEPT ![h] = NoDir]
                    /\ tearing' = tearing \union {h}
                    /\ UNCHANGED <<init, layer, creating, recovering>>

\* A mount that shows the layer of h once that layer was removed.
Without(h, d) == IF d = NoDir \/ d.mount = NoMount THEN d
                 ELSE [d EXCEPT !.mount.upper = IF @ = h THEN Gone ELSE @,
                                !.mount.lower = IF @ = h THEN Gone ELSE @]

\* os.RemoveAll of the layer, and what is left of dead/h.
RemoveLayer(h, rest) == /\ layer' = [layer EXCEPT ![h] = NoLayer]
                        /\ init' = [g \in Handles |-> Without(h, init[g])]
                        /\ live' = [g \in Handles |-> Without(h, live[g])]
                        /\ dead' = [g \in Handles |-> IF g = h THEN rest ELSE Without(h, dead[g])]

Unmount(d) == [d EXCEPT !.mount = NoMount]

\* DestroyVolume of the driver unmounts the data path and removes the layer;
\* then dead/h is removed.
TearDown(h) == /\ Serving /\ h \in tearing
               /\ dead[h].mount # NoMount
               /\ \E rest \in {NoDir} \union (IF Faults THEN {Unmount(dead[h])} ELSE {}) :
                     RemoveLayer(h, rest)
               /\ tearing' = tearing \ {h}
               /\ UNCHANGED <<creating, recovering>>

\* It fails before that if the data path is in use or not mounted (the error is
\* then EINVAL and not os.ErrInvalid), or if the work directory cannot be removed.
TearDownFails(h) == /\ Serving /\ h \in tearing
                    /\ dead[h].mount = NoMount \/ Faults
                    /\ \E rest \in {dead[h], Unmount(dead[h])} : dead' = [dead EXCEPT ![h] = rest]
                    /\ tearing' = tearing \ {h}
                    /\ UNCHANGED <<init, live, layer, creating, recovering>>

(***************************************************************************)
(* A container, or the stream of an import, writes the file: to the upper  *)
(* directory of the mount.                                                 *)
(***************************************************************************)
WriteTo(d, v) == /\ d # NoDir /\ d.mount # NoMount
                 /\ d.mount.upper # Gone
                 /\ layer' = [layer EXCEPT ![d.mount.upper] = v]
                 /\ UNCHANGED <<init, live, dead, creating, tearing, recovering>>

Write(h) == /\ Serving
            /\ \E v \in Values : WriteTo(live[h], v) \/ (h \in creating /\ WriteTo(init[h], v))

(***************************************************************************)
(* The machine is rebooted.  The new process runs Recover: first the       *)
(* volumes without parent, then the others, in the order of their names.   *)
(***************************************************************************)
Unmounted(dirs) == [h \in Handles |-> IF dirs[h] = NoDir THEN NoDir ELSE Unmount(dirs[h])]

Reboot == /\ Reboots
          /\ init' = Unmounted(init)
          /\ live' = Unmounted(live)
          /\ dead' = Unmounted(dead)
          /\ creating' = {}
          /\ tearing' = {}
          /\ recovering' = {h \in Handles : live[h] # NoDir}
          /\ UNCHANGED layer

Remount(h, mount, content) == /\ live' = [live EXCEPT ![h].mount = mount]
                              /\ layer' = [layer EXCEPT ![h] = content]
                              /\ recovering' = recovering \ {h}
                              /\ UNCHANGED <<init, dead, creating, tearing>>

\* Mutant of RecoverBind: does not ask for a parent.
RecoverBindAll(h) == /\ h \in recovering
                     /\ Remount(h, BindMount(h), MkdirAll(h))

RecoverBind(h) == /\ h \in recovering
                  /\ ~HasParent(live[h])
                  /\ Remount(h, BindMount(h), MkdirAll(h))

RecoverOverlay(h) == LET p == Parent(live[h]) IN
    /\ h \in recovering
    /\ \A g \in recovering : HasParent(live[g])
    /\ Copyable(p)
    /\ Remount(h, OverlayMount(h, p), CopyLayer(h, p))

Create == \E h \in Handles : \/ NewVolume(h)
                             \/ \E p \in Handles : NewSubvolume(h, p)
                             \/ Initialize(h)
Destroy == \E h \in Handles : Discard(h) \/ DestroyVolume(h) \/ TearDown(h) \/ TearDownFails(h)
Recover == \E h \in Handles : RecoverBind(h) \/ RecoverOverlay(h)

Next == Create \/ Destroy \/ Recover \/ Reboot \/ \E h \in Handles : Write(h)

Spec == Init /\ [][Next]_vars
-----------------------------------------------------------------------------
\* While requests are served every live volume shows its own layer, above the
\* layer its parent is built on if it has one, also after a reboot.
MountsRight == Serving => \A h \in Handles : live[h] # NoDir =>
    /\ live[h].mount # NoMount
    /\ live[h].mount.upper = h
    /\ layer[h] # NoLayer
    /\ live[h].mount.lower =
          IF live[h].parent = NoHandle THEN NoHandle
          ELSE IF live[live[h].parent].parent = NoHandle THEN live[h].parent
          ELSE live[live[h].parent].mount.lower

\* The file a volume shows when its mounts are in place.
Shown(h, d) == IF layer[h] \in Values \/ d.parent = NoHandle THEN layer[h]
                                                             ELSE layer[findRootParent(d.parent)]

\* A copy-on-write volume begins with the data of its parent, however deep it is
\* nested.
StartsAsParent == [][\A h, p \in Handles :
    NewSubvolume(h, p) /\ init'[h] # NoDir => Shown(h, init[h])' = Shown(p, live[p])]_vars

\* A step after which the live volume h shows something else.
Changes(h) == /\ live[h] # NoDir /\ live'[h] # NoDir
              /\ Shown(h, live[h])' # Shown(h, live[h])

\* The data of a live volume changes only if somebody writes to it or to the
\* volume it is built on, whatever is created, destroyed or remounted; but
\* Recover writes to a volume whose parent has a parent.
DataKept == [][\A h \in Handles : Changes(h) =>
    \/ \E g \in {h, findRootParent(h)} : Write(g)
    \/ RecoverOverlay(h) /\ HasParent(live[live[h].parent])]_vars

\* Recover gives the volumes back as they were.
RecoverRestores == [][Recover => \A h \in Handles : ~Changes(h)]_vars
=============================================================================
