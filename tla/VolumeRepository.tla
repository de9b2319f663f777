-------------------------- MODULE VolumeRepository --------------------------
(***************************************************************************)
(* The volume repository: volume/repository.go on volume/filesystem.go,    *)
(* volume/metadata.go, the strategies and the naive driver.                *)
(*                                                                         *)
(* A volume is a directory init/h, live/h or dead/h with two metadata      *)
(* files, a data directory and a symlink to its parent.  The API handles   *)
(* requests concurrently; a request is a sequence of file-system calls,    *)
(* one per step, and each call resolves its path when it is made.  Only    *)
(* DestroyVolume, SetProperty, SetPrivileged and GetPrivileged take the    *)
(* lock of their handle: CreateVolume and StreamIn do not.                 *)
(***************************************************************************)
EXTENDS Naturals, FiniteSets

CONSTANTS Actors,    \* goroutines that serve requests
          Handles,   \* volume handles
          Names,     \* property names
          Ops,       \* the operations requested, a subset of AllOps
          Faults,    \* may an I/O call or a driver fail?
          Crashes,   \* may the process be killed and restarted?
          NoActor, NoDir, NoHandle, NoReq, Missing

Creates == {"CreateEmpty", "CreateImport", "CreateCOW"}
LockingOps == {"DestroyVolume", "SetProperty", "SetPrivileged", "GetPrivileged"}
AllOps == Creates \union LockingOps \union {"StreamIn"}

\* Who owns the files below the data directory: root of the host, the mapped
\* root of unprivileged containers, or some files each; Missing without data.
Owners == {"host", "mapped", "mixed"}

\* The values of the two metadata files, each of which may be Missing.
Metadata == [props : (SUBSET Names) \union {Missing}, priv : BOOLEAN \union {Missing}]

Nothing == [props |-> Missing, priv |-> Missing]

\* The content of a volume directory.  A metadata file is overwritten in place:
\* while it is, or when that has failed or the process was killed, the file is
\* torn and does not decode.  (The mixtures of two values that happen to decode
\* are in UnlockedRequests.)
Files == {"props", "priv"}

Dir == [props  : (SUBSET Names) \union {Missing},
        priv   : BOOLEAN \union {Missing},
        torn   : SUBSET Files,
        data   : Owners \union {Missing},
        parent : Handles \union {NoHandle}]

\* What clients see of a directory.
Seen(dir) == [props |-> dir.props, priv |-> dir.priv, torn |-> dir.torn]

Request == [op : AllOps, h : Handles, parent : Handles \union {NoHandle},
            priv : BOOLEAN, props : SUBSET Names]

ASSUME OpsKnown == Ops \subseteq AllOps
ASSUME Switches == Faults \in BOOLEAN /\ Crashes \in BOOLEAN
ASSUME NullActor == NoActor \notin Actors
ASSUME NullDir == NoDir \notin Dir \union {Seen(dir) : dir \in Dir}
ASSUME NullValue == Missing \notin BOOLEAN /\ Missing \notin Owners /\ \A names \in SUBSET Names : names # Missing

VARIABLES init, live,        \* the volume directories init/h and live/h
          dead,              \* the handles with a directory dead/h
          locked,            \* the lock manager: who holds the lock of a handle
          pc, req,           \* per actor: next step, and the request it serves
          got                \* per actor: the metadata it has read

vars == <<init, live, dead, locked, pc, req, got>>
fs == <<init, live, dead>>

Init == /\ init = [h \in Handles |-> NoDir]
        /\ live = [h \in Handles |-> NoDir]
        /\ dead = {}
        /\ locked = [h \in Handles |-> NoActor]
        /\ pc = [p \in Actors |-> "idle"]
        /\ req = [p \in Actors |-> NoReq]
        /\ got = [p \in Actors |-> Nothing]

Handle(p) == req[p].h

Move(p, to) == /\ pc' = [pc EXCEPT ![p] = to]
               /\ UNCHANGED req

\* The request returns, with or without an error.
Return(p) == /\ pc' = [pc EXCEPT ![p] = "idle"]
             /\ req' = [req EXCEPT ![p] = NoReq]
             /\ got' = [got EXCEPT ![p] = Nothing]

\* What namespacing a data path does: every file that root of the other side
\* owns changes hands.  Errors are logged and swallowed, also half way through
\* the walk.
Owner(privileged) == IF privileged THEN "host" ELSE "mapped"

NamespacePath(data, privileged) ==
    IF data = Missing THEN {Missing}
                      ELSE {Owner(privileged)} \union (IF Faults THEN {data, "mixed"} ELSE {})

\* Files of one owner added to a data directory.
AddFiles(data, owner) == IF data \in {Missing, owner} THEN owner ELSE "mixed"

(***************************************************************************)
(* A request arrives.                                                      *)
(***************************************************************************)
FirstStep(op) == CASE op \in LockingOps -> "lock"
                   [] op = "CreateCOW" -> "lookupParent"
                   [] op = "StreamIn" -> "lookupTarget"
                   [] OTHER -> "mkdir"

\* Fields an operation does not have are fixed.
WellFormed(r) == /\ r.op \in Ops
                 /\ r.op = "CreateCOW" <=> r.parent # NoHandle
                 /\ r.op \notin Creates \union {"SetPrivileged"} => ~r.priv
                 /\ r.op = "SetProperty" => \E n \in Names : r.props = {n}
                 /\ r.op \notin Creates \union {"SetProperty"} => r.props = {}

Start(p) == /\ pc[p] = "idle"
            /\ \E r \in Request : /\ WellFormed(r)
                                  /\ req' = [req EXCEPT ![p] = r]
                                  /\ pc' = [pc EXCEPT ![p] = FirstStep(r.op)]
            /\ UNCHANGED <<init, live, dead, locked, got>>

(***************************************************************************)
(* CreateVolume.  The strategy materializes a volume in init/h.            *)
(***************************************************************************)
LookupParent(p) ==
    /\ pc[p] = "lookupParent"
    /\ \/ /\ live[req[p].parent] # NoDir
          /\ Move(p, "mkdir")
          /\ UNCHANGED got
       \/ /\ live[req[p].parent] = NoDir \/ Faults
          /\ Return(p)
    /\ UNCHANGED <<init, live, dead, locked>>

NewDir(properties) ==
    [props |-> properties, priv |-> Missing, torn |-> {}, data |-> Missing, parent |-> NoHandle]

Tear(dir, file) == [dir EXCEPT !.torn = @ \union {file}]

\* Mutant of MakeInitDir: MkdirAll, which is content with a directory it finds.
MakeInitDirShared(p) ==
    /\ pc[p] = "mkdir"
    /\ init' = [init EXCEPT ![Handle(p)] = NewDir({})]
    /\ Move(p, "driver")
    /\ UNCHANGED <<live, dead, locked, got>>

\* initRawVolume: Mkdir is exclusive; init/h stays behind if the empty
\* properties cannot be stored, and nobody ever reads it.
MakeInitDir(p) == LET h == Handle(p) IN
    /\ pc[p] = "mkdir"
    /\ \/ /\ init[h] # NoDir
          /\ Return(p)
          /\ UNCHANGED init
       \/ /\ init[h] = NoDir
          /\ init' = [init EXCEPT ![h] = NewDir({})]
          /\ Move(p, "driver")
          /\ UNCHANGED got
       \/ /\ init[h] = NoDir /\ Faults
          /\ \E left \in {NoDir, NewDir(Missing)} : init' = [init EXCEPT ![h] = left]
          /\ Return(p)
    /\ UNCHANGED <<live, dead, locked>>

\* The data directory as the driver makes it: empty, or a copy of the data of
\* the parent, whose path is resolved now.
DriverData(p) == IF req[p].op # "CreateCOW" THEN "host"
                 ELSE IF live[req[p].parent] = NoDir THEN Missing
                 ELSE live[req[p].parent].data

\* Mutant of AfterDriver: the volume goes live before it has its metadata.
AfterDriverEarly(op) == "initialize"

AfterDriver(op) == CASE op = "CreateCOW" -> "symlink"
                     [] op = "CreateImport" -> "import"
                     [] OTHER -> "describe"

\* driver.CreateVolume or driver.CreateCopyOnWriteLayer; if it fails, cleanup
\* removes init/h, and its own error is dropped.
DriverCreate(p) == LET h == Handle(p) IN
    /\ pc[p] = "driver"
    /\ \/ /\ DriverData(p) # Missing
          /\ init' = [init EXCEPT ![h].data = DriverData(p)]
          /\ Move(p, AfterDriver(req[p].op))
          /\ UNCHANGED got
       \/ /\ DriverData(p) = Missing \/ Faults
          /\ \/ init' = [init EXCEPT ![h] = NoDir]
             \/ Faults /\ UNCHANGED init
          /\ Return(p)
    /\ UNCHANGED <<live, dead, locked>>

LinkParent(p) == LET h == Handle(p) IN
    /\ pc[p] = "symlink"
    /\ \/ /\ init' = [init EXCEPT ![h].parent = req[p].parent]
          /\ Move(p, "describe")
       \/ /\ Faults
          /\ Move(p, "discard")
          /\ UNCHANGED init
    /\ UNCHANGED <<live, dead, locked, got>>

\* The path or archive of the request may be missing or malformed: the strategy
\* then returns and leaves init/h as it is.
Import(p) ==
    /\ pc[p] = "import"
    /\ \/ Move(p, "describe") /\ UNCHANGED got
       \/ Return(p)
    /\ UNCHANGED <<init, live, dead, locked>>

\* Mutant of Describe: does not namespace the data.
DescribeUnmapped(p) ==
    /\ pc[p] = "describe"
    /\ init' = [init EXCEPT ![Handle(p)].props = req[p].props, ![Handle(p)].priv = req[p].priv]
    /\ Move(p, "initialize")
    /\ UNCHANGED <<live, dead, locked, got>>

\* StoreProperties, StorePrivileged and NamespacePath on init/h, which no other
\* request reads or writes; each store may fail, and whether the file it fails on
\* is then torn does not matter, since the directory never goes live.
Describe(p) == LET h == Handle(p)
                   named == [init[h] EXCEPT !.props = req[p].props]
                   flagged == [named EXCEPT !.priv = req[p].priv] IN
    /\ pc[p] = "describe"
    /\ \/ /\ \E d \in NamespacePath(init[h].data, req[p].priv) :
                init' = [init EXCEPT ![h] = [flagged EXCEPT !.data = d]]
          /\ Move(p, "initialize")
       \/ /\ Faults
          /\ \E partial \in {init[h], named} : init' = [init EXCEPT ![h] = partial]
          /\ Move(p, "discard")
    /\ UNCHANGED <<live, dead, locked, got>>

\* Mutant of Initialize: the rename replaces a volume of the same handle.
InitializeOver(p) == LET h == Handle(p) IN
    /\ pc[p] = "initialize"
    /\ live' = [live EXCEPT ![h] = init[h]]
    /\ init' = [init EXCEPT ![h] = NoDir]
    /\ Return(p)
    /\ UNCHANGED <<dead, locked>>

\* os.Rename(init/h, live/h) fails if live/h exists.
Initialize(p) == LET h == Handle(p) IN
    /\ pc[p] = "initialize"
    /\ \/ /\ live[h] = NoDir
          /\ live' = [live EXCEPT ![h] = init[h]]
          /\ init' = [init EXCEPT ![h] = NoDir]
          /\ Return(p)
       \/ /\ live[h] # NoDir \/ Faults
          /\ Move(p, "discard")
          /\ UNCHANGED <<init, live, got>>
    /\ UNCHANGED <<dead, locked>>

(***************************************************************************)
(* baseVolume.Destroy: rename to dead/h, which fails if dead/h exists, then *)
(* deadVolume.Destroy.  The deferred call in CreateVolume ignores errors.  *)
(***************************************************************************)
\* Mutant of Discard: the request returns and the rest runs without it.
DiscardDetached(p) == /\ pc[p] = "discard"
                      /\ Handle(p) \notin dead
                      /\ dead' = dead \union {Handle(p)}
                      /\ init' = [init EXCEPT ![Handle(p)] = NoDir]
                      /\ pc' = [pc EXCEPT ![p] = "driverDestroy"]
                      /\ req' = [req EXCEPT ![p] = NoReq]
                      /\ UNCHANGED <<live, locked, got>>

Discard(p) == LET h == Handle(p) IN
    /\ pc[p] = "discard"
    /\ \/ /\ h \notin dead
          /\ dead' = dead \union {h}
          /\ init' = [init EXCEPT ![h] = NoDir]
          /\ Move(p, "driverDestroy")
          /\ UNCHANGED got
       \/ /\ h \in dead \/ Faults
          /\ Return(p)
          /\ UNCHANGED <<init, dead>>
    /\ UNCHANGED <<live, locked>>

\* A locking operation still has to unlock; the others return.
Finish(p) == IF req[p].op \in LockingOps THEN Move(p, "unlock") /\ UNCHANGED got
                                         ELSE Return(p)

\* Mutant of DriverDestroy: dead/h is not removed.
DriverDestroyOnly(p) == /\ pc[p] = "driverDestroy"
                        /\ Finish(p)
                        /\ UNCHANGED <<init, live, dead, locked>>

\* driver.DestroyVolume removes the data of dead/h, which nobody reads.
DriverDestroy(p) ==
    /\ pc[p] = "driverDestroy"
    /\ \/ Move(p, "cleanup") /\ UNCHANGED got
       \/ Faults /\ Finish(p)
    /\ UNCHANGED <<init, live, dead, locked>>

\* os.RemoveAll(dead/h)
Cleanup(p) ==
    /\ pc[p] = "cleanup"
    /\ \/ dead' = dead \ {Handle(p)}
       \/ Faults /\ UNCHANGED dead
    /\ Finish(p)
    /\ UNCHANGED <<init, live, locked>>

(***************************************************************************)
(* The operations that lock their handle.                                  *)
(***************************************************************************)
\* Mutant of Lock: does not wait for the holder.
LockShared(p) == /\ pc[p] = "lock"
                 /\ locked' = [locked EXCEPT ![Handle(p)] = p]
                 /\ Move(p, "lookup")
                 /\ UNCHANGED <<init, live, dead, got>>

Lock(p) == LET h == Handle(p) IN
    /\ pc[p] = "lock"
    /\ locked[h] = NoActor
    /\ locked' = [locked EXCEPT ![h] = p]
    /\ Move(p, "lookup")
    /\ UNCHANGED <<init, live, dead, got>>

AfterLookup(op) == CASE op = "DestroyVolume" -> "rename"
                     [] op = "SetProperty" -> "load"
                     [] op = "SetPrivileged" -> "namespace"
                     [] OTHER -> "loadPrivileged"

\* Mutant of LookupVolume: the early return forgets to unlock.
LookupVolumeKeepsLock(p) ==
    /\ pc[p] = "lookup"
    /\ \/ live[Handle(p)] # NoDir /\ Move(p, AfterLookup(req[p].op)) /\ UNCHANGED got
       \/ live[Handle(p)] = NoDir /\ Return(p)
    /\ UNCHANGED <<init, live, dead, locked>>

LookupVolume(p) ==
    /\ pc[p] = "lookup"
    /\ \/ live[Handle(p)] # NoDir /\ Move(p, AfterLookup(req[p].op))
       \/ (live[Handle(p)] = NoDir \/ Faults) /\ Move(p, "unlock")
    /\ UNCHANGED <<init, live, dead, locked, got>>

\* Mutant of Bury: replaces a dead/h that somebody else is tearing down.
BuryOver(p) == /\ pc[p] = "rename"
               /\ dead' = dead \union {Handle(p)}
               /\ live' = [live EXCEPT ![Handle(p)] = NoDir]
               /\ Move(p, "driverDestroy")
               /\ UNCHANGED <<init, locked, got>>

\* DestroyVolume: os.Rename(live/h, dead/h)
Bury(p) == LET h == Handle(p)
               renames == live[h] # NoDir /\ h \notin dead IN
    /\ pc[p] = "rename"
    /\ \/ /\ renames
          /\ dead' = dead \union {h}
          /\ live' = [live EXCEPT ![h] = NoDir]
          /\ Move(p, "driverDestroy")
       \/ /\ ~renames \/ Faults
          /\ Move(p, "unlock")
          /\ UNCHANGED <<live, dead>>
    /\ UNCHANGED <<init, locked, got>>

\* What a read of the properties, or of the flag, of live/h decodes to.
PropsAt(h) == IF live[h] = NoDir \/ "props" \in live[h].torn THEN Missing ELSE live[h].props
PrivAt(h) == IF live[h] = NoDir \/ "priv" \in live[h].torn THEN Missing ELSE live[h].priv

\* SetProperty: LoadProperties, then StoreProperties of the updated map.
LoadProperties(p) == LET h == Handle(p) IN
    /\ pc[p] = "load"
    /\ \/ /\ PropsAt(h) # Missing
          /\ got' = [got EXCEPT ![p].props = PropsAt(h)]
          /\ Move(p, "store")
       \/ /\ PropsAt(h) = Missing \/ Faults
          /\ Move(p, "unlock")
          /\ UNCHANGED got
    /\ UNCHANGED <<init, live, dead, locked>>

\* writeMetadataFile opens the file without truncating it and begins to encode:
\* from the first byte on the file is torn.
Overwrite(p, from, to, file) == LET h == Handle(p) IN
    /\ pc[p] = from
    /\ \/ /\ live[h] # NoDir
          /\ live' = [live EXCEPT ![h] = Tear(@, file)]
          /\ Move(p, to)
       \/ /\ live[h] = NoDir \/ Faults
          /\ Move(p, "unlock")
          /\ UNCHANGED live
    /\ UNCHANGED <<init, dead, locked, got>>

\* The value is written to its end, or not.
Encode(p, from, written) == LET h == Handle(p) IN
    /\ pc[p] = from
    /\ \/ live' = [live EXCEPT ![h] = IF live[h] = NoDir THEN NoDir ELSE written]
       \/ Faults /\ UNCHANGED live
    /\ Move(p, "unlock")
    /\ UNCHANGED <<init, dead, locked, got>>

StoreProperties(p) == Overwrite(p, "store", "encode", "props")

EncodeProperties(p) ==
    Encode(p, "encode", [live[Handle(p)] EXCEPT !.props = got[p].props \union req[p].props,
                                                !.torn = @ \ {"props"}])

\* SetPrivileged: the files change hands before the flag is stored.
NamespaceVolume(p, from, to, privileged) == LET h == Handle(p) IN
    /\ pc[p] = from
    /\ IF live[h] = NoDir
         THEN UNCHANGED live
         ELSE \E d \in NamespacePath(live[h].data, privileged) :
                 live' = [live EXCEPT ![h].data = d]
    /\ Move(p, to)
    /\ UNCHANGED <<init, dead, locked, got>>

NamespaceContents(p) == NamespaceVolume(p, "namespace", "storePrivileged", req[p].priv)

StorePrivileged(p) == Overwrite(p, "storePrivileged", "encodePrivileged", "priv")

EncodePrivileged(p) ==
    Encode(p, "encodePrivileged", [live[Handle(p)] EXCEPT !.priv = req[p].priv, !.torn = @ \ {"priv"}])

\* GetPrivileged: the value, or the error, goes to the client.
LoadPrivileged(p) == /\ pc[p] = "loadPrivileged"
                     /\ Move(p, "unlock")
                     /\ UNCHANGED <<init, live, dead, locked, got>>

Unlock(p) == /\ pc[p] = "unlock"
             /\ Return(p)
             /\ locked' = [locked EXCEPT ![Handle(p)] = NoActor]
             /\ UNCHANGED fs

(***************************************************************************)
(* StreamIn: without the lock.                                             *)
(***************************************************************************)
LookupTarget(p) ==
    /\ pc[p] = "lookupTarget"
    /\ \/ live[Handle(p)] # NoDir /\ Move(p, "mkdirAll") /\ UNCHANGED got
       \/ (live[Handle(p)] = NoDir \/ Faults) /\ Return(p)
    /\ UNCHANGED <<init, live, dead, locked>>

\* os.MkdirAll(live/h/volume/path) makes every directory that is missing, live/h
\* included; the new ones belong to root.
MakeTarget(p) == LET h == Handle(p) IN
    /\ pc[p] = "mkdirAll"
    /\ \/ /\ live[h] = NoDir
          /\ live' = [live EXCEPT ![h] = [NewDir(Missing) EXCEPT !.data = "host"]]
          /\ Move(p, "loadFlag")
          /\ UNCHANGED got
       \/ /\ live[h] # NoDir
          /\ \E d \in {AddFiles(live[h].data, "host")} \union ({live[h].data} \ {Missing}) :
                live' = [live EXCEPT ![h].data = d]
          /\ Move(p, "loadFlag")
          /\ UNCHANGED got
       \/ /\ Faults
          /\ Return(p)
          /\ UNCHANGED live
    /\ UNCHANGED <<init, dead, locked>>

LoadFlag(p) == LET h == Handle(p) IN
    /\ pc[p] = "loadFlag"
    /\ \/ /\ PrivAt(h) # Missing
          /\ got' = [got EXCEPT ![p].priv = PrivAt(h)]
          /\ Move(p, "namespaceTarget")
       \/ /\ PrivAt(h) = Missing \/ Faults
          /\ Return(p)
    /\ UNCHANGED <<init, live, dead, locked>>

NamespaceTarget(p) == NamespaceVolume(p, "namespaceTarget", "extract", got[p].priv)

\* tar runs as the root that the flag read before calls for; it may fail at any
\* point, or the encoding may be unknown.
Extract(p) == LET h == Handle(p) IN
    /\ pc[p] = "extract"
    /\ \/ /\ live[h] # NoDir /\ live[h].data # Missing
          /\ live' = [live EXCEPT ![h].data = AddFiles(@, Owner(got[p].priv))]
       \/ UNCHANGED live
    /\ Return(p)
    /\ UNCHANGED <<init, dead, locked>>

(***************************************************************************)
(* The process is killed and started again: requests and locks are gone,   *)
(* directories stay.  NewFilesystem and Recover of the naive driver change *)
(* nothing.                                                                *)
(***************************************************************************)
Crash == /\ Crashes
         /\ pc' = [p \in Actors |-> "idle"]
         /\ req' = [p \in Actors |-> NoReq]
         /\ got' = [p \in Actors |-> Nothing]
         /\ locked' = [h \in Handles |-> NoActor]
         /\ UNCHANGED fs

CreateVolume(p) == \/ LookupParent(p) \/ MakeInitDir(p) \/ DriverCreate(p) \/ LinkParent(p)
                   \/ Import(p) \/ Describe(p) \/ Initialize(p) \/ Discard(p)

DestroyDead(p) == DriverDestroy(p) \/ Cleanup(p)

LockedStep(p) == \/ LookupVolume(p) \/ Bury(p) \/ LoadProperties(p) \/ StoreProperties(p)
                 \/ EncodeProperties(p) \/ NamespaceContents(p) \/ StorePrivileged(p)
                 \/ EncodePrivileged(p) \/ LoadPrivileged(p) \/ Unlock(p)

StreamIn(p) == \/ LookupTarget(p) \/ MakeTarget(p) \/ LoadFlag(p) \/ NamespaceTarget(p)
               \/ Extract(p)

Progress(p) == CreateVolume(p) \/ DestroyDead(p) \/ LockedStep(p) \/ StreamIn(p)

Next == \/ \E p \in Actors : Start(p) \/ Lock(p) \/ Progress(p)
        \/ Crash

Spec == Init /\ [][Next]_vars

\* A goroutine that can run is run, and the keyed lock is granted eventually
\* (LockGranted of LockManager).
FairSpec == Spec /\ \A p \in Actors : WF_vars(Progress(p)) /\ SF_vars(Lock(p))
-----------------------------------------------------------------------------
Steps == {"idle", "lookupParent", "mkdir", "driver", "symlink", "import", "describe", "initialize",
          "discard", "driverDestroy", "cleanup", "lock", "lookup", "rename", "load", "store",
          "encode", "namespace", "storePrivileged", "encodePrivileged", "loadPrivileged", "unlock", "lookupTarget", "mkdirAll",
          "loadFlag", "namespaceTarget", "extract"}

\* Types of the directories, the locks and the requests' locals.
TypeOK == /\ init \in [Handles -> Dir \union {NoDir}]
          /\ live \in [Handles -> Dir \union {NoDir}]
          /\ dead \subseteq Handles
          /\ locked \in [Handles -> Actors \union {NoActor}]
          /\ pc \in [Actors -> Steps]
          /\ req \in [Actors -> Request \union {NoReq}]
          /\ got \in [Actors -> Metadata]
          /\ \A p \in Actors : /\ pc[p] # "idle" => req[p] \in Request
                               /\ pc[p] \in {"store", "encode"} => got[p].props \in SUBSET Names
                               /\ pc[p] \in {"namespaceTarget", "extract"} => got[p].priv \in BOOLEAN

\* The request works on init/h, dead/h, or on live/h with the lock held.
Initializing(p) == pc[p] \in {"driver", "symlink", "import", "describe", "initialize", "discard"}
TearingDown(p) == pc[p] \in {"driverDestroy", "cleanup"}
Found(p) == pc[p] \in {"rename", "load", "store", "encode", "namespace", "storePrivileged",
                       "encodePrivileged", "loadPrivileged"}
HoldsLock(p) == /\ pc[p] \notin {"idle", "lock"}
                /\ req[p].op \in LockingOps

\* Two requests never work under the lock of the same handle, and every step
\* that relies on the lock belongs to an operation that takes it.
LockOwned == \A p \in Actors :
    /\ HoldsLock(p) => locked[Handle(p)] = p
    /\ Found(p) \/ pc[p] \in {"lookup", "unlock"} => HoldsLock(p)

\* CreateVolume takes no lock, but while it fills init/h that directory is its
\* own: Mkdir lets one request in, and no other request moves or removes it.
InitOwned == \A p \in Actors : Initializing(p) =>
    /\ init[Handle(p)] # NoDir
    /\ \A q \in Actors : Initializing(q) /\ Handle(q) = Handle(p) => q = p

\* A failed CreateVolume tears dead/h down without the lock while DestroyVolume
\* tears dead/h down with it; still each works on a directory of its own.
DeadOwned == \A p \in Actors : TearingDown(p) =>
    /\ Handle(p) \in dead
    /\ \A q \in Actors : TearingDown(q) /\ Handle(q) = Handle(p) => q = p

\* What a locking operation has looked up stays true until it unlocks: the
\* volume is there, the properties SetProperty writes back are the ones it has
\* read plus its own, and the file it is overwriting is the one it has opened.
LookupStable == \A p \in Actors : Found(p) =>
    /\ live[Handle(p)] # NoDir
    /\ pc[p] = "store" => got[p].props = PropsAt(Handle(p))
    /\ pc[p] = "encode" => /\ got[p].props = live[Handle(p)].props
                           /\ "props" \in live[Handle(p)].torn
    /\ pc[p] = "encodePrivileged" => "priv" \in live[Handle(p)].torn

\* A volume that can be interacted with has been born (doc.go): everything under
\* live/ has its metadata files and its data, though a later store may have left
\* a file torn.
LiveComplete == \A h \in Handles : live[h] # NoDir =>
    Missing \notin {live[h].props, live[h].priv, live[h].data}

\* The owner of a volume's files is the one its privileged flag calls for,
\* except while SetPrivileged or StreamIn is changing the files.
OwnerMatchesFlag == \A h \in Handles :
    \/ live[h] = NoDir
    \/ \E p \in Actors : /\ pc[p] \in {"storePrivileged", "encodePrivileged", "loadFlag",
                                     "namespaceTarget", "extract"}
                         /\ Handle(p) = h
    \/ live[h].data = Owner(live[h].priv)

\* dead/ holds volumes being torn down: a directory that is left there makes
\* every later DestroyVolume of its handle fail.
DeadNotLeaked == \A h \in dead :
    \E p \in Actors : TearingDown(p) /\ Handle(p) = h

\* Every request returns, whatever fails on the way and whoever has the lock.
RequestsReturn == \A p \in Actors : pc[p] # "idle" ~> pc[p] = "idle"

(***************************************************************************)
(* What the refinement below needs besides the invariants above, when      *)
(* nothing is streamed in: a request runs the steps of its own operation,  *)
(* and a directory that is about to go live is complete.                   *)
(***************************************************************************)
RequestServed == \A p \in Actors : pc[p] # "idle" =>
    /\ WellFormed(req[p])
    /\ pc[p] = "lock" => req[p].op \in LockingOps
    /\ pc[p] \in {"load", "store", "encode"} => req[p].op = "SetProperty"
    /\ pc[p] \in {"lookupTarget", "mkdirAll", "loadFlag", "namespaceTarget", "extract"}
         => req[p].op = "StreamIn"

InitDescribed == \A p \in Actors : pc[p] = "initialize" =>
    /\ init[Handle(p)].props = req[p].props
    /\ init[Handle(p)].priv = req[p].priv

(***************************************************************************)
(* Repository => volume store: the volumes are the directories in live/.   *)
(***************************************************************************)
LiveVolumes == [h \in Handles |-> IF live[h] = NoDir THEN NoDir ELSE Seen(live[h])]

VS == INSTANCE VolumeStore WITH vol <- LiveVolumes, NoVolume <- NoDir

\* The concurrent, failing and restarting repository implements the volume
\* store, as long as nothing is streamed in: whatever fails and whenever the
\* process is killed, the worst that becomes of a live volume is a torn metadata
\* file.
ImplementsVolumeStore == VS!Spec
=============================================================================
