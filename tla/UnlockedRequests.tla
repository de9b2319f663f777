-------------------------- MODULE UnlockedRequests --------------------------
(***************************************************************************)
(* The requests of volume/repository.go that take several steps without    *)
(* the lock: GetVolume, ListVolumes and VolumeParent read two metadata     *)
(* files of every volume; DestroyVolumeAndDescendants and the handler      *)
(* DestroyVolumes destroy one volume after the other.                      *)
(*                                                                         *)
(* One such request runs while others create, change and destroy volumes.  *)
(* Each of those changes is one step here, as far as VolumeRepository has  *)
(* shown that it looks like one; but properties.json is overwritten in     *)
(* place, without O_TRUNC: the file is a sequence of blocks, a block being *)
(* what one read of the decoder returns.  privileged.json holds one word   *)
(* and is one block; that a store may leave it torn too is in              *)
(* VolumeRepository and VolumeAPI.                                         *)
(***************************************************************************)
EXTENDS Naturals, Sequences, FiniteSets

CONSTANTS Handles,
          Vols,        \* identities of volumes
          Names,       \* names of properties
          Texts,       \* values of properties
          Size,        \* the number of blocks json.Encoder fills with a map
          Faults,      \* may a write or a destruction fail?
          MaxChanges,  \* bound: changes by others while a request is served
          MaxListed,   \* bound: the same for one that reads two volumes
          ReadHandles, \* bound: the handles where metadata is read
          NoVol, NoHandle

ASSUME FaultsSwitch == Faults \in BOOLEAN
ASSUME Bounds == MaxChanges \in Nat /\ MaxListed \in Nat /\ ReadHandles \subseteq Handles
ASSUME NullIds == NoVol \notin Vols /\ NoHandle \notin Handles
ASSUME FiniteHandles == IsFiniteSet(Handles)

VARIABLES live,    \* live/: the volume a handle names
          vol,     \* per volume: its parent link and its metadata files
          req,     \* the request
          stack,   \* DestroyVolumeAndDescendants: the calls that are open
          past,    \* history: what has happened since the request came in
          metadata \* bound: whether metadata is changed and read, or volumes are
                   \* destroyed in bulk; the latter does not look at metadata

vars == <<live, vol, req, stack, past, metadata>>
store == <<live, vol, metadata>>

Properties == UNION {[D -> Texts] : D \in SUBSET Names}

ASSUME Sizes == Size \in [Properties -> Nat \ {0}]

Alive == {h \in Handles : live[h] # NoVol}

\* Properties.HasProperties and Properties.UpdateProperty.
HasProperties(p, other) ==
    /\ Cardinality(DOMAIN other) <= Cardinality(DOMAIN p)
    /\ \A n \in DOMAIN other : n \in DOMAIN p /\ p[n] = other[n]

UpdateProperty(p, n, t) == [m \in DOMAIN p \union {n} |-> IF m = n THEN t ELSE p[m]]

\* json.Encoder: the blocks of a map.
Encode(p) == [i \in 1..Size[p] |-> [of |-> p, at |-> i]]

\* Mutant of WriteMetadataFile: appends.
AppendMetadataFile(old, new) == old \o new

\* writeMetadataFile: bytes past the end of the new value stay.
WriteMetadataFile(old, new) ==
    [i \in 1..(IF Len(new) < Len(old) THEN Len(old) ELSE Len(new)) |->
        IF i <= Len(new) THEN new[i] ELSE old[i]]

\* json.Decoder: blocks of one value in their order are part of it, and it
\* stops where that value ends; it does not look at what follows.
Consistent(f) == \A i \in 1..Len(f) : f[i] = [of |-> f[1].of, at |-> i]
Complete(f) == Len(f) = Size[f[1].of]
Readable(f) == Size[f[1].of] <= Len(f) /\ Consistent(SubSeq(f, 1, Size[f[1].of]))

NoReq == [op |-> "", pc |-> "idle", h |-> NoHandle, todo |-> {}, query |-> <<>>, fd |-> NoVol,
          got |-> <<>>, out |-> {}, bad |-> {}, answer |-> ""]
NoVolume == [link |-> NoHandle, file |-> <<>>, priv |-> FALSE, stored |-> <<>>, whole |-> TRUE]

\* What can be said of a handle.
Absent == [props |-> <<>>, priv |-> FALSE, found |-> FALSE]
State(h) == IF live[h] = NoVol THEN Absent
            ELSE [props |-> vol[live[h]].stored, priv |-> vol[live[h]].priv, found |-> TRUE]

\* before and was: the state and the volume of each handle when the request
\* came in; changes: how often it changed since; others: changes not made by the
\* request; suspect: handles with a file that is half written or was rewritten
\* since; doomed: the volumes DestroyVolumeAndDescendants is asked to destroy;
\* child: the volume VolumeParent is asked about.
NoPast == [before |-> [h \in Handles |-> Absent], was |-> [h \in Handles |-> NoVol],
           changes |-> [h \in Handles |-> 0], others |-> 0, suspect |-> {}, doomed |-> {},
           child |-> NoHandle]

Init == /\ live = [h \in Handles |-> NoVol]
        /\ vol = [v \in Vols |-> NoVolume]
        /\ req = NoReq
        /\ stack = <<>>
        /\ past = NoPast
        /\ metadata \in BOOLEAN

Changed(h) == [past EXCEPT !.changes[h] = IF @ < 2 THEN @ + 1 ELSE @]
OthersChange(h, suspects) ==
    IF req.pc = "idle" THEN UNCHANGED past
    ELSE /\ past.others < IF req.op \in {"list", "parent"} THEN MaxListed ELSE MaxChanges
         /\ req.op = "get" => h = req.h
         /\ past' = [Changed(h) EXCEPT !.others = @ + 1, !.suspect = @ \union suspects]

\* The files of a volume that is gone and that nobody reads do not matter.
Removed(v) == IF v = req.fd THEN vol ELSE [vol EXCEPT ![v] = NoVolume]

(***************************************************************************)
(* Others.                                                                 *)
(***************************************************************************)
Fresh == Vols \ ({live[h] : h \in Handles} \union {past.was[h] : h \in Handles} \union {req.fd}
                  \union {stack[i].v : i \in 1..Len(stack)})
NewVol == CHOOSE v \in Fresh : TRUE

\* Bound: handles are not used again while a volume links to them.
Unlinked(h) == \A g \in Alive : vol[live[g]].link # h

\* initRawVolume stores an empty map first.
CreateVolume(h) ==
    /\ live[h] = NoVol
    /\ Unlinked(h)
    /\ metadata => h \in ReadHandles
    /\ Fresh # {}
    /\ \E l \in Alive \union {NoHandle},
          p \in (IF metadata THEN Properties ELSE {<<>>}), b \in (IF metadata THEN BOOLEAN ELSE {FALSE}) :
          /\ live' = [live EXCEPT ![h] = NewVol]
          /\ vol' = [vol EXCEPT ![NewVol] =
                [link |-> l, file |-> WriteMetadataFile(Encode(<<>>), Encode(p)), priv |-> b,
                 stored |-> p, whole |-> TRUE]]
    /\ OthersChange(h, {})
    /\ UNCHANGED <<req, stack, metadata>>

\* Consumers delete children before parents (doc.go).
DestroyVolume(h) ==
    /\ live[h] # NoVol
    /\ Unlinked(h)
    /\ live' = [live EXCEPT ![h] = NoVol]
    /\ vol' = Removed(live[h])
    /\ OthersChange(h, {})
    /\ UNCHANGED <<req, stack, metadata>>

\* Under the lock: reads the file, writes it, wholly or, if the disk is full or
\* the process is killed, a part.
SetProperty(h, n, t) == LET v == live[h]
                            p == UpdateProperty(vol[v].file[1].of, n, t) IN
    /\ v # NoVol
    /\ Readable(vol[v].file)
    /\ \/ vol' = [vol EXCEPT ![v].file = WriteMetadataFile(@, Encode(p)), ![v].stored = p]
       \/ /\ Faults
          /\ \A u \in Vols : vol[u].whole   \* bound: one such file at a time
          /\ \E k \in 1..(Size[p] - 1) :
                vol' = [vol EXCEPT ![v].file = WriteMetadataFile(@, SubSeq(Encode(p), 1, k)),
                                   ![v].whole = FALSE]
    /\ OthersChange(h, {h})
    /\ UNCHANGED <<live, req, stack, metadata>>

SetPrivileged(h, b) ==
    /\ live[h] # NoVol
    /\ vol[live[h]].priv # b
    /\ vol' = [vol EXCEPT ![live[h]].priv = b]
    /\ OthersChange(h, {})
    /\ UNCHANGED <<live, req, stack, metadata>>

(***************************************************************************)
(* The request.                                                            *)
(***************************************************************************)
At(pc) == req.pc = pc
Go(pc) == req' = [req EXCEPT !.pc = pc]
Answer(a) == req' = [req EXCEPT !.pc = "done", !.answer = a, !.fd = NoVol, !.got = <<>>]

\* The volume of h and those whose links lead to it.
Lineage(h) == {live[g] : g \in {g \in Alive : \E n \in 0..Cardinality(Handles) :
    \E path \in [0..n -> Alive] : /\ path[0] = g /\ path[n] = h
                                  /\ \A i \in 1..n : vol[live[path[i - 1]]].link = path[i]}}

Begin(r, h) == /\ At("idle")
               /\ req' = r
               /\ past' = [NoPast EXCEPT !.before = [g \in Handles |-> State(g)],
                                         !.was = live,
                                         !.suspect = {g \in Alive : ~vol[live[g]].whole},
                                         !.doomed = IF r.op = "tree" THEN Lineage(h) ELSE {},
                                         !.child = IF r.op = "parent" THEN h ELSE NoHandle]
               /\ UNCHANGED store

\* Bound: it reads no other volume, and there are none.
GetVolume(h) == /\ Alive \subseteq {h}
                /\ Begin([NoReq EXCEPT !.op = "get", !.pc = "lookup", !.h = h], h)
                /\ UNCHANGED stack

VolumeParent(h) == /\ Begin([NoReq EXCEPT !.op = "parent", !.pc = "lookup", !.h = h], h)
                   /\ UNCHANGED stack

ListVolumes(q) == /\ Begin([NoReq EXCEPT !.op = "list", !.pc = "readDir", !.query = q], NoHandle)
                  /\ UNCHANGED stack

\* filesystem.LookupVolume.
LookupVolume ==
    /\ At("lookup")
    /\ IF live[req.h] = NoVol THEN Answer(IF req.op = "get" THEN "notFound" ELSE "noVolume")
       ELSE Go(IF req.op = "get" THEN "properties" ELSE "link")
    /\ UNCHANGED <<store, stack, past>>

\* filesystem.ListVolumes.
ReadDir ==
    /\ At("readDir")
    /\ req' = [req EXCEPT !.todo = Alive, !.pc = "next"]
    /\ UNCHANGED <<store, stack, past>>

NextVolume ==
    /\ At("next")
    /\ \/ \E h \in req.todo :
             req' = [req EXCEPT !.todo = @ \ {h}, !.h = h, !.pc = "properties"]
       \/ req.todo = {} /\ Answer("ok")
    /\ UNCHANGED <<store, stack, past>>

\* baseVolume.Parent: EvalSymlinks of live/h/parent, which fails if the volume,
\* its link or what the link names is not there.
ParentOf(h) == IF live[h] = NoVol \/ vol[live[h]].link \notin Alive THEN NoHandle
               ELSE vol[live[h]].link

EvalSymlinks ==
    /\ At("link")
    /\ IF ParentOf(req.h) = NoHandle THEN Answer("notFound")
       ELSE req' = [req EXCEPT !.pc = "properties", !.h = ParentOf(req.h)]
    /\ UNCHANGED <<store, stack, past>>

\* Mutant of Missing: a volume that is gone ends the list.
MissingEnds == Answer(IF req.op = "list" THEN "ok" ELSE IF req.op = "get" THEN "notFound" ELSE "corrupted")

\* volumeFrom returns ErrVolumeDoesNotExist.
Missing == CASE req.op = "get" -> Answer("notFound")
             [] req.op = "list" -> req' = [req EXCEPT !.pc = "next", !.fd = NoVol, !.got = <<>>]
             [] req.op = "parent" -> Answer("corrupted")

\* volumeFrom returns another error.
Corrupt == CASE req.op = "get" -> Answer("error")
             [] req.op = "list" -> req' = [req EXCEPT !.bad = @ \union {req.h}, !.pc = "next", !.fd = NoVol, !.got = <<>>]
             [] req.op = "parent" -> Answer("corrupted")

\* readMetadataFile opens the file by its path.
OpenProperties ==
    /\ At("properties")
    /\ IF live[req.h] = NoVol THEN Missing
       ELSE req' = [req EXCEPT !.pc = "read", !.fd = live[req.h], !.got = <<>>]
    /\ UNCHANGED <<store, stack, past>>

\* Blocks of two values may be malformed, or may be well-formed by accident.
ReadProperties == LET f == vol[req.fd].file
                      n == Len(req.got) + 1 IN
    /\ At("read")
    /\ \/ /\ n > Len(f)
          /\ Corrupt
       \/ /\ n <= Len(f)
          /\ LET got == Append(req.got, f[n]) IN
                \/ /\ Consistent(got)
                   /\ req' = [req EXCEPT !.got = got, !.pc = IF Complete(got) THEN "flag" ELSE "read"]
                \/ /\ ~Consistent(got)
                   /\ \/ Corrupt
                      \/ \E p \in Properties : req' = [req EXCEPT !.got = Encode(p), !.pc = "flag"]
    /\ UNCHANGED <<store, stack, past>>

\* readMetadataFile of the other file, by its path again; then the end of
\* volumeFrom.
LoadPrivileged == LET p == req.got[1].of IN
    /\ At("flag")
    /\ IF live[req.h] = NoVol THEN Missing
       ELSE LET new == [h |-> req.h, props |-> p, priv |-> vol[live[req.h]].priv] IN
            req' = [req EXCEPT !.out = IF HasProperties(p, req.query) THEN @ \union {new} ELSE @,
                               !.pc = IF req.op = "list" THEN "next" ELSE "done",
                               !.answer = IF req.op = "list" THEN "" ELSE "found",
                               !.fd = NoVol, !.got = <<>>]
    /\ UNCHANGED <<store, stack, past>>

(***************************************************************************)
(* DestroyVolumeAndDescendants.  A frame of the stack is a call: its       *)
(* handle, the volumes of its list that are still to be looked at, and     *)
(* (history) the volume whose descendants it destroys.                     *)
(***************************************************************************)
Frame(h) == [h |-> h, v |-> NoVol, listed |-> FALSE, todo |-> {}]
Top == stack[Len(stack)]
Pop == SubSeq(stack, 1, Len(stack) - 1)

DestroyVolumeAndDescendants(h) ==
    /\ Begin([NoReq EXCEPT !.op = "tree", !.pc = "tree", !.h = h], h)
    /\ stack' = <<Frame(h)>>

\* Any error ends every call.
TreeFails == Answer("error") /\ stack' = <<>>

TreeList ==
    /\ At("tree")
    /\ ~Top.listed
    /\ \/ /\ Top.h \in Alive
          /\ stack' = [stack EXCEPT ![Len(stack)] =
                [h |-> Top.h, v |-> live[Top.h], listed |-> TRUE, todo |-> Alive]]
          /\ UNCHANGED req
       \/ /\ Top.h \notin Alive
          /\ TreeFails
    /\ UNCHANGED <<store, past>>

\* Mutant of TreeCandidate: calls itself for the volume it works on.
TreeCandidateSelf ==
    /\ At("tree")
    /\ Top.listed
    /\ Len(stack) < 4
    /\ \E c \in Top.todo : LET rest == [stack EXCEPT ![Len(stack)].todo = @ \ {c}] IN
          stack' = IF ParentOf(c) = Top.h \/ c = Top.h THEN Append(rest, Frame(c)) ELSE rest
    /\ UNCHANGED <<store, req, past>>

TreeCandidate ==
    /\ At("tree")
    /\ Top.listed
    /\ \E c \in Top.todo : LET rest == [stack EXCEPT ![Len(stack)].todo = @ \ {c}] IN
          stack' = IF ParentOf(c) = Top.h THEN Append(rest, Frame(c)) ELSE rest
    /\ UNCHANGED <<store, req, past>>

\* DestroyVolume, which fails if the volume is gone by now.  If the driver
\* fails the volume is gone too: it has been moved to dead/ before.
TreeDestroy ==
    /\ At("tree")
    /\ Top.listed /\ Top.todo = {}
    /\ \/ /\ Top.h \in Alive
          /\ live' = [live EXCEPT ![Top.h] = NoVol]
          /\ vol' = Removed(live[Top.h])
          /\ stack' = Pop
          /\ IF Len(stack) = 1 THEN Answer("ok") ELSE UNCHANGED req
       \/ /\ Top.h \in Alive
          /\ Faults
          /\ \/ live' = [live EXCEPT ![Top.h] = NoVol] /\ vol' = Removed(live[Top.h])
             \/ UNCHANGED store
          /\ TreeFails
       \/ /\ Top.h \notin Alive
          /\ TreeFails
          /\ UNCHANGED store
    /\ past' = Changed(Top.h)
    /\ UNCHANGED metadata

(***************************************************************************)
(* The handler DestroyVolumes: a goroutine for each entry of the list, and *)
(* a channel with room for an error of each.                               *)
(***************************************************************************)
DestroyVolumes(list) ==
    /\ Begin([NoReq EXCEPT !.op = "batch", !.pc = "batch", !.query = list, !.todo = 1..Len(list)], NoHandle)
    /\ UNCHANGED stack

Vanish(h) == /\ live' = [live EXCEPT ![h] = NoVol]
             /\ vol' = Removed(live[h])
             /\ past' = Changed(h)
             /\ UNCHANGED metadata

\* Mutant of DestroyOne: forgets the error.
DestroyOneSilent(i) == LET h == req.query[i] IN
    /\ At("batch")
    /\ i \in req.todo
    /\ req' = [req EXCEPT !.todo = @ \ {i}]
    /\ \/ h \in Alive /\ Vanish(h)
       \/ (Faults \/ h \notin Alive) /\ UNCHANGED <<store, past>>
    /\ UNCHANGED stack

\* A volume that does not exist is not an error.
DestroyOne(i) == LET h == req.query[i] IN
    /\ At("batch")
    /\ i \in req.todo
    /\ \/ /\ req' = [req EXCEPT !.todo = @ \ {i}]
          /\ IF h \in Alive THEN Vanish(h) ELSE UNCHANGED <<store, past>>
       \/ /\ h \in Alive
          /\ Faults
          /\ req' = [req EXCEPT !.todo = @ \ {i}, !.bad = @ \union {i}]
          /\ Vanish(h) \/ UNCHANGED <<store, past>>
    /\ UNCHANGED stack

\* handleWg.Wait.
AllDestroyed ==
    /\ At("batch")
    /\ req.todo = {}
    /\ Answer(IF req.bad = {} THEN "ok" ELSE "error")
    /\ UNCHANGED <<store, stack, past>>

Return == /\ At("done")
          /\ req' = NoReq
          /\ past' = NoPast
          /\ vol' = [v \in Vols |-> IF \E h \in Handles : live[h] = v THEN vol[v] ELSE NoVolume]
          /\ UNCHANGED <<live, stack, metadata>>

Lists == UNION {[1..n -> Handles] : n \in 1..2}

Others == \E h \in Handles :
    \/ CreateVolume(h) \/ DestroyVolume(h)
    \/ metadata /\ \E n \in Names, t \in Texts : SetProperty(h, n, t)
    \/ metadata /\ \E b \in BOOLEAN : SetPrivileged(h, b)

Arrival == \/ metadata /\ \E h \in Handles : GetVolume(h) \/ VolumeParent(h)
           \/ metadata /\ \E q \in Properties : ListVolumes(q)
           \/ ~metadata /\ \E h \in Handles : DestroyVolumeAndDescendants(h)
           \/ ~metadata /\ \E l \in Lists : DestroyVolumes(l)

Step == \/ LookupVolume \/ ReadDir \/ NextVolume \/ EvalSymlinks
        \/ OpenProperties \/ ReadProperties \/ LoadPrivileged
        \/ TreeList \/ TreeCandidate \/ TreeDestroy
        \/ \E i \in DOMAIN req.query : DestroyOne(i)
        \/ AllDestroyed \/ Return

Next == Others \/ Arrival \/ Step

Spec == Init /\ [][Next]_vars
-----------------------------------------------------------------------------
\* A properties file that was never left half written holds the value that was
\* stored last, whatever longer values it held before: what writeMetadataFile
\* leaves behind the new value is never read.
StoredReadable == \A h \in Alive : LET v == vol[live[h]] IN
    v.whole => Readable(v.file) /\ v.file[1].of = v.stored

\* The answer about a handle, and what it may be: what was true when the request
\* came in or what is true now.
Reported(h) == IF \E r \in req.out : r.h = h
               THEN LET r == CHOOSE r \in req.out : r.h = h IN [props |-> r.props, priv |-> r.priv, found |-> TRUE]
               ELSE Absent
Match(s) == IF s.found /\ HasProperties(s.props, req.query) THEN s ELSE Absent

\* GetVolume, ListVolumes and VolumeParent tell the truth about a handle that
\* changed at most once meanwhile, unless its properties were rewritten meanwhile
\* or had been left half written (past.suspect), of which a torn value, an error
\* or nothing may be reported: its properties and its privilege are those of one
\* volume at one time, and ListVolumes leaves no such volume out.  The parent of
\* a volume that did not change is found, and no other one, unless the properties
\* of the parent are suspect.
Accurate == req.pc = "done" =>
    /\ req.op \in {"get", "list"} \/ (req.op = "parent" /\ req.answer = "found") =>
          \A h \in (IF req.op = "list" THEN Handles ELSE {req.h}) :
              past.changes[h] <= 1 /\ h \notin past.suspect =>
                  Reported(h) \in {Match(past.before[h]), Match(State(h))}
    /\ req.op = "parent" /\ past.changes[past.child] = 0 =>
          LET p == ParentOf(past.child) IN
          IF p = NoHandle THEN req.answer = IF past.child \in Alive THEN "notFound" ELSE "noVolume"
          ELSE p \in past.suspect \/ (req.answer = "found" /\ req.h = p)

\* When DestroyVolumeAndDescendants succeeds, the volume and every descendant it
\* had when the request came in are gone, whatever others did meanwhile; and so
\* is every volume of the list of DestroyVolumes, when that succeeds.
BulkGone == req.pc = "done" /\ req.answer = "ok" =>
    /\ req.op = "tree" => \A h \in Alive : live[h] \notin past.doomed
    /\ req.op = "batch" => \A i \in DOMAIN req.query : LET h == req.query[i] IN
          past.was[h] # NoVol => live[h] # past.was[h]

\* DestroyVolumeAndDescendants never calls itself for a volume it is at work on:
\* the recursion ends.
RecursionEnds == \A i, j \in 1..Len(stack) :
    stack[i].listed /\ stack[j].listed /\ stack[i].v = stack[j].v => i = j
=============================================================================
