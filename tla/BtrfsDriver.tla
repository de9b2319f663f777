----------------------------- MODULE BtrfsDriver -----------------------------
(***************************************************************************)
(* volume/driver/btrfs.go: a volume is a subvolume, and what runs in it    *)
(* may have made others inside.  btrfs does not delete a subvolume that    *)
(* has another one in it.                                                  *)
(*                                                                         *)
(* A path is a sequence of names; Tree is the directories of the volume in *)
(* the order in which filepath.Walk finds them, the volume itself first.   *)
(***************************************************************************)
EXTENDS Naturals, Sequences, SequencesExt

CONSTANT Tree

ASSUME RootFirst == Tree \in Seq(Seq(Nat)) /\ Len(Tree) > 0 /\ Tree[1] = <<>>

\* A directory comes before what is in it.
ASSUME OutsideFirst == \A i, j \in 1..Len(Tree) : i < j => ~IsPrefix(Tree[j], Tree[i]) /\ Tree[j] # Tree[i]

VARIABLES subs,   \* the paths that are subvolumes (their inode is 256)
          erase   \* DestroyVolume: where it is and what it has found

driverVars == <<subs, erase>>

NoErase == [pc |-> "none", next |-> 1, found |-> <<>>]

DriverInit == subs = {} /\ erase = NoErase

Inside(p) == {q \in subs : q # p /\ IsPrefix(p, q)}

\* btrfs subvolume create, or snapshot: a snapshot has no subvolumes in it.
CreateVolume == /\ subs = {} /\ erase.pc = "none"
                /\ subs' = {<<>>}
                /\ UNCHANGED erase

\* A container that uses the volume.
Nest(i) == /\ erase.pc = "none" /\ <<>> \in subs
           /\ subs' = subs \union {Tree[i]}
           /\ UNCHANGED erase

DestroyVolume == /\ erase.pc = "none" /\ <<>> \in subs
                 /\ erase' = [NoErase EXCEPT !.pc = "walk"]
                 /\ UNCHANGED subs

findSubvolumes ==
    /\ erase.pc = "walk"
    /\ LET p == Tree[erase.next]
           last == erase.next = Len(Tree) IN
       erase' = [pc |-> IF last THEN "delete" ELSE "walk", next |-> IF last THEN 1 ELSE erase.next + 1,
                 found |-> IF p \in subs THEN Append(erase.found, p) ELSE erase.found]
    /\ UNCHANGED subs

\* Mutant of DeleteNext: begins with what was found first.
DeleteNextForward ==
    /\ erase.pc = "delete"
    /\ erase.found # <<>>
    /\ IF Inside(erase.found[1]) = {}
       THEN subs' = subs \ {erase.found[1]} /\ erase' = [erase EXCEPT !.found = Tail(@)]
       ELSE erase' = [erase EXCEPT !.pc = "refused"] /\ UNCHANGED subs

DeleteNext == LET n == Len(erase.found) IN
    /\ erase.pc = "delete"
    /\ n > 0
    /\ IF Inside(erase.found[n]) = {}
       THEN subs' = subs \ {erase.found[n]} /\ erase' = [erase EXCEPT !.found = SubSeq(@, 1, n - 1)]
       ELSE erase' = [erase EXCEPT !.pc = "refused"] /\ UNCHANGED subs

Destroyed == /\ erase.pc = "delete"
             /\ erase.found = <<>>
             /\ erase' = NoErase
             /\ UNCHANGED subs

\* The walk, or a command, fails: what is left stays.
DestroyFails == /\ erase.pc \in {"walk", "delete"}
                /\ erase' = NoErase
                /\ UNCHANGED subs

DriverStep(faults) ==
    \/ CreateVolume \/ DestroyVolume \/ findSubvolumes \/ DeleteNext \/ Destroyed
    \/ faults /\ DestroyFails
    \/ \E i \in 2..Len(Tree) : Nest(i)
=============================================================================
