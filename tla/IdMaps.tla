-------------------------------- MODULE IdMaps --------------------------------
(***************************************************************************)
(* Package uidgid: the largest id of the user namespace the server runs    *)
(* in, the maps made from it, and what they do to the files of a volume.   *)
(*                                                                         *)
(* An id map as /proc gives it is a sequence of lines [container, size].   *)
(* Half is 2^63: a uint is below 2 * Half, an int below Half.              *)
(***************************************************************************)
EXTENDS Integers, Sequences

CONSTANT Half

ASSUME HalfPositive == Half \in Nat \ {0}

maxInt == Half - 1

\* A sum or difference of two numbers as a uint.
Wrap(n) == IF n < 0 THEN n + 2 * Half ELSE IF n >= 2 * Half THEN n - 2 * Half ELSE n

Smaller(a, b) == IF a < b THEN a ELSE b

\* Every line overwrites the result of the one before.
MaxValid(map) ==
    IF map = <<>> THEN 0
    ELSE Smaller(Wrap(map[Len(map)].container + map[Len(map)].size - 1), maxInt)

MaxId(uids, gids) == Smaller(MaxValid(uids), MaxValid(gids))

\* The entries of a mapper with the maximum max.
Entry(container, host, size) == [container |-> container, host |-> host, size |-> size]
NewPrivilegedMapper(max) == <<Entry(max, 0, 1), Entry(1, 1, max - 1)>>

NewUnprivilegedMapper(max) == <<Entry(0, max, 1), Entry(1, 1, max - 1)>>

\* The first entry of size 1 for the id; no other entry matters.
findMapping(idMap, from) ==
    LET Hits == {i \in DOMAIN idMap : idMap[i].size = 1 /\ idMap[i].container = from} IN
    IF Hits = {} THEN from ELSE idMap[CHOOSE i \in Hits : \A j \in Hits : i <= j].host

\* A command that runs in a user namespace with the map: the ids it may give to
\* files, and what they are outside.
Entries(idMap, id) == {i \in DOMAIN idMap : id \in idMap[i].container..(idMap[i].container + idMap[i].size - 1)}
Apply(idMap, id) == LET e == idMap[CHOOSE i \in Entries(idMap, id) : TRUE] IN e.host + id - e.container

(***************************************************************************)
(* A file has an owner, a setuid bit, and is a symbolic link or not.       *)
(* Changing the owner clears the bit (of a regular file); the mode is then *)
(* set to what it was before.  failing: the system calls that fail, which  *)
(* nobody is told of.                                                      *)
(***************************************************************************)
Chown(file, uid) == [file EXCEPT !.uid = uid, !.setuid = FALSE]

\* Mutant of TranslatePath: does not restore the mode.
TranslatePathNoChmod(idMap, file, failing) == LET to == findMapping(idMap, file.uid) IN
    IF to = file.uid \/ "chown" \in failing THEN file ELSE Chown(file, to)

TranslatePath(idMap, file, failing) ==
    LET to == findMapping(idMap, file.uid)
        owned == IF "chown" \in failing THEN file ELSE Chown(file, to) IN
    IF to = file.uid THEN file
    ELSE IF file.symlink \/ "chmod" \in failing THEN owned
    ELSE [owned EXCEPT !.setuid = file.setuid]
=============================================================================
