----------------------- MODULE UnlockedRequestsProofs -----------------------
(***************************************************************************)
(* Proofs about UnlockedRequests, for any number of handles and volumes,   *)
(* any encoding of properties and any number of changes by others: what a  *)
(* metadata file holds, that the requests that read tell the truth, that   *)
(* bulk destruction destroys what it is asked to, and that its recursion   *)
(* ends.                                                                   *)
(***************************************************************************)
EXTENDS UnlockedRequests, TLAPS, FiniteSetTheorems, SequenceTheorems, WellFoundedInduction

Block == [of : Properties, at : Nat]
Stored == [props : Properties, priv : BOOLEAN, found : BOOLEAN]

\* The types of the variables.
VolType == [link : Handles \union {NoHandle}, file : Seq(Block), priv : BOOLEAN, stored : Properties, whole : BOOLEAN]

ReqType == [op : {"", "get", "list", "parent", "tree", "batch"},
            pc : {"idle", "lookup", "readDir", "next", "link", "properties", "read", "flag", "tree", "batch", "done"},
            h : Handles \union {NoHandle}, todo : SUBSET (Handles \union Nat), query : Properties \union Lists,
            fd : Vols \union {NoVol}, got : Seq(Block),
            out : SUBSET [h : Handles, props : Properties, priv : BOOLEAN], bad : SUBSET (Handles \union Nat),
            answer : {"", "ok", "error", "found", "notFound", "noVolume", "corrupted"}]

FrameType == [h : Handles, v : Vols \union {NoVol}, listed : BOOLEAN, todo : SUBSET Handles]

PastType == [before : [Handles -> Stored], was : [Handles -> Vols \union {NoVol}], changes : [Handles -> 0..2],
             others : Nat, suspect : SUBSET Handles, doomed : SUBSET Vols, child : Handles \union {NoHandle}]

TypeOK == /\ live \in [Handles -> Vols \union {NoVol}]
          /\ vol \in [Vols -> VolType]
          /\ req \in ReqType
          /\ stack \in Seq(FrameType)
          /\ past \in PastType
          /\ metadata \in BOOLEAN

\* What the request works on, at each of its points.
PointOK ==
    /\ req.pc = "idle" <=> req.op = ""
    /\ req.pc = "lookup" => req.op \in {"get", "parent"}
    /\ req.pc = "link" => req.op = "parent"
    /\ req.pc \in {"readDir", "next"} => req.op = "list"
    /\ req.pc \in {"properties", "read", "flag"} => req.op \in {"get", "list", "parent"}
    /\ req.pc \in {"lookup", "link", "properties", "read", "flag"} => req.h \in Handles
    /\ req.op \in {"get", "parent"} => req.h \in Handles
    /\ req.op = "list" => req.todo \subseteq Handles
    /\ req.pc = "read" => req.fd \in Vols
    /\ req.pc = "flag" => req.got # <<>>
    /\ req.op = "tree" => req.pc \in {"tree", "done"} /\ req.h \in Handles
    /\ req.op = "batch" => req.pc \in {"batch", "done"} /\ req.query \in Lists
    /\ req.pc = "tree" => req.op = "tree"
    /\ req.pc = "batch" => req.op = "batch"
    /\ req.pc = "tree" <=> stack # <<>>

\* Volumes are told apart: the ones that are there, and those that were when the
\* request came in.
Ids == /\ \A g, h \in Alive : live[g] = live[h] => g = h
       /\ \A g \in Alive, h \in Handles : live[g] = past.was[h] => g = h
       /\ \A v \in past.doomed : \E h \in Handles : past.was[h] = v

\* A file begins with all of the value that was stored last.
Kept(v) == /\ v.file # <<>>
           /\ v.whole => /\ Size[v.stored] <= Len(v.file)
                         /\ \A i \in 1..Size[v.stored] : v.file[i] = [of |-> v.stored, at |-> i]

FilesOK == \A h \in Alive : Kept(vol[live[h]])

\* What DestroyVolumes is done with, without an error, is gone.
BatchOK == req.op = "batch" =>
    /\ \A i \in DOMAIN req.query : i \notin req.todo /\ i \notin req.bad =>
          past.was[req.query[i]] = NoVol \/ live[req.query[i]] # past.was[req.query[i]]
    /\ req.pc = "done" => req.todo = {} /\ (req.answer = "ok" => req.bad = {})

Link(g) == vol[live[g]].link
Doomed == {g \in Alive : live[g] \in past.doomed}

\* A doomed volume is reached from the root by the links, through doomed volumes;
\* a call that has its list knows the doomed children that are left.
TreeOK ==
    /\ req.op = "tree" => \A g \in Doomed \ {req.h} : Link(g) \in Doomed
    /\ req.pc = "tree" => stack[1].h = req.h
    /\ req.op = "tree" => \A i \in 1..Len(stack) : stack[i].listed =>
          \A g \in Doomed \ {req.h} : Link(g) = stack[i].h =>
              g \in stack[i].todo \/ (i < Len(stack) /\ g = stack[i + 1].h)
    /\ \A i \in 1..Len(stack) : i < Len(stack) => stack[i].listed
    /\ req.op = "tree" /\ req.pc = "done" /\ req.answer = "ok" => Doomed = {}

\* A child is younger than its parent, and a call is for a younger volume than the
\* call it is made by.
RankOK(rank) ==
    /\ \A g \in Alive : Link(g) \in Alive => rank[live[Link(g)]] < rank[live[g]]
    /\ \A i, j \in 1..Len(stack) : i < j /\ stack[j].listed => rank[stack[i].v] < rank[stack[j].v]
    /\ \A i \in 1..Len(stack) : stack[i].listed =>
          /\ stack[i].v \in Vols
          /\ stack[i].h \in Alive => rank[stack[i].v] <= rank[live[stack[i].h]]
    /\ Len(stack) > 1 /\ ~Top.listed /\ Top.h \in Alive => rank[stack[Len(stack) - 1].v] < rank[live[Top.h]]

Ranked == \E rank \in [Vols -> Nat], n \in Nat : RankOK(rank) /\ \A v \in Vols : rank[v] < n

\* What GetVolume, ListVolumes and VolumeParent have found out.  While a handle has
\* not changed it is what it was; a file that is not suspect is whole.
HistoryOK == /\ \A h \in Handles : past.changes[h] = 0 => State(h) = past.before[h]
             /\ \A h \in Alive \ past.suspect : vol[live[h]].whole

Readers == {"get", "list", "parent"}
Inside == {"properties", "read", "flag"}

\* The file that is open is that of the volume, unless it went away, and what has
\* been read of it is the value that was stored.
OpenOK == req.pc \in {"read", "flag"} =>
    /\ req.fd \in Vols
    /\ \A g \in Handles : live[g] = req.fd => g = req.h
    /\ past.changes[req.h] = 0 => live[req.h] = req.fd
    /\ past.changes[req.h] = 1 => live[req.h] \in {req.fd, NoVol}

Prefix(got, p) == \A i \in 1..Len(got) : got[i] = [of |-> p, at |-> i]

GotOK == req.h \notin past.suspect =>
    /\ req.pc = "read" => LET v == vol[req.fd] IN
          Kept(v) /\ v.whole /\ Len(req.got) < Size[v.stored] /\ Prefix(req.got, v.stored)
    /\ req.pc = "flag" => req.got[1].of = vol[req.fd].stored

\* VolumeParent: the link of a volume that has not changed leads where it led.
ParentFound == LET p == ParentOf(past.child) IN
    IF p = NoHandle THEN req.answer = IF past.child \in Alive THEN "notFound" ELSE "noVolume"
    ELSE p \in past.suspect \/ (req.answer = "found" /\ req.h = p)

ChildOK == req.op = "parent" =>
    /\ past.child \in Handles
    /\ req.pc \in {"lookup", "link"} => req.h = past.child
    /\ past.changes[past.child] = 0 =>
          /\ req.pc = "link" => past.child \in Alive
          /\ req.pc \in Inside => ParentOf(past.child) = req.h
          /\ req.pc = "done" => ParentFound

\* The handles that the request is done with.
Settled == {h \in Handles :
    \/ req.op = "list" /\ req.pc \in {"next", "done"} /\ h \notin req.todo
    \/ req.op = "list" /\ req.pc \in Inside /\ h \notin req.todo \union {req.h}
    \/ req.op \in {"get", "parent"} /\ req.pc = "done" /\ h = req.h}

\* What is told of a handle is true now, or was when the request came in.
Truths(h) == {Match(past.before[h]), Match(State(h))}
ToldTrue(h) == past.changes[h] <= 1 /\ h \notin past.suspect =>
    /\ \A r \in req.out : r.h = h => [props |-> r.props, priv |-> r.priv, found |-> TRUE] \in Truths(h)
    /\ (\A r \in req.out : r.h # h) => Absent \in Truths(h)

SettledOK == /\ \A r \in req.out : r.h \in Settled
             /\ \A h \in Settled : (req.op = "parent" => req.answer = "found") => ToldTrue(h)
             /\ req.op = "list" /\ req.pc \in Inside => req.h \notin req.todo
             /\ req.op = "list" /\ req.pc = "done" => req.todo = {}

AccurateInv == req.op \in Readers => HistoryOK /\ OpenOK /\ GotOK /\ ChildOK /\ SettledOK

-----------------------------------------------------------------------------
\* A map without properties.
LEMMA NoProperties == <<>> \in Properties
<1>1. <<>> \in [{} -> Texts]
  OBVIOUS
<1>2. {} \in SUBSET Names
  OBVIOUS
<1> QED BY <1>1, <1>2 DEF Properties

\* A value that is stored is a value.
LEMMA UpdateType ==
  ASSUME NEW p \in Properties, NEW n \in Names, NEW t \in Texts
  PROVE  UpdateProperty(p, n, t) \in Properties
<1>1. PICK D \in SUBSET Names : p \in [D -> Texts]
  BY DEF Properties
<1>2. UpdateProperty(p, n, t) \in [D \union {n} -> Texts]
  BY <1>1 DEF UpdateProperty
<1>3. D \union {n} \in SUBSET Names
  OBVIOUS
<1> QED BY <1>2, <1>3 DEF Properties

\* The blocks of a value, and of what is written over a file.
LEMMA EncodeType ==
  ASSUME NEW p \in Properties
  PROVE  /\ Encode(p) \in Seq(Block)
         /\ Len(Encode(p)) = Size[p] /\ Size[p] \in Nat \ {0}
         /\ Encode(p) # <<>>
         /\ \A i \in 1..Size[p] : Encode(p)[i] = [of |-> p, at |-> i]
<1>1. Size[p] \in Nat \ {0}
  BY Sizes
<1>2. Encode(p) \in [1..Size[p] -> Block]
  BY <1>1 DEF Encode, Block
<1>3. Encode(p) \in Seq(Block) /\ Len(Encode(p)) = Size[p]
  BY <1>1, <1>2
<1>4. \A i \in 1..Size[p] : Encode(p)[i] = [of |-> p, at |-> i]
  BY DEF Encode
<1> QED BY <1>1, <1>3, <1>4

LEMMA WriteType ==
  ASSUME NEW S, NEW old \in Seq(S), NEW new \in Seq(S)
  PROVE  /\ WriteMetadataFile(old, new) \in Seq(S)
         /\ Len(WriteMetadataFile(old, new)) = (IF Len(new) < Len(old) THEN Len(old) ELSE Len(new))
         /\ \A i \in 1..Len(new) : WriteMetadataFile(old, new)[i] = new[i]
<1> DEFINE n == IF Len(new) < Len(old) THEN Len(old) ELSE Len(new)
           w == WriteMetadataFile(old, new)
<1>1. n \in Nat /\ Len(new) \in Nat /\ Len(old) \in Nat /\ Len(new) <= n
      /\ \A i \in 1..n : i <= Len(new) \/ i <= Len(old)
  OBVIOUS
<1>2. w = [i \in 1..n |-> IF i <= Len(new) THEN new[i] ELSE old[i]]
  BY DEF WriteMetadataFile
<1> HIDE DEF n, w
<1>3. ASSUME NEW i \in 1..n PROVE (IF i <= Len(new) THEN new[i] ELSE old[i]) \in S
  BY <1>1
<1>4. w \in [1..n -> S]
  BY <1>2, <1>3
<1>5. w \in Seq(S) /\ Len(w) = n
  BY <1>1, <1>4
<1>6. \A i \in 1..Len(new) : w[i] = new[i]
  BY <1>1, <1>2
<1> QED BY <1>5, <1>6 DEF w, n
-----------------------------------------------------------------------------
Answers == {"", "ok", "error", "found", "notFound", "noVolume", "corrupted"}

\* An answer ends the request.
LEMMA AnswerFacts ==
  ASSUME TypeOK, NEW a \in Answers, Answer(a)
  PROVE  /\ req' \in ReqType
         /\ req'.pc = "done" /\ req'.answer = a
         /\ req'.op = req.op /\ req'.h = req.h /\ req'.todo = req.todo /\ req'.query = req.query /\ req'.bad = req.bad
         /\ req'.out = req.out /\ req'.fd = NoVol
<1>1. <<>> \in Seq(Block)
  OBVIOUS
<1> QED BY <1>1 DEF TypeOK, ReqType, Answer, Answers

\* What a request that reads may change of itself.
ReadsOn == /\ req' \in ReqType
           /\ req'.op = req.op
           /\ req'.pc \in {"link", "properties", "read", "flag", "next", "done"}
           /\ req'.pc = "link" => req.op = "parent"
           /\ req'.pc = "next" => req.op = "list"
           /\ req'.pc \in {"link", "properties", "read", "flag"} => req'.h \in Handles
           /\ req.op \in {"get", "parent"} => req'.h \in Handles
           /\ req'.pc = "read" => req'.fd \in Vols
           /\ req'.pc = "flag" => req'.got # <<>>
           /\ req.op = "list" => req'.todo \subseteq Handles

LEMMA MissingFacts ==
  ASSUME TypeOK, PointOK, req.op \in Readers, Missing
  PROVE  ReadsOn
<1>1. CASE req.op = "get" \/ req.op = "parent"
  <2>1. Answer("notFound") \/ Answer("corrupted")
    BY <1>1 DEF Missing
  <2>2. req.h \in Handles
    BY <1>1 DEF PointOK
  <2> QED BY <1>1, <2>1, <2>2, AnswerFacts DEF Answers, ReadsOn
<1>2. CASE req.op = "list"
  <2>1. req' = [req EXCEPT !.pc = "next", !.fd = NoVol, !.got = <<>>]
    BY <1>2 DEF Missing
  <2>2. <<>> \in Seq(Block)
    OBVIOUS
  <2>3. req' \in ReqType /\ req'.op = req.op /\ req'.pc = "next" /\ req'.todo = req.todo
    BY <2>1, <2>2 DEF TypeOK, ReqType
  <2> QED BY <1>2, <2>3 DEF ReadsOn, PointOK
<1> QED BY <1>1, <1>2 DEF Readers

LEMMA CorruptFacts ==
  ASSUME TypeOK, PointOK, req.op \in Readers, req.h \in Handles, Corrupt
  PROVE  ReadsOn
<1>1. CASE req.op = "get" \/ req.op = "parent"
  <2>1. Answer("error") \/ Answer("corrupted")
    BY <1>1 DEF Corrupt
  <2> QED BY <1>1, <2>1, AnswerFacts DEF Answers, ReadsOn
<1>2. CASE req.op = "list"
  <2>1. req' = [req EXCEPT !.bad = @ \union {req.h}, !.pc = "next", !.fd = NoVol, !.got = <<>>]
    BY <1>2 DEF Corrupt
  <2>2. <<>> \in Seq(Block)
    OBVIOUS
  <2>3. req' \in ReqType /\ req'.op = req.op /\ req'.pc = "next" /\ req'.todo = req.todo
    BY <2>1, <2>2 DEF TypeOK, ReqType
  <2> QED BY <1>2, <2>3 DEF ReadsOn, PointOK
<1> QED BY <1>1, <1>2 DEF Readers

Reading == \/ LookupVolume \/ ReadDir \/ NextVolume \/ EvalSymlinks
           \/ OpenProperties \/ ReadProperties \/ LoadPrivileged

\* A step of GetVolume, ListVolumes or VolumeParent.
LEMMA ReadingStep ==
  ASSUME TypeOK, PointOK, Reading
  PROVE  ReadsOn /\ req.op \in Readers /\ UNCHANGED <<live, vol, metadata, stack, past>>
<1>0. <<>> \in Seq(Block)
  OBVIOUS
<1>1. req \in ReqType /\ (req.op = "list" => req.todo \subseteq Handles) /\ <<>> \in Seq(Block)
  BY <1>0 DEF TypeOK, PointOK
<1>2. CASE LookupVolume
  <2>1. req.op \in {"get", "parent"} /\ req.h \in Handles /\ UNCHANGED <<live, vol, metadata, stack, past>>
    BY <1>2 DEF LookupVolume, At, PointOK, store
  <2>2. CASE Answer("notFound") \/ Answer("noVolume")
    BY <2>1, <2>2, AnswerFacts DEF Answers, ReadsOn, Readers
  <2>3. CASE req' = [req EXCEPT !.pc = "properties"] \/ (req' = [req EXCEPT !.pc = "link"] /\ req.op = "parent")
    <3>1. req' \in ReqType /\ req'.op = req.op /\ req'.h = req.h
          /\ (req'.pc = "properties" \/ (req'.pc = "link" /\ req.op = "parent"))
      BY <1>1, <2>3 DEF ReqType
    <3> QED BY <2>1, <3>1 DEF ReadsOn, Readers
  <2> QED BY <1>2, <2>1, <2>2, <2>3 DEF LookupVolume, Go
<1>3. CASE ReadDir
  <2>1. req.op = "list" /\ UNCHANGED <<live, vol, metadata, stack, past>>
    BY <1>3 DEF ReadDir, At, PointOK, store
  <2>2. req' \in ReqType /\ req'.op = req.op /\ req'.pc = "next" /\ req'.todo = Alive /\ Alive \subseteq Handles
    BY <1>1, <1>3 DEF ReadDir, ReqType, Alive
  <2> QED BY <2>1, <2>2 DEF ReadsOn, Readers
<1>4. CASE NextVolume
  <2>1. req.op = "list" /\ UNCHANGED <<live, vol, metadata, stack, past>>
    BY <1>4 DEF NextVolume, At, PointOK, store
  <2>2. CASE Answer("ok")
    BY <1>1, <2>1, <2>2, AnswerFacts DEF Answers, ReadsOn, Readers
  <2>3. ASSUME NEW h \in req.todo, req' = [req EXCEPT !.todo = @ \ {h}, !.h = h, !.pc = "properties"] PROVE ReadsOn
    <3>1. h \in Handles /\ req.todo \subseteq Handles
      BY <1>1, <2>1
    <3>2. req' \in ReqType /\ req'.op = req.op /\ req'.pc = "properties" /\ req'.todo = req.todo \ {h} /\ req'.h = h
      BY <1>1, <2>3, <3>1 DEF ReqType
    <3> QED BY <3>1, <3>2 DEF ReadsOn
  <2> QED BY <1>4, <2>1, <2>2, <2>3 DEF NextVolume, Readers
<1>5. CASE EvalSymlinks
  <2>1. req.op = "parent" /\ req.h \in Handles /\ UNCHANGED <<live, vol, metadata, stack, past>>
    BY <1>5 DEF EvalSymlinks, At, PointOK, store
  <2>2. CASE Answer("notFound")
    BY <2>1, <2>2, AnswerFacts DEF Answers, ReadsOn, Readers
  <2>3. CASE ParentOf(req.h) # NoHandle /\ req' = [req EXCEPT !.pc = "properties", !.h = ParentOf(req.h)]
    <3>1. ParentOf(req.h) \in Handles
      BY <2>3 DEF ParentOf, Alive
    <3>2. req' \in ReqType /\ req'.op = req.op /\ req'.pc = "properties" /\ req'.h = ParentOf(req.h)
      BY <1>1, <2>3, <3>1 DEF ReqType
    <3> QED BY <2>1, <3>1, <3>2 DEF ReadsOn, Readers
  <2> QED BY <1>5, <2>1, <2>2, <2>3 DEF EvalSymlinks
<1>6. CASE OpenProperties
  <2>1. req.op \in Readers /\ req.h \in Handles /\ UNCHANGED <<live, vol, metadata, stack, past>>
    BY <1>6 DEF OpenProperties, At, PointOK, store, Readers
  <2>2. CASE live[req.h] # NoVol /\ req' = [req EXCEPT !.pc = "read", !.fd = live[req.h], !.got = <<>>]
    <3>1. live[req.h] \in Vols
      BY <2>1, <2>2 DEF TypeOK
    <3>2. req' \in ReqType /\ req'.op = req.op /\ req'.pc = "read" /\ req'.h = req.h /\ req'.fd \in Vols /\ req'.todo = req.todo
      BY <1>1, <2>2, <3>1 DEF ReqType
    <3> QED BY <1>1, <2>1, <3>2 DEF ReadsOn
  <2> QED BY <1>6, <2>1, <2>2, MissingFacts DEF OpenProperties
<1>7. CASE ReadProperties
  <2> DEFINE f == vol[req.fd].file
             n == Len(req.got) + 1
             got == Append(req.got, f[n])
  <2>1. req.op \in Readers /\ req.h \in Handles /\ req.fd \in Vols /\ UNCHANGED <<live, vol, metadata, stack, past>>
    BY <1>7 DEF ReadProperties, At, PointOK, store, Readers
  <2>2. f \in Seq(Block) /\ req.got \in Seq(Block) /\ n \in Nat \ {0}
    <3>1. vol[req.fd] \in VolType
      BY <2>1 DEF TypeOK
    <3>2. f \in Seq(Block)
      BY <3>1 DEF VolType
    <3>3. req.got \in Seq(Block)
      BY <1>1 DEF ReqType
    <3> QED BY <3>2, <3>3
  <2>3. CASE n <= Len(f) /\ req' = [req EXCEPT !.got = got, !.pc = IF Complete(got) THEN "flag" ELSE "read"]
    <3>1. got \in Seq(Block) /\ got # <<>>
      <4>1. f[n] \in Block
        BY <2>2, <2>3
      <4> QED BY <2>2, <4>1
    <3> DEFINE c == IF Complete(got) THEN "flag" ELSE "read"
    <3>2. c \in {"flag", "read"} /\ req' = [req EXCEPT !.got = got, !.pc = c]
      BY <2>3
    <3> HIDE DEF got, c
    <3>3. req' \in ReqType /\ req'.op = req.op /\ req'.pc = c /\ req'.h = req.h /\ req'.fd = req.fd /\ req'.todo = req.todo /\ req'.got = got
      BY <1>1, <3>1, <3>2 DEF ReqType
    <3> QED BY <1>1, <2>1, <3>1, <3>2, <3>3 DEF ReadsOn
  <2>4. ASSUME NEW p \in Properties, req' = [req EXCEPT !.got = Encode(p), !.pc = "flag"] PROVE ReadsOn
    <3>1. Encode(p) \in Seq(Block) /\ Encode(p) # <<>>
      BY EncodeType
    <3>2. req' \in ReqType /\ req'.op = req.op /\ req'.pc = "flag" /\ req'.h = req.h /\ req'.todo = req.todo /\ req'.got = Encode(p)
      BY <1>1, <2>4, <3>1 DEF ReqType
    <3> QED BY <1>1, <2>1, <3>1, <3>2 DEF ReadsOn
  <2> HIDE DEF f, n, got
  <2>5. ReadsOn
    BY <1>7, <2>1, <2>3, <2>4, CorruptFacts DEF ReadProperties, f, n, got
  <2> QED BY <2>1, <2>5
<1>8. CASE LoadPrivileged
  <2> DEFINE p == req.got[1].of
             new == [h |-> req.h, props |-> p, priv |-> vol[live[req.h]].priv]
  <2>1. req.op \in Readers /\ req.h \in Handles /\ req.got # <<>> /\ UNCHANGED <<live, vol, metadata, stack, past>>
    BY <1>8 DEF LoadPrivileged, At, PointOK, store, Readers
  <2>2. CASE live[req.h] = NoVol
    BY <1>8, <2>1, <2>2, MissingFacts DEF LoadPrivileged
  <2>3. CASE live[req.h] # NoVol
    <3>1. req.got[1] \in Block
      <4>1. req.got \in Seq(Block)
        BY <1>1 DEF ReqType
      <4> QED BY <2>1, <4>1
    <3>2. p \in Properties /\ vol[live[req.h]].priv \in BOOLEAN
      BY <2>1, <2>3, <3>1 DEF TypeOK, VolType, Block
    <3>3. new \in [h : Handles, props : Properties, priv : BOOLEAN]
      BY <2>1, <3>2
    <3> DEFINE o == IF HasProperties(p, req.query) THEN req.out \union {new} ELSE req.out
    <3>4. o \in SUBSET [h : Handles, props : Properties, priv : BOOLEAN]
      BY <1>1, <3>3 DEF ReqType
    <3>5. req' = [req EXCEPT !.out = o, !.pc = IF req.op = "list" THEN "next" ELSE "done",
                             !.answer = IF req.op = "list" THEN "" ELSE "found", !.fd = NoVol, !.got = <<>>]
      BY <1>8, <2>3 DEF LoadPrivileged
    <3> HIDE DEF o, new, p
    <3>6. req' \in ReqType /\ req'.op = req.op /\ req'.h = req.h /\ req'.todo = req.todo /\ req'.pc \in {"next", "done"} /\ (req'.pc = "next" => req.op = "list")
      <4>1. CASE req.op = "list"
        <5>1. req' = [req EXCEPT !.out = o, !.pc = "next", !.answer = "", !.fd = NoVol, !.got = <<>>]
          BY <3>5, <4>1
        <5> QED BY <1>1, <3>4, <4>1, <5>1 DEF ReqType
      <4>2. CASE req.op # "list"
        <5>1. req' = [req EXCEPT !.out = o, !.pc = "done", !.answer = "found", !.fd = NoVol, !.got = <<>>]
          BY <3>5, <4>2
        <5> QED BY <1>1, <3>4, <4>2, <5>1 DEF ReqType
      <4> QED BY <4>1, <4>2
    <3> QED BY <1>1, <2>1, <3>6 DEF ReadsOn
  <2> QED BY <2>1, <2>2, <2>3
<1> QED BY <1>2, <1>3, <1>4, <1>5, <1>6, <1>7, <1>8 DEF Reading
-----------------------------------------------------------------------------
UnlockedInv == TypeOK /\ PointOK /\ Ids /\ FilesOK /\ BatchOK /\ TreeOK /\ Ranked

LEMMA NoVolumeType == NoVolume \in VolType
<1>1. <<>> \in Seq(Block)
  OBVIOUS
<1> QED BY <1>1, NoProperties DEF NoVolume, VolType

\* A volume that is there has an identity.
LEMMA AliveVols ==
  ASSUME TypeOK, NEW g \in Alive
  PROVE  g \in Handles /\ live[g] \in Vols /\ live[g] # NoVol /\ vol[live[g]] \in VolType /\ Link(g) \in Handles \union {NoHandle}
<1>1. g \in Handles /\ live[g] \in Vols /\ live[g] # NoVol
  BY DEF Alive, TypeOK
<1>2. vol[live[g]] \in VolType
  BY <1>1 DEF TypeOK
<1> QED BY <1>1, <1>2 DEF VolType, Link

\* Invariants of the volumes, after a step that adds and changes none.
LEMMA StoreShrinks ==
  ASSUME Ids, FilesOK, Alive' \subseteq Alive, past'.was = past.was, past'.doomed = past.doomed,
         \A g \in Alive' : live'[g] = live[g] /\ vol'[live[g]] = vol[live[g]]
  PROVE  Ids' /\ FilesOK'
<1>1. Ids'
  BY DEF Ids
<1>2. FilesOK'
  BY DEF FilesOK
<1> QED BY <1>1, <1>2

\* The same of the ages, with the calls that are open.
LEMMA RankShrinks ==
  ASSUME Ranked, Alive' \subseteq Alive, stack' = stack,
         \A g \in Alive' : live'[g] = live[g] /\ Link(g)' = Link(g)
  PROVE  Ranked'
<1>1. PICK rank \in [Vols -> Nat], n \in Nat : RankOK(rank) /\ \A v \in Vols : rank[v] < n
  BY DEF Ranked
<1>2. RankOK(rank)'
  BY <1>1 DEF RankOK, Top
<1> QED BY <1>1, <1>2 DEF Ranked

\* And without open calls.
LEMMA RankNoStack ==
  ASSUME Ranked, Alive' \subseteq Alive, stack' = <<>>,
         \A g \in Alive' : live'[g] = live[g] /\ Link(g)' = Link(g)
  PROVE  Ranked'
<1>1. PICK rank \in [Vols -> Nat], n \in Nat : RankOK(rank) /\ \A v \in Vols : rank[v] < n
  BY DEF Ranked
<1>2. Len(stack') = 0
  OBVIOUS
<1>3. RankOK(rank)'
  BY <1>1, <1>2 DEF RankOK
<1> QED BY <1>1, <1>3 DEF Ranked

\* What DestroyVolumeAndDescendants needs, after a step of others.
LEMMA TreeShrinks ==
  ASSUME TreeOK, req' = req, stack' = stack, Doomed' \subseteq Doomed,
         \A g \in Doomed' : Link(g)' = Link(g),
         \A g \in Doomed' \ {req.h} : Link(g) \in Doomed => Link(g) \in Doomed'
  PROVE  TreeOK'
<1>1. req.op = "tree" => \A g \in Doomed' \ {req'.h} : Link(g)' \in Doomed'
  BY DEF TreeOK
<1>2. req.op = "tree" => \A i \in 1..Len(stack) : stack[i].listed =>
          \A g \in Doomed' \ {req'.h} : Link(g)' = stack[i].h =>
              g \in stack[i].todo \/ (i < Len(stack) /\ g = stack[i + 1].h)
  BY DEF TreeOK
<1>3. /\ req.pc = "tree" => stack[1].h = req.h
      /\ \A i \in 1..Len(stack) : i < Len(stack) => stack[i].listed
      /\ req.op = "tree" /\ req.pc = "done" /\ req.answer = "ok" => Doomed' = {}
  BY DEF TreeOK
<1> QED BY <1>1, <1>2, <1>3 DEF TreeOK

LEMMA NotTree ==
  ASSUME req'.op # "tree", req'.pc # "tree", stack' = <<>>
  PROVE  TreeOK'
<1>1. Len(stack') = 0
  OBVIOUS
<1> QED BY <1>1 DEF TreeOK

\* The steps of the requests that read.
LEMMA ReadingKeeps ==
  ASSUME UnlockedInv, Reading
  PROVE  UnlockedInv'
<1>1. ReadsOn /\ req.op \in Readers /\ UNCHANGED <<live, vol, metadata, stack, past>>
  BY ReadingStep DEF UnlockedInv
<1>2. TypeOK'
  BY <1>1 DEF UnlockedInv, TypeOK, ReadsOn
<1>3. req.pc # "tree" /\ stack = <<>>
  BY <1>1 DEF UnlockedInv, PointOK, Readers
<1>4. PointOK'
  BY <1>1, <1>3 DEF PointOK, ReadsOn, Readers
<1>5. Alive' = Alive /\ \A g \in Alive : Link(g)' = Link(g)
  BY <1>1 DEF Alive, Link
<1>6. Ids' /\ FilesOK'
  BY <1>1, <1>5, StoreShrinks DEF UnlockedInv
<1>7. Ranked'
  BY <1>1, <1>5, RankShrinks DEF UnlockedInv
<1>8. BatchOK' /\ TreeOK'
  BY <1>1, <1>3, NotTree DEF BatchOK, ReadsOn, Readers
<1> QED BY <1>2, <1>4, <1>6, <1>7, <1>8 DEF UnlockedInv

\* What others do to the history.
LEMMA OthersFacts ==
  ASSUME TypeOK, NEW h \in Handles, NEW suspects \in SUBSET Handles, OthersChange(h, suspects)
  PROVE  past' \in PastType /\ past'.was = past.was /\ past'.doomed = past.doomed
<1>1. past \in PastType
  BY DEF TypeOK
<1>2. CASE UNCHANGED past
  BY <1>1, <1>2
<1>3. CASE past' = [Changed(h) EXCEPT !.others = @ + 1, !.suspect = @ \union suspects]
  <2> DEFINE c == Changed(h)
  <2>1. c \in PastType /\ c.was = past.was /\ c.doomed = past.doomed
    BY <1>1 DEF Changed, PastType
  <2> HIDE DEF c
  <2>2. past' = [c EXCEPT !.others = @ + 1, !.suspect = @ \union suspects]
    BY <1>3 DEF c
  <2>3. c.others + 1 \in Nat /\ c.suspect \union suspects \in SUBSET Handles
    BY <2>1 DEF PastType
  <2>4. past' \in PastType
    BY <2>1, <2>2, <2>3 DEF PastType
  <2>5. past'.was = c.was /\ past'.doomed = c.doomed
    BY <2>1, <2>2 DEF PastType
  <2> QED BY <2>1, <2>4, <2>5
<1> QED BY <1>2, <1>3 DEF OthersChange

\* A volume goes: of the others nothing changes.
LEMMA VanishFacts ==
  ASSUME TypeOK, Ids, NEW h \in Alive, live' = [live EXCEPT ![h] = NoVol], vol' = Removed(live[h])
  PROVE  /\ live' \in [Handles -> Vols \union {NoVol}]
         /\ vol' \in [Vols -> VolType]
         /\ Alive' = Alive \ {h}
         /\ \A g \in Alive' : live'[g] = live[g] /\ vol'[live[g]] = vol[live[g]] /\ Link(g)' = Link(g)
<1>1. live' \in [Handles -> Vols \union {NoVol}] /\ \A g \in Handles : live'[g] = IF g = h THEN NoVol ELSE live[g]
  BY DEF TypeOK, Alive
<1>2. vol' \in [Vols -> VolType] /\ \A v \in Vols : v # live[h] => vol'[v] = vol[v]
  BY NoVolumeType DEF Removed, TypeOK
<1>3. Alive' = Alive \ {h}
  BY <1>1 DEF Alive
<1>4. \A g \in Alive' : live'[g] = live[g] /\ live[g] \in Vols /\ live[g] # live[h]
  BY <1>1, <1>3, AliveVols DEF Ids, Alive
<1> QED BY <1>1, <1>2, <1>3, <1>4 DEF Link

\* Others destroy a volume that has no children.
LEMMA DestroyKeeps ==
  ASSUME UnlockedInv, NEW h \in Handles, DestroyVolume(h)
  PROVE  UnlockedInv'
<1>1. h \in Alive /\ Unlinked(h) /\ live' = [live EXCEPT ![h] = NoVol] /\ vol' = Removed(live[h])
      /\ UNCHANGED <<req, stack, metadata>>
  BY DEF DestroyVolume, Alive
<1>2. past' \in PastType /\ past'.was = past.was /\ past'.doomed = past.doomed
  BY OthersFacts DEF DestroyVolume, UnlockedInv
<1>3. /\ live' \in [Handles -> Vols \union {NoVol}]
      /\ vol' \in [Vols -> VolType]
      /\ Alive' = Alive \ {h}
      /\ \A g \in Alive' : live'[g] = live[g] /\ vol'[live[g]] = vol[live[g]] /\ Link(g)' = Link(g)
  BY <1>1, VanishFacts DEF UnlockedInv
<1>4. TypeOK' /\ PointOK'
  BY <1>1, <1>2, <1>3 DEF UnlockedInv, TypeOK, PointOK
<1>5. Ids' /\ FilesOK' /\ Ranked'
  BY <1>1, <1>2, <1>3, StoreShrinks, RankShrinks DEF UnlockedInv
<1>6. BatchOK'
  <2>1. \A g \in Handles : past.was[g] = NoVol \/ live[g] # past.was[g] => past.was[g] = NoVol \/ live'[g] # past.was[g]
    BY <1>1 DEF UnlockedInv, TypeOK
  <2>2. req.op = "batch" => \A i \in DOMAIN req.query : req.query[i] \in Handles
    BY DEF UnlockedInv, PointOK, Lists
  <2> QED BY <1>1, <1>2, <2>1, <2>2 DEF UnlockedInv, BatchOK
<1>7. TreeOK'
  <2>1. Doomed' = Doomed \ {h}
    BY <1>2, <1>3 DEF Doomed
  <2>2. \A g \in Doomed : Link(g) # h
    BY <1>1 DEF Unlinked, Link, Doomed
  <2>3. \A g \in Doomed' : g \in Alive'
    BY DEF Doomed
  <2> QED BY <1>1, <1>3, <2>1, <2>2, <2>3, TreeShrinks DEF UnlockedInv
<1> QED BY <1>4, <1>5, <1>6, <1>7 DEF UnlockedInv

\* Others create a volume, with an identity of its own.
LEMMA CreateKeeps ==
  ASSUME UnlockedInv, NEW h \in Handles, CreateVolume(h)
  PROVE  UnlockedInv'
<1>0. PICK v : v = NewVol
  OBVIOUS
<1>1. /\ live[h] = NoVol /\ Unlinked(h) /\ UNCHANGED <<req, stack, metadata>> /\ v \in Fresh
      /\ live' = [live EXCEPT ![h] = v]
  BY <1>0 DEF CreateVolume, NewVol
<1>2. PICK l \in Alive \union {NoHandle}, p \in Properties, b \in BOOLEAN :
         vol' = [vol EXCEPT ![v] = [link |-> l, file |-> WriteMetadataFile(Encode(<<>>), Encode(p)), priv |-> b,
                                    stored |-> p, whole |-> TRUE]]
  BY <1>0, NoProperties DEF CreateVolume
<1>3. past' \in PastType /\ past'.was = past.was /\ past'.doomed = past.doomed
  BY OthersFacts DEF CreateVolume, UnlockedInv
<1>4. /\ v \in Vols /\ v # NoVol
      /\ \A g \in Handles : live[g] # v /\ past.was[g] # v
      /\ \A i \in 1..Len(stack) : stack[i].v # v
  BY <1>1, NullIds DEF Fresh
<1> DEFINE f == WriteMetadataFile(Encode(<<>>), Encode(p))
           r == [link |-> l, file |-> f, priv |-> b, stored |-> p, whole |-> TRUE]
<1>5. /\ f \in Seq(Block) /\ f # <<>> /\ Size[p] <= Len(f)
      /\ \A i \in 1..Size[p] : f[i] = [of |-> p, at |-> i]
  <2>1. /\ Encode(p) \in Seq(Block) /\ Encode(<<>>) \in Seq(Block)
        /\ Len(Encode(p)) = Size[p] /\ Size[p] \in Nat \ {0} /\ Len(Encode(<<>>)) \in Nat
        /\ \A i \in 1..Size[p] : Encode(p)[i] = [of |-> p, at |-> i]
    BY EncodeType, NoProperties
  <2>2. /\ f \in Seq(Block)
        /\ Len(f) = (IF Len(Encode(p)) < Len(Encode(<<>>)) THEN Len(Encode(<<>>)) ELSE Len(Encode(p)))
        /\ \A i \in 1..Len(Encode(p)) : f[i] = Encode(p)[i]
    BY <2>1, WriteType
  <2> HIDE DEF f
  <2>3. Size[p] <= Len(f) /\ Len(f) # 0
    BY <2>1, <2>2
  <2>4. f # <<>>
    BY <2>3
  <2> QED BY <2>1, <2>2, <2>3, <2>4
<1> HIDE DEF f
<1>6. r \in VolType /\ Kept(r) /\ r.link = l
  BY <1>5 DEF VolType, Kept, Alive
<1>7. vol' = [vol EXCEPT ![v] = r]
  BY <1>2 DEF f
<1> HIDE DEF r
<1>8. /\ live' \in [Handles -> Vols \union {NoVol}] /\ vol' \in [Vols -> VolType]
      /\ \A g \in Handles : live'[g] = IF g = h THEN v ELSE live[g]
      /\ \A u \in Vols : vol'[u] = IF u = v THEN r ELSE vol[u]
  BY <1>1, <1>4, <1>6, <1>7 DEF UnlockedInv, TypeOK
<1>9. Alive' = Alive \union {h} /\ h \notin Alive
  BY <1>1, <1>4, <1>8 DEF Alive
<1>10. \A g \in Alive : g \in Handles /\ g # h /\ live'[g] = live[g] /\ live[g] \in Vols /\ vol'[live[g]] = vol[live[g]] /\ Link(g)' = Link(g)
  BY <1>4, <1>8, <1>9, AliveVols DEF UnlockedInv, Link
<1>11. live'[h] = v /\ vol'[v] = r /\ Link(h)' = l
  BY <1>4, <1>6, <1>8 DEF Link
<1>12. TypeOK' /\ PointOK'
  BY <1>1, <1>3, <1>8 DEF UnlockedInv, TypeOK, PointOK
<1>13. Ids'
  BY <1>3, <1>4, <1>9, <1>10, <1>11 DEF UnlockedInv, Ids
<1>14. FilesOK'
  BY <1>6, <1>9, <1>10, <1>11 DEF UnlockedInv, FilesOK
<1>15. BatchOK'
  <2>1. \A g \in Handles : past.was[g] = NoVol \/ live[g] # past.was[g] => past.was[g] = NoVol \/ live'[g] # past.was[g]
    BY <1>4, <1>8
  <2>2. req.op = "batch" => \A i \in DOMAIN req.query : req.query[i] \in Handles
    BY DEF UnlockedInv, PointOK, Lists
  <2> QED BY <1>1, <1>3, <2>1, <2>2 DEF UnlockedInv, BatchOK
<1>16. TreeOK'
  <2>1. v \notin past.doomed
    BY <1>4 DEF UnlockedInv, Ids
  <2>2. Doomed' = Doomed
    BY <1>3, <1>9, <1>10, <1>11, <2>1 DEF Doomed
  <2>3. \A g \in Doomed' : Link(g)' = Link(g)
    BY <1>10, <2>2 DEF Doomed
  <2> QED BY <1>1, <2>2, <2>3, TreeShrinks DEF UnlockedInv
<1>17. Ranked'
  <2>1. PICK rank \in [Vols -> Nat], n \in Nat : RankOK(rank) /\ \A u \in Vols : rank[u] < n
    BY DEF UnlockedInv, Ranked
  <2>0. PICK new : new = [rank EXCEPT ![v] = n]
    OBVIOUS
  <2>2. new \in [Vols -> Nat] /\ new[v] = n /\ (\A u \in Vols : u # v => new[u] = rank[u]) /\ n + 1 \in Nat
        /\ \A u \in Vols : new[u] < n + 1
    BY <1>4, <2>0, <2>1
  <2>3. ASSUME NEW g \in Alive', Link(g)' \in Alive' PROVE new[live'[Link(g)']] < new[live'[g]]
    <3>1. CASE g = h
      <4>1. Link(g)' = l /\ l \in Alive
        BY <1>9, <1>11, <2>3, <3>1, NullIds DEF Alive
      <4>2. new[live'[l]] = rank[live[l]] /\ rank[live[l]] < n
        BY <1>4, <1>10, <2>1, <2>2, <4>1
      <4> QED BY <1>11, <2>2, <3>1, <4>1, <4>2
    <3>2. CASE g # h
      <4>1. g \in Alive /\ Link(g)' = Link(g) /\ Link(g) # h /\ Link(g) \in Alive
        BY <1>1, <1>9, <1>10, <2>3, <3>2 DEF Unlinked, Link
      <4>2. new[live'[g]] = rank[live[g]] /\ new[live'[Link(g)]] = rank[live[Link(g)]]
        BY <1>4, <1>10, <2>2, <4>1
      <4> QED BY <2>1, <4>1, <4>2 DEF RankOK
    <3> QED BY <3>1, <3>2
  <2>4. ASSUME NEW i \in 1..Len(stack), stack[i].listed PROVE stack[i].v \in Vols /\ new[stack[i].v] = rank[stack[i].v] /\ rank[stack[i].v] < n
    BY <1>4, <2>1, <2>2, <2>4 DEF RankOK
  <2>5. ASSUME NEW g \in Alive' PROVE (g \in Alive /\ new[live'[g]] = rank[live[g]]) \/ (g = h /\ new[live'[g]] = n)
    BY <1>4, <1>9, <1>10, <1>11, <2>2
  <2>6. stack \in Seq(FrameType) /\ \A i \in 1..Len(stack) : i < Len(stack) => stack[i].listed
    BY DEF UnlockedInv, TypeOK, TreeOK
  <2>7. RankOK(new)'
    <3>1. ASSUME NEW i \in 1..Len(stack), NEW j \in 1..Len(stack), i < j, stack[j].listed PROVE new[stack[i].v] < new[stack[j].v]
      <4>1. stack[i].listed
        BY <2>6, <3>1
      <4> QED BY <2>1, <2>4, <3>1, <4>1 DEF RankOK
    <3>2. ASSUME NEW i \in 1..Len(stack), stack[i].listed PROVE stack[i].v \in Vols /\ (stack[i].h \in Alive' => new[stack[i].v] <= new[live'[stack[i].h]])
      BY <2>1, <2>4, <2>5, <3>2, AliveVols DEF RankOK, UnlockedInv
    <3>3. ASSUME Len(stack) > 1, ~Top.listed, Top.h \in Alive' PROVE new[stack[Len(stack) - 1].v] < new[live'[Top.h]]
      <4>1. Len(stack) - 1 \in 1..Len(stack) /\ Len(stack) - 1 < Len(stack)
        BY <2>6, <3>3
      <4>2. stack[Len(stack) - 1].listed
        BY <2>6, <4>1
      <4> QED BY <2>1, <2>4, <2>5, <3>3, <4>1, <4>2 DEF RankOK
    <3> QED BY <1>1, <2>3, <3>1, <3>2, <3>3 DEF RankOK, Top
  <2> QED BY <2>2, <2>7 DEF Ranked
<1> QED BY <1>12, <1>13, <1>14, <1>15, <1>16, <1>17 DEF UnlockedInv

\* Others change what is stored of a volume.
LEMMA VolumeChanges ==
  ASSUME UnlockedInv, NEW h \in Alive, NEW r \in VolType, Kept(r), r.link = vol[live[h]].link,
         vol' = [vol EXCEPT ![live[h]] = r], UNCHANGED <<live, req, stack, metadata>>,
         past' \in PastType, past'.was = past.was, past'.doomed = past.doomed
  PROVE  UnlockedInv'
<1>1. live[h] \in Vols /\ vol' \in [Vols -> VolType] /\ \A v \in Vols : vol'[v] = IF v = live[h] THEN r ELSE vol[v]
  BY AliveVols DEF UnlockedInv, TypeOK
<1>2. Alive' = Alive
  BY DEF Alive
<1>3. \A g \in Alive : live[g] \in Vols /\ Link(g)' = Link(g)
  BY <1>1, AliveVols DEF UnlockedInv, Link
<1>4. TypeOK' /\ PointOK'
  BY <1>1 DEF UnlockedInv, TypeOK, PointOK
<1>5. Ids'
  BY <1>2 DEF UnlockedInv, Ids
<1>6. FilesOK'
  BY <1>1, <1>2, <1>3 DEF UnlockedInv, FilesOK
<1>7. BatchOK'
  BY DEF UnlockedInv, BatchOK
<1>8. TreeOK'
  <2>1. Doomed' = Doomed /\ \A g \in Doomed : g \in Alive
    BY <1>2 DEF Doomed
  <2> QED BY <1>3, <2>1, TreeShrinks DEF UnlockedInv
<1>9. Ranked'
  BY <1>2, <1>3, RankShrinks DEF UnlockedInv
<1> QED BY <1>4, <1>5, <1>6, <1>7, <1>8, <1>9 DEF UnlockedInv

LEMMA SetPropertyKeeps ==
  ASSUME UnlockedInv, NEW h \in Handles, NEW n \in Names, NEW t \in Texts, SetProperty(h, n, t)
  PROVE  UnlockedInv'
<1> DEFINE v == live[h]
           f == vol[v].file
           p == UpdateProperty(f[1].of, n, t)
<1>1. h \in Alive /\ UNCHANGED <<live, req, stack, metadata>>
  BY DEF SetProperty, Alive
<1>2. past' \in PastType /\ past'.was = past.was /\ past'.doomed = past.doomed
  BY OthersFacts DEF SetProperty, UnlockedInv
<1>3. v \in Vols /\ vol[v] \in VolType /\ Kept(vol[v])
  BY <1>1, AliveVols DEF UnlockedInv, FilesOK
<1>4. f \in Seq(Block) /\ f # <<>>
  BY <1>3 DEF VolType, Kept
<1>5. f[1] \in Block /\ Len(f) \in Nat \ {0}
  BY <1>4
<1>6. p \in Properties
  BY <1>5, UpdateType DEF Block
<1>7. vol \in [Vols -> VolType]
  BY DEF UnlockedInv, TypeOK
<1>8. ASSUME vol' = [vol EXCEPT ![v].file = WriteMetadataFile(@, Encode(p)), ![v].stored = p] PROVE UnlockedInv'
  <2> DEFINE w == WriteMetadataFile(f, Encode(p))
             r == [vol[v] EXCEPT !.file = w, !.stored = p]
  <2>1. Encode(p) \in Seq(Block) /\ Len(Encode(p)) = Size[p] /\ Size[p] \in Nat \ {0} /\ \A i \in 1..Size[p] : Encode(p)[i] = [of |-> p, at |-> i]
    BY <1>6, EncodeType
  <2>2. w \in Seq(Block) /\ (\A i \in 1..Len(Encode(p)) : w[i] = Encode(p)[i])
        /\ Len(w) = (IF Len(Encode(p)) < Len(f) THEN Len(f) ELSE Len(Encode(p)))
    <3> HIDE DEF p, f
    <3> QED BY <1>4, <2>1, WriteType
  <2>3. vol' = [vol EXCEPT ![v] = r]
    BY <1>3, <1>7, <1>8 DEF VolType
  <2> HIDE DEF p, w, f, v
  <2>4. Size[p] <= Len(w) /\ w # <<>> /\ \A i \in 1..Size[p] : w[i] = [of |-> p, at |-> i]
    <3>1. Len(w) \in Nat /\ Size[p] <= Len(w)
      BY <1>5, <2>1, <2>2
    <3>2. w # <<>>
      BY <2>1, <3>1
    <3> QED BY <2>1, <2>2, <3>1, <3>2
  <2>5. r \in VolType /\ r.link = vol[v].link /\ r.file = w /\ r.stored = p
    BY <1>3, <1>6, <2>2 DEF VolType
  <2> HIDE DEF r
  <2>6. Kept(r)
    BY <2>4, <2>5 DEF Kept
  <2> QED BY <1>1, <1>2, <2>3, <2>5, <2>6, VolumeChanges DEF v
<1>9. ASSUME NEW k \in 1..(Size[p] - 1),
             vol' = [vol EXCEPT ![v].file = WriteMetadataFile(@, SubSeq(Encode(p), 1, k)), ![v].whole = FALSE]
      PROVE  UnlockedInv'
  <2> DEFINE e == SubSeq(Encode(p), 1, k)
             w == WriteMetadataFile(f, e)
             r == [vol[v] EXCEPT !.file = w, !.whole = FALSE]
  <2>1. Encode(p) \in Seq(Block) /\ Len(Encode(p)) = Size[p] /\ Size[p] \in Nat \ {0}
    BY <1>6, EncodeType
  <2>2. e \in Seq(Block)
    <3>1. \A i \in 1..k : Encode(p)[i] \in Block
      BY <2>1
    <3>2. k \in Int /\ 1 \in Int
      BY <2>1
    <3> QED BY <3>1, <3>2, SubSeqProperties
  <2> HIDE DEF e
  <2>3. w \in Seq(Block) /\ Len(w) = (IF Len(e) < Len(f) THEN Len(f) ELSE Len(e))
    BY <1>4, <2>2, WriteType
  <2>4. vol' = [vol EXCEPT ![v] = r]
    BY <1>3, <1>7, <1>9 DEF VolType, e
  <2> HIDE DEF p, w, f, v
  <2>5. w # <<>>
    <3>1. Len(w) # 0
      BY <1>5, <2>2, <2>3
    <3> QED BY <3>1
  <2>6. r \in VolType /\ r.link = vol[v].link /\ r.file = w /\ r.whole = FALSE
    BY <1>3, <2>3 DEF VolType
  <2> HIDE DEF r
  <2>7. Kept(r)
    BY <2>5, <2>6 DEF Kept
  <2> QED BY <1>1, <1>2, <2>4, <2>6, <2>7, VolumeChanges DEF v
<1> QED BY <1>8, <1>9 DEF SetProperty

LEMMA SetPrivilegedKeeps ==
  ASSUME UnlockedInv, NEW h \in Handles, NEW b \in BOOLEAN, SetPrivileged(h, b)
  PROVE  UnlockedInv'
<1> DEFINE v == live[h]
           r == [vol[v] EXCEPT !.priv = b]
<1>1. h \in Alive /\ UNCHANGED <<live, req, stack, metadata>>
  BY DEF SetPrivileged, Alive
<1>2. past' \in PastType /\ past'.was = past.was /\ past'.doomed = past.doomed
  BY OthersFacts DEF SetPrivileged, UnlockedInv
<1>3. v \in Vols /\ vol[v] \in VolType /\ Kept(vol[v]) /\ vol \in [Vols -> VolType]
  BY <1>1, AliveVols DEF UnlockedInv, FilesOK, TypeOK
<1>4. r \in VolType /\ r.link = vol[v].link /\ r.file = vol[v].file /\ r.whole = vol[v].whole /\ r.stored = vol[v].stored
  BY <1>3 DEF VolType
<1>5. vol' = [vol EXCEPT ![v] = r]
  BY <1>3 DEF SetPrivileged, VolType
<1> HIDE DEF r
<1>6. Kept(r)
  BY <1>3, <1>4 DEF Kept
<1> HIDE DEF v
<1> QED BY <1>1, <1>2, <1>4, <1>5, <1>6, VolumeChanges DEF v

LEMMA OthersKeep ==
  ASSUME UnlockedInv, Others
  PROVE  UnlockedInv'
BY CreateKeeps, DestroyKeeps, SetPropertyKeeps, SetPrivilegedKeeps DEF Others
-----------------------------------------------------------------------------
LEMMA NoReqType ==
  /\ NoReq \in ReqType /\ NoReq.op = "" /\ NoReq.pc = "idle" /\ NoReq.todo = {} /\ NoReq.fd = NoVol
  /\ NoPast \in PastType /\ NoPast.was = [h \in Handles |-> NoVol] /\ NoPast.doomed = {}
<1>1. <<>> \in Seq(Block)
  OBVIOUS
<1>2. NoReq \in ReqType
  BY <1>1, NoProperties DEF NoReq, ReqType
<1>3. NoReq.op = "" /\ NoReq.pc = "idle" /\ NoReq.todo = {} /\ NoReq.fd = NoVol
  BY DEF NoReq
<1>4. Absent \in Stored
  BY NoProperties DEF Absent, Stored
<1>5. NoPast \in PastType
  BY <1>4 DEF NoPast, PastType
<1>6. NoPast.was = [h \in Handles |-> NoVol] /\ NoPast.doomed = {}
  BY DEF NoPast
<1> QED BY <1>2, <1>3, <1>5, <1>6

\* A request comes in: what it finds is remembered.
LEMMA BeginFacts ==
  ASSUME UnlockedInv, NEW r \in ReqType, NEW h \in Handles \union {NoHandle}, Begin(r, h), Lineage(h) \subseteq Vols
  PROVE  /\ past' \in PastType /\ past'.was = live
         /\ past'.doomed = (IF r.op = "tree" THEN Lineage(h) ELSE {})
         /\ req' = r /\ req.pc = "idle" /\ stack = <<>> /\ UNCHANGED <<live, vol, metadata>>
<1> DEFINE before == [g \in Handles |-> State(g)]
           suspect == {g \in Alive : ~vol[live[g]].whole}
           doomed == IF r.op = "tree" THEN Lineage(h) ELSE {}
           child == IF r.op = "parent" THEN h ELSE NoHandle
<1>1. before \in [Handles -> Stored]
  <2>1. ASSUME NEW g \in Handles PROVE State(g) \in Stored
    <3>1. CASE live[g] = NoVol
      BY <3>1, NoProperties DEF State, Absent, Stored
    <3>2. CASE live[g] # NoVol
      <4>1. g \in Alive
        BY <3>2 DEF Alive
      <4>2. vol[live[g]].stored \in Properties /\ vol[live[g]].priv \in BOOLEAN
        BY <4>1, AliveVols DEF UnlockedInv, VolType
      <4> QED BY <3>2, <4>2 DEF State, Stored
    <3> QED BY <3>1, <3>2
  <2> QED BY <2>1
<1>2. suspect \in SUBSET Handles /\ doomed \in SUBSET Vols /\ child \in Handles \union {NoHandle}
      /\ live \in [Handles -> Vols \union {NoVol}]
  BY DEF Alive, UnlockedInv, TypeOK
<1>3. past' = [NoPast EXCEPT !.before = before, !.was = live, !.suspect = suspect, !.doomed = doomed, !.child = child]
  BY DEF Begin
<1>4. req' = r /\ req.pc = "idle" /\ stack = <<>> /\ UNCHANGED <<live, vol, metadata>>
  BY DEF Begin, At, store, UnlockedInv, PointOK
<1> HIDE DEF before, suspect, doomed, child
<1>5. past' \in PastType
  BY <1>1, <1>2, <1>3, NoReqType DEF PastType
<1>6. past'.was = live /\ past'.doomed = doomed
  BY <1>3, NoReqType DEF PastType
<1> QED BY <1>4, <1>5, <1>6 DEF doomed

\* The descendants of a volume, by the links.
LEMMA LineageType ==
  ASSUME UnlockedInv, NEW h
  PROVE  /\ Lineage(h) \subseteq Vols
         /\ \A v \in Lineage(h) : \E g \in Alive : live[g] = v
<1>1. ASSUME NEW v \in Lineage(h) PROVE \E g \in Alive : live[g] = v
  BY DEF Lineage
<1> QED BY <1>1, AliveVols DEF UnlockedInv

\* They are closed under taking the parent, up to the volume itself.
LEMMA LineageClosed ==
  ASSUME UnlockedInv, NEW h \in Handles, NEW g \in Alive, live[g] \in Lineage(h), g # h
  PROVE  Link(g) \in Alive /\ live[Link(g)] \in Lineage(h)
<1> DEFINE N == Cardinality(Handles)
           Reaches(x, n, path) == /\ path[0] = x /\ path[n] = h
                                  /\ \A i \in 1..n : vol[live[path[i - 1]]].link = path[i]
<1>0. N \in Nat
  BY FiniteHandles, FS_CardinalityType
<1>a. PICK x \in Alive, n \in 0..N : live[x] = live[g] /\ \E path \in [0..n -> Alive] : Reaches(x, n, path)
  BY DEF Lineage
<1>b. PICK path \in [0..n -> Alive] : Reaches(x, n, path)
  BY <1>a
<1>1. live[x] = live[g] /\ Reaches(x, n, path)
  BY <1>a, <1>b
<1>2. x = g
  BY <1>1 DEF UnlockedInv, Ids
<1> HIDE DEF N
<1>3. n \in Nat /\ n # 0 /\ 1 \in 1..n /\ 1 \in 0..n /\ n - 1 \in 0..N /\ 1 - 1 = 0
  BY <1>0, <1>1, <1>2
<1>4. Link(g) = path[1] /\ path[1] \in Alive
  <2>1. path[0] = g /\ vol[live[path[1 - 1]]].link = path[1]
    BY <1>1, <1>2, <1>3
  <2> QED BY <1>1, <1>3, <2>1 DEF Link
<1> DEFINE q == [i \in 0..(n - 1) |-> path[i + 1]]
<1>5. q \in [0..(n - 1) -> Alive]
  <2>1. \A i \in 0..(n - 1) : i + 1 \in 0..n
    BY <1>3
  <2> QED BY <1>1, <2>1
<1>6. Reaches(path[1], n - 1, q)
  <2>1. q[0] = path[1] /\ q[n - 1] = path[n]
    BY <1>3
  <2>2. ASSUME NEW i \in 1..(n - 1) PROVE vol[live[q[i - 1]]].link = q[i]
    <3>1. i + 1 \in 1..n /\ i - 1 \in 0..(n - 1) /\ i \in 0..(n - 1) /\ (i - 1) + 1 = i /\ (i + 1) - 1 = i
      BY <1>3
    <3>2. q[i - 1] = path[i] /\ q[i] = path[i + 1]
      BY <3>1
    <3>3. vol[live[path[(i + 1) - 1]]].link = path[i + 1]
      BY <1>1, <3>1
    <3> QED BY <3>1, <3>2, <3>3
  <2> QED BY <1>1, <2>1, <2>2
<1> HIDE DEF q
<1>7. live[path[1]] \in Lineage(h)
  BY <1>3, <1>4, <1>5, <1>6 DEF Lineage, N
<1> QED BY <1>4, <1>7

\* A request arrives.
LEMMA ArrivalKeeps ==
  ASSUME UnlockedInv, Arrival
  PROVE  UnlockedInv'
<1>1. Alive' = Alive /\ \A g \in Alive : Link(g)' = Link(g)
  <2>1. UNCHANGED <<live, vol>>
    BY DEF Arrival, GetVolume, VolumeParent, ListVolumes, DestroyVolumeAndDescendants, DestroyVolumes, Begin, store
  <2> QED BY <2>1 DEF Alive, Link
<1>2. ASSUME NEW r \in ReqType, NEW h \in Handles \union {NoHandle}, Begin(r, h), stack' \in Seq(FrameType) PROVE TypeOK' /\ Ids' /\ FilesOK'
  <2>1. /\ past' \in PastType /\ past'.was = live /\ past'.doomed \subseteq Lineage(h)
        /\ req' = r /\ UNCHANGED <<live, vol, metadata>>
    BY <1>2, BeginFacts, LineageType
  <2>2. TypeOK'
    BY <1>2, <2>1 DEF UnlockedInv, TypeOK
  <2>3. FilesOK'
    BY <1>1, <2>1 DEF UnlockedInv, FilesOK
  <2>4. \A g \in Alive, k \in Handles : live[g] = live[k] => g = k
    BY DEF UnlockedInv, Ids, Alive
  <2>5. \A v \in past'.doomed : \E k \in Handles : live[k] = v
    BY <2>1, LineageType DEF Alive
  <2>6. Ids'
    BY <1>1, <2>1, <2>4, <2>5 DEF UnlockedInv, Ids
  <2> QED BY <2>2, <2>3, <2>6
<1>3. ASSUME NEW r \in ReqType, NEW h \in Handles \union {NoHandle}, Begin(r, h), UNCHANGED stack,
             r.op \in {"get", "list", "parent", "batch"}, r.pc # "tree", r.pc # "idle"
      PROVE  req' = r /\ stack' = <<>> /\ TypeOK' /\ Ids' /\ FilesOK' /\ TreeOK' /\ Ranked'
  <2>1. req' = r /\ stack = <<>>
    BY <1>3, BeginFacts, LineageType
  <2>2. TypeOK' /\ Ids' /\ FilesOK'
    BY <1>2, <1>3 DEF UnlockedInv, TypeOK
  <2>3. TreeOK'
    BY <1>3, <2>1, NotTree
  <2>4. Ranked'
    <3>1. UNCHANGED live
      BY <1>3 DEF Begin, store
    <3> QED BY <1>1, <1>3, <3>1, RankShrinks DEF UnlockedInv
  <2> QED BY <1>3, <2>1, <2>2, <2>3, <2>4
<1>4. ASSUME NEW h \in Handles, GetVolume(h) \/ VolumeParent(h) PROVE UnlockedInv'
  <2>1. PICK o \in {"get", "parent"} : Begin([NoReq EXCEPT !.op = o, !.pc = "lookup", !.h = h], h) /\ UNCHANGED stack
    BY <1>4 DEF GetVolume, VolumeParent
  <2> DEFINE r == [NoReq EXCEPT !.op = o, !.pc = "lookup", !.h = h]
  <2>2. r \in ReqType /\ r.op = o /\ r.pc = "lookup" /\ r.h = h
    BY NoReqType DEF ReqType
  <2> HIDE DEF r
  <2>3. req' = r /\ stack' = <<>> /\ TypeOK' /\ Ids' /\ FilesOK' /\ TreeOK' /\ Ranked'
    BY <1>3, <2>1, <2>2 DEF r
  <2>4. PointOK' /\ BatchOK'
    BY <2>2, <2>3 DEF PointOK, BatchOK
  <2> QED BY <2>3, <2>4 DEF UnlockedInv
<1>5. ASSUME NEW q \in Properties, ListVolumes(q) PROVE UnlockedInv'
  <2> DEFINE r == [NoReq EXCEPT !.op = "list", !.pc = "readDir", !.query = q]
  <2>1. r \in ReqType /\ r.op = "list" /\ r.pc = "readDir" /\ r.todo = {}
    BY NoReqType DEF ReqType
  <2>2. Begin(r, NoHandle) /\ UNCHANGED stack
    BY <1>5 DEF ListVolumes
  <2> HIDE DEF r
  <2>3. req' = r /\ stack' = <<>> /\ TypeOK' /\ Ids' /\ FilesOK' /\ TreeOK' /\ Ranked'
    BY <1>3, <2>1, <2>2
  <2>4. PointOK' /\ BatchOK'
    BY <2>1, <2>3 DEF PointOK, BatchOK
  <2> QED BY <2>3, <2>4 DEF UnlockedInv
<1>6. ASSUME NEW l \in Lists, DestroyVolumes(l) PROVE UnlockedInv'
  <2> DEFINE r == [NoReq EXCEPT !.op = "batch", !.pc = "batch", !.query = l, !.todo = 1..Len(l)]
  <2>0. 1..Len(l) \in SUBSET (Handles \union Nat) /\ DOMAIN l = 1..Len(l)
    <3>1. PICK n \in 1..2 : l \in [1..n -> Handles]
      BY DEF Lists
    <3>2. l \in Seq(Handles)
      BY <3>1
    <3> QED BY <3>2
  <2>1. r \in ReqType /\ r.op = "batch" /\ r.pc = "batch" /\ r.todo = 1..Len(l) /\ r.query = l
    BY <2>0, NoReqType DEF ReqType
  <2>2. Begin(r, NoHandle) /\ UNCHANGED stack
    BY <1>6 DEF DestroyVolumes
  <2> HIDE DEF r
  <2>3. req' = r /\ stack' = <<>> /\ TypeOK' /\ Ids' /\ FilesOK' /\ TreeOK' /\ Ranked'
    BY <1>3, <2>1, <2>2
  <2>4. PointOK' /\ BatchOK'
    BY <2>0, <2>1, <2>3 DEF PointOK, BatchOK
  <2> QED BY <2>3, <2>4 DEF UnlockedInv
<1>7. ASSUME NEW h \in Handles, DestroyVolumeAndDescendants(h) PROVE UnlockedInv'
  <2> DEFINE r == [NoReq EXCEPT !.op = "tree", !.pc = "tree", !.h = h]
  <2>1. r \in ReqType /\ r.op = "tree" /\ r.pc = "tree" /\ r.h = h
    BY NoReqType DEF ReqType
  <2>2. Begin(r, h) /\ stack' = <<Frame(h)>>
    BY <1>7 DEF DestroyVolumeAndDescendants
  <2> HIDE DEF r
  <2>3. Frame(h) \in FrameType /\ Frame(h).h = h /\ ~Frame(h).listed
    BY DEF Frame, FrameType
  <2>4. stack' \in Seq(FrameType) /\ Len(stack') = 1 /\ stack'[1] = Frame(h) /\ stack' # <<>>
    BY <2>2, <2>3
  <2>5. TypeOK' /\ Ids' /\ FilesOK'
    BY <1>2, <2>1, <2>2, <2>4
  <2>6. req' = r /\ past'.doomed = Lineage(h) /\ UNCHANGED <<live, vol>>
    BY <2>1, <2>2, BeginFacts, LineageType
  <2>7. PointOK' /\ BatchOK'
    BY <2>1, <2>4, <2>6 DEF PointOK, BatchOK
  <2>8. TreeOK'
    <3>1. Doomed' = {g \in Alive : live[g] \in Lineage(h)}
      BY <1>1, <2>6 DEF Doomed
    <3>2. ASSUME NEW g \in Doomed' \ {h} PROVE Link(g)' \in Doomed'
      BY <1>1, <3>1, <3>2, LineageClosed
    <3> QED BY <2>1, <2>3, <2>4, <2>6, <3>2 DEF TreeOK
  <2>9. Ranked'
    <3>1. PICK rank \in [Vols -> Nat], n \in Nat : RankOK(rank) /\ \A v \in Vols : rank[v] < n
      BY DEF UnlockedInv, Ranked
    <3>2. RankOK(rank)'
      <4>1. \A g \in Alive' : Link(g)' \in Alive' => rank[live'[Link(g)']] < rank[live'[g]]
        BY <1>1, <2>6, <3>1 DEF RankOK
      <4>2. \A i \in 1..Len(stack') : ~stack'[i].listed
        BY <2>3, <2>4
      <4> QED BY <2>4, <4>1, <4>2 DEF RankOK
    <3> QED BY <3>1, <3>2 DEF Ranked
  <2> QED BY <2>5, <2>7, <2>8, <2>9 DEF UnlockedInv
<1> QED BY <1>4, <1>5, <1>6, <1>7 DEF Arrival
-----------------------------------------------------------------------------
\* The calls that are open.
LEMMA StackFacts ==
  ASSUME UnlockedInv, At("tree")
  PROVE  /\ stack \in Seq(FrameType) /\ Len(stack) \in Nat \ {0} /\ Len(stack) \in 1..Len(stack)
         /\ Top \in FrameType /\ Top = stack[Len(stack)]
         /\ req.op = "tree" /\ req.pc = "tree" /\ req.h \in Handles /\ stack[1].h = req.h
         /\ \A i \in 1..Len(stack) : i < Len(stack) => stack[i].listed
<1>1. stack \in Seq(FrameType) /\ stack # <<>>
  BY DEF UnlockedInv, TypeOK, PointOK, At
<1>2. Len(stack) \in Nat \ {0}
  BY <1>1
<1>3. Top \in FrameType /\ Top = stack[Len(stack)]
  BY <1>1, <1>2 DEF Top
<1>4. req.op = "tree" /\ req.pc = "tree" /\ req.h \in Handles /\ stack[1].h = req.h
  BY DEF UnlockedInv, PointOK, TreeOK, At
<1> QED BY <1>1, <1>2, <1>3, <1>4 DEF UnlockedInv, TreeOK

\* A step that changes only the calls.
LEMMA CallsKeep ==
  ASSUME UnlockedInv, At("tree"), UNCHANGED <<live, vol, metadata, req, past>>,
         stack' \in Seq(FrameType), stack' # <<>>, TreeOK', Ranked'
  PROVE  UnlockedInv'
<1>1. Alive' = Alive
  BY DEF Alive
<1>2. TypeOK' /\ Ids' /\ FilesOK' /\ BatchOK'
  BY <1>1 DEF UnlockedInv, TypeOK, Ids, FilesOK, BatchOK
<1>3. PointOK'
  BY StackFacts DEF UnlockedInv, PointOK
<1> QED BY <1>2, <1>3 DEF UnlockedInv

\* The request ends, and with it every call.
LEMMA TreeEnds ==
  ASSUME UnlockedInv, At("tree"), NEW a \in {"ok", "error"}, Answer(a), stack' = <<>>,
         live' \in [Handles -> Vols \union {NoVol}], vol' \in [Vols -> VolType], UNCHANGED metadata,
         past' \in PastType, past'.was = past.was, past'.doomed = past.doomed, Alive' \subseteq Alive,
         \A g \in Alive' : live'[g] = live[g] /\ vol'[live[g]] = vol[live[g]] /\ Link(g)' = Link(g),
         \A g \in Doomed' \ {req.h} : Link(g)' \in Doomed',
         a = "ok" => Doomed' = {}
  PROVE  UnlockedInv'
<1>0. req.op = "tree" /\ req.h \in Handles
  BY StackFacts
<1>1. req' \in ReqType /\ req'.pc = "done" /\ req'.answer = a /\ req'.op = "tree" /\ req'.h = req.h
  BY <1>0, AnswerFacts DEF UnlockedInv, Answers
<1>2. TypeOK'
  <2>1. stack' \in Seq(FrameType)
    OBVIOUS
  <2> QED BY <1>1, <2>1 DEF UnlockedInv, TypeOK
<1>3. PointOK' /\ BatchOK'
  BY <1>0, <1>1 DEF PointOK, BatchOK
<1>4. Ids' /\ FilesOK'
  BY StoreShrinks DEF UnlockedInv
<1>5. Ranked'
  BY RankNoStack DEF UnlockedInv
<1>6. TreeOK'
  <2>1. Len(stack') = 0
    OBVIOUS
  <2> QED BY <1>1, <2>1 DEF TreeOK
<1> QED BY <1>2, <1>3, <1>4, <1>5, <1>6 DEF UnlockedInv

\* A call looks for the volumes there are.
LEMMA TreeListKeeps ==
  ASSUME UnlockedInv, TreeList
  PROVE  UnlockedInv'
<1> DEFINE n == Len(stack)
<1>0. At("tree") /\ ~Top.listed /\ UNCHANGED <<live, vol, metadata, past>>
  BY DEF TreeList, store
<1>1. Alive' = Alive /\ Doomed' = Doomed /\ \A g \in Alive : Link(g)' = Link(g)
  BY <1>0 DEF Alive, Doomed, Link
<1>2. /\ stack \in Seq(FrameType) /\ n \in Nat \ {0} /\ n \in 1..n /\ Top \in FrameType /\ Top = stack[n]
      /\ req.op = "tree" /\ req.pc = "tree" /\ stack[1].h = req.h
      /\ \A i \in 1..n : i < n => stack[i].listed
  BY <1>0, StackFacts
<1>3. CASE Top.h \notin Alive /\ TreeFails
  <2>1. Answer("error") /\ stack' = <<>>
    BY <1>3 DEF TreeFails
  <2>2. \A g \in Alive' : live'[g] = live[g] /\ vol'[live[g]] = vol[live[g]] /\ Link(g)' = Link(g)
    BY <1>0, <1>1
  <2>3. \A g \in Doomed' \ {req.h} : Link(g)' \in Doomed'
    BY <1>1, <1>2 DEF UnlockedInv, TreeOK, Doomed
  <2>4. live' \in [Handles -> Vols \union {NoVol}] /\ vol' \in [Vols -> VolType] /\ past' \in PastType
    BY <1>0 DEF UnlockedInv, TypeOK
  <2> QED BY <1>0, <1>1, <2>1, <2>2, <2>3, <2>4, TreeEnds
<1>4. CASE Top.h \in Alive /\ UNCHANGED req
           /\ stack' = [stack EXCEPT ![Len(stack)] = [h |-> Top.h, v |-> live[Top.h], listed |-> TRUE, todo |-> Alive]]
  <2>0. PICK f : f = [h |-> Top.h, v |-> live[Top.h], listed |-> TRUE, todo |-> Alive]
    OBVIOUS
  <2>1. f \in FrameType /\ f.h = Top.h /\ f.v = live[Top.h] /\ f.v \in Vols /\ f.listed /\ f.todo = Alive
    BY <1>4, <2>0, AliveVols DEF UnlockedInv, FrameType, Alive
  <2>2. stack' = [stack EXCEPT ![n] = f]
    BY <1>4, <2>0
  <2>3. stack' \in Seq(FrameType) /\ Len(stack') = n /\ stack'[n] = f /\ \A i \in 1..n : i # n => stack'[i] = stack[i]
    BY <1>2, <2>1, <2>2
  <2>4. \A i \in 1..n : stack'[i].h = stack[i].h /\ (i < n => stack'[i] = stack[i])
    BY <1>2, <2>1, <2>3
  <2> HIDE DEF n
  <2>5. TreeOK'
    <3>1. \A g \in Doomed' \ {req.h} : Link(g)' \in Doomed' /\ g \in Alive /\ Link(g)' = Link(g)
      BY <1>1, <1>2 DEF UnlockedInv, TreeOK, Doomed
    <3>2. 1 \in 1..n
      BY <1>2
    <3>3. ASSUME NEW i \in 1..n, NEW g \in Doomed' \ {req.h}, Link(g)' = stack'[i].h
          PROVE  g \in stack'[i].todo \/ (i < n /\ g = stack'[i + 1].h)
      <4>1. CASE i = n
        BY <2>1, <2>3, <3>1, <4>1
      <4>2. CASE i # n
        <5>1. i < n /\ i + 1 \in 1..n
          BY <1>2, <4>2
        <5>2. g \in Doomed \ {req.h} /\ Link(g) = stack[i].h /\ stack[i].listed
          BY <1>1, <1>2, <2>4, <3>1, <3>3, <5>1
        <5>3. g \in stack[i].todo \/ g = stack[i + 1].h
          BY <1>2, <5>1, <5>2 DEF UnlockedInv, TreeOK, n
        <5> QED BY <2>4, <5>1, <5>3
      <4> QED BY <4>1, <4>2
    <3> QED BY <1>2, <1>4, <2>1, <2>3, <2>4, <3>1, <3>2, <3>3 DEF TreeOK
  <2>6. Ranked'
    <3>1. PICK rank \in [Vols -> Nat], m \in Nat : RankOK(rank) /\ \A v \in Vols : rank[v] < m
      BY DEF UnlockedInv, Ranked
    <3>2. \A g \in Alive' : Link(g)' \in Alive' => rank[live'[Link(g)']] < rank[live'[g]]
      BY <1>0, <1>1, <3>1 DEF RankOK
    <3>3. ASSUME NEW i \in 1..n, i < n PROVE stack[i].listed /\ stack[i].v \in Vols /\ rank[stack[i].v] < rank[f.v]
      <4>1. n - 1 \in 1..n /\ n - 1 < n /\ n > 1 /\ (i = n - 1 \/ i < n - 1)
        BY <1>2, <3>3
      <4>2. stack[i].listed /\ stack[i].v \in Vols /\ stack[n - 1].listed /\ stack[n - 1].v \in Vols
        BY <1>2, <3>1, <3>3, <4>1 DEF RankOK, n
      <4>3. rank[stack[n - 1].v] < rank[f.v]
        BY <1>0, <1>2, <1>4, <2>1, <3>1, <4>1 DEF RankOK, n
      <4>4. i < n - 1 => rank[stack[i].v] < rank[stack[n - 1].v]
        BY <3>1, <4>1, <4>2 DEF RankOK, n
      <4>5. rank[stack[i].v] \in Nat /\ rank[stack[n - 1].v] \in Nat /\ rank[f.v] \in Nat
        BY <2>1, <4>2
      <4> QED BY <4>1, <4>2, <4>3, <4>4, <4>5
    <3>4. ASSUME NEW i \in 1..n, NEW j \in 1..n, i < j, stack'[j].listed PROVE rank[stack'[i].v] < rank[stack'[j].v]
      <4>1. i < n /\ stack'[i] = stack[i]
        BY <1>2, <2>4, <3>4
      <4>2. CASE j = n
        BY <2>3, <3>3, <4>1, <4>2
      <4>3. CASE j # n
        BY <2>3, <3>1, <3>4, <4>1, <4>3 DEF RankOK, n
      <4> QED BY <4>2, <4>3
    <3>5. ASSUME NEW i \in 1..n, stack'[i].listed
          PROVE stack'[i].v \in Vols /\ (stack'[i].h \in Alive' => rank[stack'[i].v] <= rank[live'[stack'[i].h]])
      <4>1. CASE i = n
        BY <1>0, <2>1, <2>3, <4>1
      <4>2. CASE i # n
        BY <1>0, <1>1, <2>3, <3>1, <3>5, <4>2 DEF RankOK, n
      <4> QED BY <4>1, <4>2
    <3>6. Top'.listed
      BY <2>1, <2>3 DEF Top
    <3>7. RankOK(rank)'
      BY <2>3, <3>2, <3>4, <3>5, <3>6 DEF RankOK
    <3> QED BY <3>1, <3>7 DEF Ranked
  <2>7. stack' # <<>>
    BY <1>2, <2>3
  <2> QED BY <1>0, <1>4, <2>3, <2>5, <2>6, <2>7, CallsKeep
<1> QED BY <1>3, <1>4 DEF TreeList

\* A call looks at a volume of its list, and calls itself for a child.
LEMMA TreeCandidateKeeps ==
  ASSUME UnlockedInv, TreeCandidate
  PROVE  UnlockedInv'
<1> DEFINE n == Len(stack)
<1>0. At("tree") /\ Top.listed /\ UNCHANGED <<live, vol, metadata, past, req>>
  BY DEF TreeCandidate, store
<1>1. Alive' = Alive /\ Doomed' = Doomed /\ \A g \in Alive : Link(g)' = Link(g)
  BY <1>0 DEF Alive, Doomed, Link
<1>2. /\ stack \in Seq(FrameType) /\ n \in Nat \ {0} /\ n \in 1..n /\ Top \in FrameType /\ Top = stack[n]
      /\ req.op = "tree" /\ req.pc = "tree" /\ stack[1].h = req.h
      /\ \A i \in 1..n : i < n => stack[i].listed
  BY <1>0, StackFacts
<1>3. PICK c \in Top.todo : stack' = IF ParentOf(c) = Top.h THEN Append([stack EXCEPT ![Len(stack)].todo = @ \ {c}], Frame(c))
                                     ELSE [stack EXCEPT ![Len(stack)].todo = @ \ {c}]
  BY DEF TreeCandidate
<1>4. c \in Handles /\ Top.h \in Handles
  BY <1>2 DEF FrameType
<1>5. PICK f : f = [Top EXCEPT !.todo = @ \ {c}]
  OBVIOUS
<1>6. f \in FrameType /\ f.h = Top.h /\ f.v = Top.v /\ f.listed /\ f.todo = Top.todo \ {c}
  BY <1>0, <1>2, <1>5 DEF FrameType
<1>7. PICK rest : rest = [stack EXCEPT ![n] = f]
  OBVIOUS
<1>8. /\ rest \in Seq(FrameType) /\ Len(rest) = n /\ rest[n] = f /\ (\A i \in 1..n : i # n => rest[i] = stack[i])
      /\ rest = [stack EXCEPT ![Len(stack)].todo = @ \ {c}]
  <2>1. rest \in Seq(FrameType) /\ Len(rest) = n /\ rest[n] = f /\ (\A i \in 1..n : i # n => rest[i] = stack[i])
    BY <1>2, <1>6, <1>7
  <2>2. rest = [stack EXCEPT ![Len(stack)].todo = @ \ {c}]
    BY <1>5, <1>7 DEF Top
  <2> QED BY <2>1, <2>2
<1>9. \A i \in 1..n : rest[i].h = stack[i].h /\ rest[i].v = stack[i].v /\ (rest[i].listed <=> stack[i].listed) /\ rest[i].listed
  BY <1>0, <1>2, <1>6, <1>8
<1>10. \A g \in Doomed \ {req.h} : Link(g) \in Doomed /\ g \in Alive /\ Link(g) \in Alive /\ Link(g)' = Link(g)
  BY <1>1, <1>2 DEF UnlockedInv, TreeOK, Doomed
<1>11. ASSUME NEW g \in Doomed \ {req.h}, Link(g) = Top.h PROVE g \in f.todo \/ (g = c /\ ParentOf(c) = Top.h)
  <2>1. g \in Top.todo
    BY <1>0, <1>2, <1>11 DEF UnlockedInv, TreeOK
  <2>2. ParentOf(g) = Top.h
    BY <1>10, <1>11 DEF ParentOf, Link, Alive
  <2> QED BY <1>6, <2>1, <2>2
<1>12. ASSUME NEW i \in 1..n, i < n, NEW g \in Doomed \ {req.h}, Link(g) = stack[i].h
       PROVE  g \in stack[i].todo \/ g = stack[i + 1].h
  BY <1>2, <1>12 DEF UnlockedInv, TreeOK
<1>13. PICK rank \in [Vols -> Nat], m \in Nat : RankOK(rank) /\ \A v \in Vols : rank[v] < m
  BY DEF UnlockedInv, Ranked
<1>14. \A g \in Alive' : Link(g)' \in Alive' => rank[live'[Link(g)']] < rank[live'[g]]
  BY <1>0, <1>1, <1>13 DEF RankOK
<1>15. /\ \A i, j \in 1..n : i < j => rank[rest[i].v] < rank[rest[j].v]
       /\ \A i \in 1..n : rest[i].v \in Vols /\ (rest[i].h \in Alive => rank[rest[i].v] <= rank[live[rest[i].h]])
  BY <1>9, <1>13 DEF RankOK
<1>16. 1 \in 1..n /\ rest[1].h = req.h
  <2>1. 1 \in 1..n
    BY <1>2
  <2> QED BY <1>2, <1>9, <2>1
<1> HIDE DEF n
<1>17. CASE ParentOf(c) # Top.h
  <2>1. stack' = rest
    BY <1>3, <1>8, <1>17
  <2>2. TreeOK'
    <3>1. ASSUME NEW i \in 1..n, NEW g \in Doomed' \ {req.h}, Link(g)' = stack'[i].h
          PROVE  g \in stack'[i].todo \/ (i < n /\ g = stack'[i + 1].h)
      <4>1. g \in Doomed \ {req.h} /\ Link(g) = stack[i].h
        BY <1>1, <1>9, <1>10, <2>1, <3>1
      <4>2. CASE i = n
        BY <1>2, <1>8, <1>11, <1>17, <2>1, <4>1, <4>2
      <4>3. CASE i # n
        <5>1. i < n /\ i + 1 \in 1..n
          BY <1>2, <4>3
        <5> QED BY <1>8, <1>9, <1>12, <2>1, <4>1, <5>1
      <4> QED BY <4>2, <4>3
    <3>2. Len(stack') = n /\ req' = req /\ \A i \in 1..n : stack'[i].listed
      BY <1>0, <1>8, <1>9, <2>1
    <3> QED BY <1>1, <1>2, <1>10, <1>16, <2>1, <3>1, <3>2 DEF TreeOK
  <2>3. Ranked'
    <3>1. Len(stack') = n /\ Top'.listed
      BY <1>2, <1>8, <1>9, <2>1 DEF Top
    <3>2. RankOK(rank)'
      BY <1>0, <1>1, <1>14, <1>15, <2>1, <3>1 DEF RankOK
    <3> QED BY <1>13, <3>2 DEF Ranked
  <2>4. stack' \in Seq(FrameType) /\ stack' # <<>>
    BY <1>2, <1>8, <2>1
  <2> QED BY <1>0, <2>2, <2>3, <2>4, CallsKeep
<1>18. CASE ParentOf(c) = Top.h
  <2>1. stack' = Append(rest, Frame(c))
    BY <1>3, <1>8, <1>18
  <2>2. Frame(c) \in FrameType /\ Frame(c).h = c /\ ~Frame(c).listed
    BY <1>4 DEF Frame, FrameType
  <2>3. /\ stack' \in Seq(FrameType) /\ Len(stack') = n + 1 /\ stack'[n + 1] = Frame(c)
        /\ \A i \in 1..n : stack'[i] = rest[i]
    BY <1>2, <1>8, <2>1, <2>2
  <2>4. c \in Alive /\ Link(c) = Top.h /\ Top.h \in Alive
    BY <1>4, <1>18, NullIds DEF ParentOf, Link, Alive
  <2>5. \A i \in 1..(n + 1) : i \in 1..n \/ i = n + 1
    BY <1>2
  <2>6. TreeOK'
    <3>1. ASSUME NEW i \in 1..(n + 1), stack'[i].listed, NEW g \in Doomed' \ {req.h}, Link(g)' = stack'[i].h
          PROVE  g \in stack'[i].todo \/ (i < n + 1 /\ g = stack'[i + 1].h)
      <4>0. i \in 1..n
        BY <2>2, <2>3, <2>5, <3>1
      <4>1. g \in Doomed \ {req.h} /\ Link(g) = stack[i].h
        BY <1>1, <1>9, <1>10, <2>3, <3>1, <4>0
      <4>2. CASE i = n
        <5>1. Link(g) = Top.h
          BY <1>2, <4>1, <4>2
        <5>2. g \in f.todo \/ g = c
          BY <1>11, <4>1, <5>1
        <5>3. stack'[n] = f
          BY <1>2, <1>8, <2>3
        <5>4. stack'[n + 1].h = c
          BY <2>2, <2>3
        <5>5. n < n + 1
          BY <1>2
        <5> QED BY <4>2, <5>2, <5>3, <5>4, <5>5
      <4>3. CASE i # n
        <5>1. i < n /\ i + 1 \in 1..n /\ i < n + 1
          BY <1>2, <4>0, <4>3
        <5>2. g \in stack[i].todo \/ g = stack[i + 1].h
          BY <1>12, <4>0, <4>1, <5>1
        <5>3. stack'[i] = stack[i] /\ stack'[i + 1].h = stack[i + 1].h
          BY <1>8, <1>9, <2>3, <4>0, <4>3, <5>1
        <5> QED BY <5>1, <5>2, <5>3
      <4> QED BY <4>2, <4>3
    <3>2. ASSUME NEW i \in 1..(n + 1), i < n + 1 PROVE stack'[i].listed
      BY <1>2, <1>9, <2>3, <2>5, <3>2
    <3>3. stack'[1].h = req.h
      BY <1>16, <2>3
    <3> QED BY <1>0, <1>1, <1>2, <1>10, <2>3, <3>1, <3>2, <3>3 DEF TreeOK
  <2>7. Ranked'
    <3>1. Top' = Frame(c) /\ Len(stack') - 1 = n /\ stack'[n].v = Top.v
      BY <1>2, <1>9, <2>3 DEF Top
    <3>2. rank[Top.v] < rank[live[c]]
      <4>1. rank[live[Top.h]] < rank[live[c]]
        BY <1>13, <2>4 DEF RankOK
      <4>2. rank[Top.v] <= rank[live[Top.h]] /\ Top.v \in Vols
        BY <1>2, <1>9, <1>15, <2>4
      <4>3. live[c] \in Vols /\ live[Top.h] \in Vols
        BY <2>4, AliveVols DEF UnlockedInv
      <4> QED BY <4>1, <4>2, <4>3
    <3>3. ASSUME NEW i \in 1..(n + 1), NEW j \in 1..(n + 1), i < j, stack'[j].listed PROVE rank[stack'[i].v] < rank[stack'[j].v]
      <4>1. j \in 1..n /\ i \in 1..n
        BY <1>2, <2>2, <2>3, <2>5, <3>3
      <4> QED BY <1>15, <2>3, <3>3, <4>1
    <3>4. ASSUME NEW i \in 1..(n + 1), stack'[i].listed
          PROVE  stack'[i].v \in Vols /\ (stack'[i].h \in Alive' => rank[stack'[i].v] <= rank[live'[stack'[i].h]])
      <4>1. i \in 1..n
        BY <2>2, <2>3, <2>5, <3>4
      <4> QED BY <1>0, <1>1, <1>15, <2>3, <4>1
    <3>5. rank[stack'[Len(stack') - 1].v] < rank[live'[Top'.h]]
      BY <1>0, <2>2, <3>1, <3>2
    <3>6. RankOK(rank)'
      BY <1>14, <2>3, <3>3, <3>4, <3>5 DEF RankOK
    <3> QED BY <1>13, <3>6 DEF Ranked
  <2>8. stack' # <<>>
    BY <1>2, <2>3
  <2> QED BY <1>0, <2>3, <2>6, <2>7, <2>8, CallsKeep
<1> QED BY <1>17, <1>18

\* Of some volumes one is the oldest.
LEMMA Oldest ==
  ASSUME NEW S \in SUBSET Handles, S # {}, NEW age \in [S -> Nat]
  PROVE  \E x \in S : \A y \in S : age[x] <= age[y]
<1> DEFINE Older(g) == {k \in S : age[k] <= age[g]}
           T == {Older(g) : g \in S}
<1>1. IsFiniteSet(S)
  BY FiniteHandles, FS_Subset
<1>2. T # {} /\ T \subseteq FiniteSubsetsOf(S)
  <2>1. \A g \in S : Older(g) \in SUBSET S
    OBVIOUS
  <2>2. PICK s \in S : TRUE
    OBVIOUS
  <2> HIDE DEF Older
  <2>3. Older(s) \in T
    OBVIOUS
  <2>4. ASSUME NEW t \in T PROVE t \in FiniteSubsetsOf(S)
    <3>1. PICK g \in S : t = Older(g)
      OBVIOUS
    <3>2. t \in SUBSET S
      BY <2>1, <3>1
    <3>3. IsFiniteSet(t)
      BY <1>1, <3>2, FS_Subset
    <3> QED BY <3>2, <3>3 DEF FiniteSubsetsOf
  <2> QED BY <2>3, <2>4
<1>3. PICK t \in T : \A u \in T : ~(<<u, t>> \in StrictSubsetOrdering(S))
  <2> HIDE DEF T
  <2> QED BY <1>1, <1>2, WFMin, FS_StrictSubsetOrderingWellFounded
<1>4. PICK x \in S : t = Older(x)
  OBVIOUS
<1>5. ASSUME NEW y \in S, ~(age[x] <= age[y]) PROVE FALSE
  <2>1. age[x] \in Nat /\ age[y] \in Nat /\ \A k \in S : age[k] \in Nat
    OBVIOUS
  <2>2. Older(y) \subseteq Older(x) /\ x \notin Older(y) /\ x \in Older(x)
    BY <1>5, <2>1
  <2>3. Older(y) \subseteq S /\ Older(x) \subseteq S /\ Older(y) \in T
    OBVIOUS
  <2> HIDE DEF Older, T
  <2>4. <<Older(y), Older(x)>> \in StrictSubsetOrdering(S)
    BY <2>2, <2>3 DEF StrictSubsetOrdering
  <2> QED BY <1>3, <1>4, <2>3, <2>4
<1> QED BY <1>5

\* When the first call has no doomed child left, nothing but its own volume is.
LEMMA NoneLeft ==
  ASSUME UnlockedInv, At("tree"), Top.listed, Top.todo = {}, Len(stack) = 1
  PROVE  Doomed \subseteq {req.h}
<1>1. req.op = "tree" /\ Top.h = req.h
  BY StackFacts
<1>2. \A g \in Doomed \ {req.h} : Link(g) \in Doomed \ {req.h}
  BY <1>1, StackFacts DEF UnlockedInv, TreeOK
<1>3. PICK rank \in [Vols -> Nat], m \in Nat : RankOK(rank) /\ \A v \in Vols : rank[v] < m
  BY DEF UnlockedInv, Ranked
<1> DEFINE S == Doomed \ {req.h}
           age == [g \in S |-> rank[live[g]]]
<1>4. ASSUME S # {} PROVE FALSE
  <2>1. S \in SUBSET Handles /\ \A g \in S : g \in Alive
    BY DEF Doomed, Alive
  <2>2. age \in [S -> Nat]
    BY <2>1, AliveVols DEF UnlockedInv
  <2>3. PICK x \in S : \A y \in S : age[x] <= age[y]
    <3> HIDE DEF S, age
    <3> QED BY <1>4, <2>1, <2>2, Oldest
  <2>4. Link(x) \in S
    BY <1>2
  <2>5. x \in Alive /\ Link(x) \in Alive
    BY <2>1, <2>4
  <2>6. rank[live[Link(x)]] < rank[live[x]]
    BY <1>3, <2>5 DEF RankOK
  <2>7. rank[live[x]] <= rank[live[Link(x)]] /\ rank[live[x]] \in Nat /\ rank[live[Link(x)]] \in Nat
    <3>1. age[x] <= age[Link(x)]
      BY <2>3, <2>4
    <3>2. live[x] \in Vols /\ live[Link(x)] \in Vols
      BY <2>5, AliveVols DEF UnlockedInv
    <3> QED BY <2>4, <3>1, <3>2
  <2> QED BY <2>6, <2>7
<1> QED BY <1>4

LEMMA ChangedFacts ==
  ASSUME TypeOK, NEW h \in Handles
  PROVE  Changed(h) \in PastType /\ Changed(h).was = past.was /\ Changed(h).doomed = past.doomed
<1>1. past \in PastType
  BY DEF TypeOK
<1> QED BY <1>1 DEF Changed, PastType

\* A call destroys its volume, after the children.
LEMMA TreeDestroyKeeps ==
  ASSUME UnlockedInv, TreeDestroy
  PROVE  UnlockedInv'
<1> DEFINE n == Len(stack)
<1>0. At("tree") /\ Top.listed /\ Top.todo = {} /\ past' = Changed(Top.h) /\ UNCHANGED metadata
  BY DEF TreeDestroy
<1>1. /\ stack \in Seq(FrameType) /\ n \in Nat \ {0} /\ n \in 1..n /\ Top \in FrameType /\ Top = stack[n]
      /\ req.op = "tree" /\ req.pc = "tree" /\ stack[1].h = req.h
      /\ \A i \in 1..n : i < n => stack[i].listed
  BY <1>0, StackFacts
<1>2. Top.h \in Handles
  BY <1>1 DEF FrameType
<1>3. past' \in PastType /\ past'.was = past.was /\ past'.doomed = past.doomed
  BY <1>0, <1>2, ChangedFacts DEF UnlockedInv
<1>4. live \in [Handles -> Vols \union {NoVol}] /\ vol \in [Vols -> VolType]
  BY DEF UnlockedInv, TypeOK
<1>5. \A g \in Doomed \ {req.h} : Link(g) \in Doomed /\ Link(g) # Top.h
  BY <1>0, <1>1 DEF UnlockedInv, TreeOK
<1>6. CASE UNCHANGED <<live, vol>> /\ TreeFails
  <2>1. Alive' = Alive /\ Doomed' = Doomed
    BY <1>3, <1>6 DEF Alive, Doomed
  <2>2. \A g \in Alive : Link(g)' = Link(g)
    BY <1>6 DEF Link
  <2>3. \A g \in Alive' : live'[g] = live[g] /\ vol'[live[g]] = vol[live[g]] /\ Link(g)' = Link(g)
    BY <1>6, <2>1, <2>2
  <2>4. \A g \in Doomed' \ {req.h} : Link(g)' \in Doomed'
    BY <1>5, <2>1, <2>2 DEF Doomed
  <2>5. live' \in [Handles -> Vols \union {NoVol}] /\ vol' \in [Vols -> VolType] /\ Alive' \subseteq Alive
    BY <1>4, <1>6, <2>1
  <2>6. Answer("error") /\ stack' = <<>>
    BY <1>6 DEF TreeFails
  <2> QED BY <1>0, <1>3, <2>3, <2>4, <2>5, <2>6, TreeEnds
<1>7. ASSUME Top.h \in Alive, live' = [live EXCEPT ![Top.h] = NoVol], vol' = Removed(live[Top.h]),
             TreeFails \/ (stack' = Pop /\ IF Len(stack) = 1 THEN Answer("ok") ELSE UNCHANGED req)
      PROVE  UnlockedInv'
  <2>1. /\ live' \in [Handles -> Vols \union {NoVol}]
        /\ vol' \in [Vols -> VolType]
        /\ Alive' = Alive \ {Top.h}
        /\ \A g \in Alive' : live'[g] = live[g] /\ vol'[live[g]] = vol[live[g]] /\ Link(g)' = Link(g)
    BY <1>7, VanishFacts DEF UnlockedInv
  <2>2. Doomed' = Doomed \ {Top.h}
    BY <1>3, <2>1 DEF Doomed
  <2>3. \A g \in Doomed' \ {req.h} : g \in Doomed \ {req.h} /\ Link(g)' = Link(g) /\ Link(g)' \in Doomed'
    BY <1>5, <2>1, <2>2 DEF Doomed
  <2>4. Alive' \subseteq Alive
    BY <2>1
  <2>5. CASE TreeFails
    <3>1. Answer("error") /\ stack' = <<>>
      BY <2>5 DEF TreeFails
    <3> QED BY <1>0, <1>3, <2>1, <2>3, <2>4, <3>1, TreeEnds
  <2>6. CASE stack' = Pop /\ n = 1 /\ Answer("ok")
    <3>1. stack' = <<>>
      BY <1>1, <2>6 DEF Pop
    <3>2. Doomed' = {}
      BY <1>0, <1>1, <2>2, <2>6, NoneLeft
    <3> QED BY <1>0, <1>3, <2>1, <2>3, <2>4, <2>6, <3>1, <3>2, TreeEnds
  <2>7. CASE stack' = Pop /\ n # 1 /\ UNCHANGED req
    <3>1. n - 1 \in Nat \ {0} /\ n - 1 \in 1..n /\ n - 1 < n /\ 1 \in 1..(n - 1) /\ n - 1 \in 1..(n - 1)
      <4> HIDE DEF n
      <4> QED BY <1>1, <2>7
    <3>2. stack' \in Seq(FrameType) /\ Len(stack') = n - 1 /\ \A i \in 1..(n - 1) : stack'[i] = stack[i]
      <4>1. stack' = SubSeq(stack, 1, n - 1)
        BY <2>7 DEF Pop
      <4>2. \A i \in 1..(n - 1) : stack[i] \in FrameType
        BY <1>1
      <4> QED BY <1>1, <3>1, <4>1, <4>2, SubSeqProperties
    <3>3. \A i \in 1..(n - 1) : i \in 1..n /\ i < n /\ stack[i].listed
      BY <1>1, <3>1
    <3> HIDE DEF n
    <3>4. TypeOK' /\ PointOK'
      <4>1. stack' # <<>>
        BY <3>1, <3>2
      <4>2. TypeOK'
        BY <1>0, <1>3, <2>1, <2>7, <3>2 DEF UnlockedInv, TypeOK
      <4> QED BY <1>1, <2>7, <4>1, <4>2 DEF UnlockedInv, PointOK
    <3>5. Ids' /\ FilesOK'
      BY <1>3, <2>1, <2>4, StoreShrinks DEF UnlockedInv
    <3>6. BatchOK'
      BY <1>1, <2>7 DEF BatchOK
    <3>7. TreeOK'
      <4>1. ASSUME NEW i \in 1..(n - 1), NEW g \in Doomed' \ {req.h}, Link(g)' = stack'[i].h
            PROVE  g \in stack'[i].todo \/ (i < n - 1 /\ g = stack'[i + 1].h)
        <5>1. g \in Doomed \ {req.h} /\ Link(g) = stack[i].h /\ g # Top.h
          BY <2>2, <2>3, <3>2, <4>1
        <5>2. g \in stack[i].todo \/ g = stack[i + 1].h
          BY <1>1, <3>3, <5>1 DEF UnlockedInv, TreeOK, n
        <5>3. CASE i = n - 1
          <6>1. stack[i + 1] = Top
            BY <1>1, <5>3
          <6> QED BY <3>2, <5>1, <5>2, <6>1
        <5>4. CASE i # n - 1
          <6>1. i < n - 1 /\ i + 1 \in 1..(n - 1)
            BY <1>1, <5>4
          <6> QED BY <3>2, <5>2, <6>1
        <5> QED BY <5>3, <5>4
      <4>2. stack'[1].h = req.h /\ \A i \in 1..(n - 1) : stack'[i].listed
        BY <1>1, <3>1, <3>2, <3>3
      <4> QED BY <1>1, <2>3, <2>7, <3>2, <4>1, <4>2 DEF TreeOK
    <3>8. Ranked'
      <4>1. PICK rank \in [Vols -> Nat], m \in Nat : RankOK(rank) /\ \A v \in Vols : rank[v] < m
        BY DEF UnlockedInv, Ranked
      <4>2. \A g \in Alive' : Link(g)' \in Alive' => rank[live'[Link(g)']] < rank[live'[g]]
        BY <2>1, <4>1 DEF RankOK
      <4>3. \A i, j \in 1..(n - 1) : i < j => rank[stack'[i].v] < rank[stack'[j].v]
        BY <3>2, <3>3, <4>1 DEF RankOK, n
      <4>4. \A i \in 1..(n - 1) : stack'[i].v \in Vols /\ (stack'[i].h \in Alive' => rank[stack'[i].v] <= rank[live'[stack'[i].h]])
        <5>1. ASSUME NEW i \in 1..(n - 1)
              PROVE  stack[i].v \in Vols /\ (stack[i].h \in Alive => rank[stack[i].v] <= rank[live[stack[i].h]])
          BY <3>3, <4>1 DEF RankOK, n
        <5>2. ASSUME NEW i \in 1..(n - 1), stack[i].h \in Alive' PROVE stack[i].h \in Alive /\ live'[stack[i].h] = live[stack[i].h]
          BY <2>1, <5>2
        <5> QED BY <3>2, <5>1, <5>2
      <4>5. Top'.listed
        BY <3>1, <3>2, <3>3 DEF Top
      <4>6. RankOK(rank)'
        BY <3>2, <4>2, <4>3, <4>4, <4>5 DEF RankOK
      <4> QED BY <4>1, <4>6 DEF Ranked
    <3> QED BY <3>4, <3>5, <3>6, <3>7, <3>8 DEF UnlockedInv
  <2> QED BY <1>7, <2>5, <2>6, <2>7
<1>8. \/ Top.h \in Alive /\ live' = [live EXCEPT ![Top.h] = NoVol] /\ vol' = Removed(live[Top.h])
         /\ (TreeFails \/ (stack' = Pop /\ IF Len(stack) = 1 THEN Answer("ok") ELSE UNCHANGED req))
      \/ UNCHANGED <<live, vol>> /\ TreeFails
  BY DEF TreeDestroy, store
<1> QED BY <1>6, <1>7, <1>8
-----------------------------------------------------------------------------
\* A goroutine of DestroyVolumes is done.
LEMMA DestroyOneKeeps ==
  ASSUME UnlockedInv, NEW i \in DOMAIN req.query, DestroyOne(i)
  PROVE  UnlockedInv'
<1> DEFINE h == req.query[i]
<1>1. req.pc = "batch" /\ req.op = "batch" /\ req.query \in Lists /\ stack = <<>> /\ UNCHANGED stack
  BY DEF DestroyOne, At, UnlockedInv, PointOK
<1>2. \A j \in DOMAIN req.query : req.query[j] \in Handles /\ j \in Nat
  BY <1>1 DEF Lists
<1>3. PICK b \in {{}, {i}} : req' = [req EXCEPT !.todo = @ \ {i}, !.bad = @ \union b]
                             /\ (b = {} => \/ h \in Alive /\ Vanish(h)
                                           \/ h \notin Alive /\ UNCHANGED <<store, past>>)
  <2>1. CASE req' = [req EXCEPT !.todo = @ \ {i}] /\ IF h \in Alive THEN Vanish(h) ELSE UNCHANGED <<store, past>>
    <3>1. req \in ReqType
      BY DEF UnlockedInv, TypeOK
    <3>2. [req EXCEPT !.todo = @ \ {i}] = [req EXCEPT !.todo = @ \ {i}, !.bad = @ \union {}]
      BY <3>1 DEF ReqType
    <3> QED BY <2>1, <3>2
  <2>2. CASE req' = [req EXCEPT !.todo = @ \ {i}, !.bad = @ \union {i}]
    BY <2>2
  <2> QED BY <2>1, <2>2 DEF DestroyOne
<1>4. /\ req' \in ReqType /\ req'.op = "batch" /\ req'.pc = "batch" /\ req'.query = req.query
      /\ req'.todo = req.todo \ {i} /\ req'.bad = req.bad \union b
  <2>1. req \in ReqType /\ i \in Nat
    BY <1>2 DEF UnlockedInv, TypeOK
  <2>2. req' \in ReqType
    BY <1>3, <2>1 DEF ReqType
  <2> QED BY <1>1, <1>3, <2>1, <2>2 DEF ReqType
<1>5. (h \in Alive /\ Vanish(h)) \/ UNCHANGED <<live, vol, metadata, past>>
  BY DEF DestroyOne, store
<1>6. /\ live' \in [Handles -> Vols \union {NoVol}] /\ vol' \in [Vols -> VolType]
      /\ past' \in PastType /\ past'.was = past.was /\ past'.doomed = past.doomed /\ UNCHANGED metadata
      /\ Alive' \subseteq Alive
      /\ \A g \in Alive' : live'[g] = live[g] /\ vol'[live[g]] = vol[live[g]] /\ Link(g)' = Link(g)
      /\ \A g \in Handles : live'[g] = live[g] \/ live'[g] = NoVol
  <2>1. CASE h \in Alive /\ Vanish(h)
    <3>1. live' = [live EXCEPT ![h] = NoVol] /\ vol' = Removed(live[h]) /\ past' = Changed(h) /\ UNCHANGED metadata
      BY <2>1 DEF Vanish
    <3>2. past' \in PastType /\ past'.was = past.was /\ past'.doomed = past.doomed
      BY <1>2, <3>1, ChangedFacts DEF UnlockedInv
    <3>3. \A g \in Handles : live'[g] = live[g] \/ live'[g] = NoVol
      BY <3>1 DEF UnlockedInv, TypeOK
    <3> HIDE DEF h
    <3> QED BY <2>1, <3>1, <3>2, <3>3, VanishFacts DEF UnlockedInv
  <2>2. CASE UNCHANGED <<live, vol, metadata, past>>
    BY <2>2 DEF UnlockedInv, TypeOK, Alive, Link
  <2> QED BY <1>5, <2>1, <2>2
<1>7. TypeOK' /\ PointOK'
  <2>1. TypeOK'
    BY <1>1, <1>4, <1>6 DEF UnlockedInv, TypeOK
  <2> QED BY <1>1, <1>4, <2>1 DEF PointOK
<1>8. Ids' /\ FilesOK'
  BY <1>6, StoreShrinks DEF UnlockedInv
<1>9. Ranked'
  BY <1>1, <1>6, RankShrinks DEF UnlockedInv
<1>10. TreeOK'
  BY <1>1, <1>4, NotTree
<1>11. BatchOK'
  <2>1. ASSUME NEW j \in DOMAIN req.query, j \notin req'.todo, j \notin req'.bad
        PROVE  past.was[req.query[j]] = NoVol \/ live'[req.query[j]] # past.was[req.query[j]]
    <3>1. CASE j = i
      <4>1. b = {}
        BY <1>3, <1>4, <2>1, <3>1
      <4>2. live'[h] = NoVol
        <5>1. CASE h \in Alive /\ Vanish(h)
          BY <1>2, <5>1 DEF Vanish, UnlockedInv, TypeOK
        <5>2. CASE h \notin Alive /\ UNCHANGED <<store, past>>
          BY <1>2, <5>2 DEF store, Alive
        <5> QED BY <1>3, <4>1, <5>1, <5>2
      <4> QED BY <3>1, <4>2
    <3>2. CASE j # i
      <4>1. past.was[req.query[j]] = NoVol \/ live[req.query[j]] # past.was[req.query[j]]
        BY <1>1, <1>4, <2>1, <3>2 DEF UnlockedInv, BatchOK
      <4> QED BY <1>2, <1>6, <4>1
    <3> QED BY <3>1, <3>2
  <2> QED BY <1>4, <1>6, <2>1 DEF BatchOK
<1> QED BY <1>7, <1>8, <1>9, <1>10, <1>11 DEF UnlockedInv

LEMMA AllDestroyedKeeps ==
  ASSUME UnlockedInv, AllDestroyed
  PROVE  UnlockedInv'
<1>1. req.pc = "batch" /\ req.todo = {} /\ req.op = "batch" /\ req.query \in Lists /\ stack = <<>>
      /\ UNCHANGED <<live, vol, metadata, past, stack>>
  BY DEF AllDestroyed, At, UnlockedInv, PointOK, store
<1>2. PICK a \in {"ok", "error"} : Answer(a) /\ (a = "ok" => req.bad = {})
  BY DEF AllDestroyed
<1>3. /\ req' \in ReqType /\ req'.pc = "done" /\ req'.answer = a /\ req'.op = "batch"
      /\ req'.todo = {} /\ req'.query = req.query /\ req'.bad = req.bad
  BY <1>1, <1>2, AnswerFacts DEF UnlockedInv, Answers
<1>4. TypeOK' /\ PointOK'
  <2>1. TypeOK'
    BY <1>1, <1>3 DEF UnlockedInv, TypeOK
  <2> QED BY <1>1, <1>3, <2>1 DEF PointOK
<1>5. Alive' = Alive /\ \A g \in Alive : Link(g)' = Link(g)
  BY <1>1 DEF Alive, Link
<1>6. Ids' /\ FilesOK' /\ Ranked'
  BY <1>1, <1>5, StoreShrinks, RankShrinks DEF UnlockedInv
<1>7. TreeOK'
  BY <1>1, <1>3, NotTree
<1>8. BatchOK'
  BY <1>1, <1>2, <1>3 DEF UnlockedInv, BatchOK
<1> QED BY <1>4, <1>6, <1>7, <1>8 DEF UnlockedInv

LEMMA ReturnKeeps ==
  ASSUME UnlockedInv, Return
  PROVE  UnlockedInv'
<1>1. req' = NoReq /\ past' = NoPast /\ stack = <<>> /\ UNCHANGED <<live, stack, metadata>>
      /\ vol' = [v \in Vols |-> IF \E h \in Handles : live[h] = v THEN vol[v] ELSE NoVolume]
  BY DEF Return, At, UnlockedInv, PointOK
<1>2. Alive' = Alive
  BY <1>1 DEF Alive
<1>3. \A g \in Alive : vol'[live[g]] = vol[live[g]] /\ Link(g)' = Link(g)
  <2>1. \A g \in Alive : live[g] \in Vols /\ g \in Handles
    BY AliveVols DEF UnlockedInv
  <2>2. \A g \in Alive : vol'[live[g]] = vol[live[g]]
    BY <1>1, <2>1
  <2> QED BY <1>1, <2>2 DEF Link
<1>4. vol' \in [Vols -> VolType]
  BY <1>1, NoVolumeType DEF UnlockedInv, TypeOK
<1>5. TypeOK'
  BY <1>1, <1>4, NoReqType DEF UnlockedInv, TypeOK
<1>6. PointOK' /\ BatchOK'
  BY <1>1, NoReqType DEF PointOK, BatchOK
<1>7. Ids'
  <2>1. \A g \in Handles : past'.was[g] = NoVol
    BY <1>1, NoReqType
  <2> QED BY <1>1, <1>2, <2>1, NoReqType DEF UnlockedInv, Ids, Alive
<1>8. FilesOK'
  BY <1>1, <1>2, <1>3 DEF UnlockedInv, FilesOK
<1>9. Ranked'
  BY <1>1, <1>2, <1>3, RankShrinks DEF UnlockedInv
<1>10. TreeOK'
  BY <1>1, NoReqType, NotTree
<1> QED BY <1>5, <1>6, <1>7, <1>8, <1>9, <1>10 DEF UnlockedInv
-----------------------------------------------------------------------------
LEMMA InvInit ==
  ASSUME Init
  PROVE  UnlockedInv
<1>1. Alive = {} /\ stack = <<>> /\ Len(stack) = 0 /\ Doomed = {}
  BY DEF Init, Alive, Doomed
<1>2. TypeOK
  <2>1. <<>> \in Seq(FrameType)
    OBVIOUS
  <2> QED BY <2>1, NoReqType, NoVolumeType DEF Init, TypeOK
<1>3. PointOK /\ BatchOK
  BY <1>1, NoReqType DEF Init, PointOK, BatchOK
<1>4. Ids /\ FilesOK
  BY <1>1, NoReqType DEF Init, Ids, FilesOK
<1>5. TreeOK
  <2>1. req.op # "tree" /\ req.pc # "tree"
    BY NoReqType DEF Init
  <2> QED BY <1>1, <2>1 DEF TreeOK
<1>6. Ranked
  <2>1. [v \in Vols |-> 0] \in [Vols -> Nat] /\ 1 \in Nat /\ \A v \in Vols : [u \in Vols |-> 0][v] < 1
    OBVIOUS
  <2>2. RankOK([v \in Vols |-> 0])
    BY <1>1 DEF RankOK
  <2> QED BY <2>1, <2>2 DEF Ranked
<1> QED BY <1>2, <1>3, <1>4, <1>5, <1>6 DEF UnlockedInv

LEMMA InvStep ==
  ASSUME UnlockedInv, [Next]_vars
  PROVE  UnlockedInv'
<1>1. CASE Others
  BY <1>1, OthersKeep
<1>2. CASE Arrival
  BY <1>2, ArrivalKeeps
<1>3. CASE Reading
  BY <1>3, ReadingKeeps
<1>4. CASE TreeList \/ TreeCandidate \/ TreeDestroy
  BY <1>4, TreeListKeeps, TreeCandidateKeeps, TreeDestroyKeeps
<1>5. CASE (\E i \in DOMAIN req.query : DestroyOne(i)) \/ AllDestroyed \/ Return
  BY <1>5, DestroyOneKeeps, AllDestroyedKeeps, ReturnKeeps
<1>6. CASE UNCHANGED vars
  <2>1. Alive' = Alive /\ Doomed' = Doomed /\ \A g \in Alive : Link(g)' = Link(g)
    BY <1>6 DEF vars, Alive, Doomed, Link
  <2>2. TypeOK' /\ PointOK' /\ Ids' /\ FilesOK' /\ BatchOK'
    BY <1>6, <2>1 DEF vars, UnlockedInv, TypeOK, PointOK, Ids, FilesOK, BatchOK
  <2>3. Ranked'
    BY <1>6, <2>1, RankShrinks DEF vars, UnlockedInv
  <2>4. TreeOK'
    BY <1>6, <2>1, TreeShrinks DEF vars, UnlockedInv, Doomed
  <2> QED BY <2>2, <2>3, <2>4 DEF UnlockedInv
<1> QED BY <1>1, <1>2, <1>3, <1>4, <1>5, <1>6 DEF Next, Step, Reading

LEMMA InvHolds == Spec => []UnlockedInv
<1>1. Init => UnlockedInv
  BY InvInit
<1>2. UnlockedInv /\ [Next]_vars => UnlockedInv'
  BY InvStep
<1> QED BY <1>1, <1>2, PTL DEF Spec

LEMMA FilesReadable ==
  ASSUME UnlockedInv
  PROVE  StoredReadable
<1> SUFFICES ASSUME NEW h \in Alive, vol[live[h]].whole
             PROVE  Readable(vol[live[h]].file) /\ vol[live[h]].file[1].of = vol[live[h]].stored
  BY DEF StoredReadable
<1> DEFINE f == vol[live[h]].file
           p == vol[live[h]].stored
<1>1. f \in Seq(Block) /\ p \in Properties
  BY AliveVols DEF UnlockedInv, VolType
<1>2. f # <<>> /\ Size[p] <= Len(f) /\ \A i \in 1..Size[p] : f[i] = [of |-> p, at |-> i]
  BY DEF UnlockedInv, FilesOK, Kept
<1>3. Size[p] \in Nat \ {0} /\ Len(f) \in Nat /\ 1 \in 1..Size[p]
  <2>1. Size[p] \in Nat \ {0}
    BY <1>1, Sizes
  <2> QED BY <1>1, <2>1
<1> HIDE DEF f, p
<1>4. f[1].of = p
  <2>1. f[1] = [of |-> p, at |-> 1]
    BY <1>2, <1>3
  <2> QED BY <2>1
<1> DEFINE q == SubSeq(f, 1, Size[p])
<1>5. Len(q) = Size[p] /\ \A i \in 1..Size[p] : q[i] = f[i]
  <2>1. \A i \in 1..Size[p] : f[i] \in Block
    BY <1>1, <1>2, <1>3
  <2> QED BY <1>1, <1>2, <1>3, <2>1, SubSeqProperties
<1> HIDE DEF q
<1>6. Consistent(q)
  <2>1. q[1].of = p
    BY <1>3, <1>4, <1>5
  <2> QED BY <1>2, <1>5, <2>1 DEF Consistent
<1>7. Readable(f)
  BY <1>2, <1>4, <1>6 DEF Readable, q
<1> QED BY <1>4, <1>7 DEF f, p

\* Every properties file that was never left half written reads as the value that
\* was stored last: for every encoding, however values shrink and grow
\* (volume/metadata.go, writeMetadataFile).
THEOREM StoredReadableHolds == Spec => []StoredReadable
<1>1. UnlockedInv => StoredReadable
  BY FilesReadable
<1> QED BY <1>1, InvHolds, PTL

\* A success of DestroyVolumeAndDescendants or of DestroyVolumes means that what
\* they were asked to destroy is gone, for any number of volumes and of changes
\* by others (repository.go, DestroyVolumeAndDescendants; api/volume_server.go,
\* DestroyVolumes).
THEOREM BulkGoneHolds == Spec => []BulkGone
<1>1. UnlockedInv => BulkGone
  <2> SUFFICES ASSUME UnlockedInv, req.pc = "done", req.answer = "ok"
               PROVE  /\ req.op = "tree" => \A h \in Alive : live[h] \notin past.doomed
                      /\ req.op = "batch" => \A i \in DOMAIN req.query :
                            past.was[req.query[i]] # NoVol => live[req.query[i]] # past.was[req.query[i]]
    BY DEF BulkGone
  <2>1. req.op = "tree" => \A h \in Alive : live[h] \notin past.doomed
    BY DEF UnlockedInv, TreeOK, Doomed
  <2>2. req.op = "batch" => req.todo = {} /\ req.bad = {}
    BY DEF UnlockedInv, BatchOK
  <2>3. req.op = "batch" => \A i \in DOMAIN req.query :
            past.was[req.query[i]] # NoVol => live[req.query[i]] # past.was[req.query[i]]
    BY <2>2 DEF UnlockedInv, BatchOK
  <2> QED BY <2>1, <2>3
<1> QED BY <1>1, InvHolds, PTL

\* DestroyVolumeAndDescendants never lists the descendants of a volume it is at
\* work on, whatever others create and destroy meanwhile: the volumes of the open
\* calls get younger (repository.go, DestroyVolumeAndDescendants).
THEOREM RecursionEndsHolds == Spec => []RecursionEnds
<1>1. UnlockedInv => RecursionEnds
  <2> SUFFICES ASSUME UnlockedInv, NEW i \in 1..Len(stack), NEW j \in 1..Len(stack),
                      stack[i].listed, stack[j].listed, stack[i].v = stack[j].v
               PROVE  i = j
    BY DEF RecursionEnds
  <2>1. PICK rank \in [Vols -> Nat], m \in Nat : RankOK(rank) /\ \A v \in Vols : rank[v] < m
    BY DEF UnlockedInv, Ranked
  <2>2. stack[i].v \in Vols /\ rank[stack[i].v] \in Nat
    BY <2>1 DEF RankOK
  <2>3. ~(i < j) /\ ~(j < i)
    <3>1. ~(i < j)
      BY <2>1, <2>2 DEF RankOK
    <3>2. ~(j < i)
      BY <2>1, <2>2 DEF RankOK
    <3> QED BY <3>1, <3>2
  <2>4. i \in Nat /\ j \in Nat
    BY DEF UnlockedInv, TypeOK
  <2> QED BY <2>3, <2>4
<1> QED BY <1>1, InvHolds, PTL
-----------------------------------------------------------------------------
\* Another client changes a handle: what that means for a request that reads.
Turned(h) ==
    /\ req' = req /\ past'.before = past.before /\ past'.child = past.child
    /\ past'.changes[h] # 0 /\ (past'.changes[h] <= 1 => past.changes[h] = 0)
    /\ past.suspect \subseteq past'.suspect
    /\ \A g \in Handles \ {h} : /\ past'.changes[g] = past.changes[g]
                                /\ g \in past'.suspect => g \in past.suspect
                                /\ live'[g] = live[g]
                                /\ live[g] # NoVol => vol'[live[g]] = vol[live[g]]
    /\ live[h] # NoVol => live'[h] \in {live[h], NoVol}
    /\ live'[h] # live[h] => Unlinked(h)
    /\ h \in Alive' \ past'.suspect => vol'[live'[h]].whole
    /\ req.fd \in Vols => /\ live'[h] = req.fd => live[h] = req.fd
                          /\ \/ live[h] = req.fd /\ h \in past'.suspect
                             \/ LET v == vol[req.fd] IN
                                vol'[req.fd].file = v.file /\ vol'[req.fd].stored = v.stored /\ vol'[req.fd].whole = v.whole

LEMMA PastTurns ==
  ASSUME TypeOK, NEW h \in Handles, NEW suspects \in SUBSET Handles, OthersChange(h, suspects), req.pc # "idle"
  PROVE  /\ past'.before = past.before /\ past'.child = past.child /\ past'.suspect = past.suspect \union suspects
         /\ past'.changes[h] # 0 /\ (past'.changes[h] <= 1 => past.changes[h] = 0)
         /\ \A g \in Handles \ {h} : past'.changes[g] = past.changes[g]
<1>1. past \in PastType
  BY DEF TypeOK
<1> DEFINE c == Changed(h)
           k == [past.changes EXCEPT ![h] = IF @ < 2 THEN @ + 1 ELSE @]
<1>2. c \in PastType /\ c.before = past.before /\ c.child = past.child /\ c.suspect = past.suspect /\ c.changes = k
  BY <1>1 DEF Changed, PastType
<1> HIDE DEF c
<1>3. past' = [c EXCEPT !.others = @ + 1, !.suspect = @ \union suspects]
  BY DEF OthersChange, c
<1>4. past'.before = past.before /\ past'.child = past.child /\ past'.suspect = past.suspect \union suspects /\ past'.changes = k
  BY <1>2, <1>3 DEF PastType
<1>5. past.changes \in [Handles -> 0..2]
  BY <1>1 DEF PastType
<1>6. /\ k[h] = IF past.changes[h] < 2 THEN past.changes[h] + 1 ELSE past.changes[h]
      /\ \A g \in Handles \ {h} : k[g] = past.changes[g]
      /\ past.changes[h] \in 0..2
  BY <1>5
<1> HIDE DEF k
<1>7. k[h] # 0 /\ (k[h] <= 1 => past.changes[h] = 0)
  BY <1>6
<1> QED BY <1>4, <1>6, <1>7

LEMMA DestroyTurns ==
  ASSUME UnlockedInv, NEW h \in Handles, DestroyVolume(h), req.pc # "idle"
  PROVE  Turned(h)
<1>1. h \in Alive /\ Unlinked(h) /\ live' = [live EXCEPT ![h] = NoVol] /\ vol' = Removed(live[h]) /\ req' = req
  BY DEF DestroyVolume, Alive
<1>2. /\ past'.before = past.before /\ past'.child = past.child /\ past'.suspect = past.suspect
      /\ past'.changes[h] # 0 /\ (past'.changes[h] <= 1 => past.changes[h] = 0)
      /\ \A g \in Handles \ {h} : past'.changes[g] = past.changes[g]
  <2>1. OthersChange(h, {}) /\ TypeOK /\ {} \in SUBSET Handles
    BY DEF DestroyVolume, UnlockedInv
  <2>2. past.suspect \union {} = past.suspect
    OBVIOUS
  <2> QED BY <2>1, <2>2, PastTurns
<1>3. Alive' = Alive \ {h} /\ \A g \in Alive' : vol'[live[g]] = vol[live[g]]
  BY <1>1, VanishFacts DEF UnlockedInv
<1>4. \A g \in Handles : live'[g] = IF g = h THEN NoVol ELSE live[g]
  BY <1>1 DEF UnlockedInv, TypeOK
<1>5. \A g \in Handles \ {h} : live[g] # NoVol => vol'[live[g]] = vol[live[g]]
  BY <1>3 DEF Alive
<1>6. req.fd \in Vols => vol'[req.fd] = vol[req.fd] /\ live'[h] # req.fd
  BY <1>1, <1>4, NullIds DEF Removed, UnlockedInv, TypeOK
<1>7. h \notin Alive'
  BY <1>3
<1> QED BY <1>1, <1>2, <1>4, <1>5, <1>6, <1>7 DEF Turned

LEMMA CreateTurns ==
  ASSUME UnlockedInv, NEW h \in Handles, CreateVolume(h), req.pc # "idle"
  PROVE  Turned(h)
<1>0. PICK v : v = NewVol
  OBVIOUS
<1>1. /\ live[h] = NoVol /\ Unlinked(h) /\ req' = req /\ v \in Fresh
      /\ live' = [live EXCEPT ![h] = v]
  BY <1>0 DEF CreateVolume, NewVol
<1>2. PICK r : vol' = [vol EXCEPT ![v] = r] /\ r.whole
  <2>1. PICK l \in Alive \union {NoHandle}, p \in Properties, b \in BOOLEAN :
         vol' = [vol EXCEPT ![v] = [link |-> l, file |-> WriteMetadataFile(Encode(<<>>), Encode(p)), priv |-> b,
                                    stored |-> p, whole |-> TRUE]]
    BY <1>0, NoProperties DEF CreateVolume
  <2>2. [link |-> l, file |-> WriteMetadataFile(Encode(<<>>), Encode(p)), priv |-> b, stored |-> p, whole |-> TRUE].whole
    OBVIOUS
  <2> QED BY <2>1, <2>2, Zenon
<1>3. /\ past'.before = past.before /\ past'.child = past.child /\ past'.suspect = past.suspect
      /\ past'.changes[h] # 0 /\ (past'.changes[h] <= 1 => past.changes[h] = 0)
      /\ \A g \in Handles \ {h} : past'.changes[g] = past.changes[g]
  <2>1. OthersChange(h, {}) /\ TypeOK /\ {} \in SUBSET Handles
    BY DEF CreateVolume, UnlockedInv
  <2>2. past.suspect \union {} = past.suspect
    OBVIOUS
  <2> QED BY <2>1, <2>2, PastTurns
<1>4. v \in Vols /\ v # req.fd /\ \A g \in Handles : live[g] # v
  BY <1>1 DEF Fresh
<1>5. \A g \in Handles : live'[g] = IF g = h THEN v ELSE live[g]
  BY <1>1 DEF UnlockedInv, TypeOK
<1>6. \A u \in Vols : vol'[u] = IF u = v THEN r ELSE vol[u]
  BY <1>2 DEF UnlockedInv, TypeOK
<1>7. \A g \in Handles \ {h} : live[g] # NoVol => vol'[live[g]] = vol[live[g]]
  <2>1. \A g \in Handles : live[g] # NoVol => live[g] \in Vols
    BY DEF UnlockedInv, TypeOK
  <2> QED BY <1>4, <1>6, <2>1
<1>8. vol'[live'[h]].whole
  BY <1>2, <1>4, <1>5, <1>6
<1>9. req.fd \in Vols => vol'[req.fd] = vol[req.fd] /\ live'[h] # req.fd
  BY <1>4, <1>5, <1>6
<1> QED BY <1>1, <1>3, <1>5, <1>7, <1>8, <1>9 DEF Turned

LEMMA SetPropertyTurns ==
  ASSUME UnlockedInv, NEW h \in Handles, NEW n \in Names, NEW t \in Texts, SetProperty(h, n, t), req.pc # "idle"
  PROVE  Turned(h)
<1>1. h \in Alive /\ live' = live /\ req' = req
  BY DEF SetProperty, Alive
<1>2. /\ past'.before = past.before /\ past'.child = past.child /\ past'.suspect = past.suspect \union {h}
      /\ past'.changes[h] # 0 /\ (past'.changes[h] <= 1 => past.changes[h] = 0)
      /\ \A g \in Handles \ {h} : past'.changes[g] = past.changes[g]
  <2>1. OthersChange(h, {h}) /\ TypeOK /\ {h} \in SUBSET Handles
    BY DEF SetProperty, UnlockedInv
  <2> QED BY <2>1, PastTurns
<1>3. \A u \in Vols : u # live[h] => vol'[u] = vol[u]
  <2> DEFINE v == live[h]
             p == UpdateProperty(vol[v].file[1].of, n, t)
  <2>1. vol \in [Vols -> VolType]
    BY DEF UnlockedInv, TypeOK
  <2>2. CASE vol' = [vol EXCEPT ![v].file = WriteMetadataFile(@, Encode(p)), ![v].stored = p]
    BY <2>1, <2>2
  <2>3. ASSUME NEW k \in 1..(Size[p] - 1),
               vol' = [vol EXCEPT ![v].file = WriteMetadataFile(@, SubSeq(Encode(p), 1, k)), ![v].whole = FALSE]
        PROVE  \A u \in Vols : u # v => vol'[u] = vol[u]
    BY <2>1, <2>3
  <2> QED BY <2>2, <2>3 DEF SetProperty
<1>4. \A g \in Handles \ {h} : live[g] # NoVol => vol'[live[g]] = vol[live[g]]
  <2>1. \A g \in Handles \ {h} : live[g] # NoVol => live[g] \in Vols /\ live[g] # live[h]
    BY <1>1 DEF UnlockedInv, TypeOK, Ids, Alive
  <2> QED BY <1>3, <2>1
<1> QED BY <1>1, <1>2, <1>3, <1>4 DEF Turned

LEMMA SetPrivilegedTurns ==
  ASSUME UnlockedInv, AccurateInv, req.op \in Readers, NEW h \in Handles, NEW b \in BOOLEAN, SetPrivileged(h, b)
  PROVE  Turned(h)
<1>0. req.pc # "idle"
  BY DEF UnlockedInv, PointOK, Readers
<1>1. h \in Alive /\ live' = live /\ req' = req
  BY DEF SetPrivileged, Alive
<1>2. /\ past'.before = past.before /\ past'.child = past.child /\ past'.suspect = past.suspect
      /\ past'.changes[h] # 0 /\ (past'.changes[h] <= 1 => past.changes[h] = 0)
      /\ \A g \in Handles \ {h} : past'.changes[g] = past.changes[g]
  <2>1. OthersChange(h, {}) /\ TypeOK /\ {} \in SUBSET Handles
    BY DEF SetPrivileged, UnlockedInv
  <2>2. past.suspect \union {} = past.suspect
    OBVIOUS
  <2> QED BY <1>0, <2>1, <2>2, PastTurns
<1>3. live[h] \in Vols /\ vol \in [Vols -> VolType]
  BY <1>1, AliveVols DEF UnlockedInv, TypeOK
<1>4. \A u \in Vols : vol'[u] = IF u = live[h] THEN [vol[u] EXCEPT !.priv = b] ELSE vol[u]
  BY <1>3 DEF SetPrivileged
<1>5. \A u \in Vols : vol'[u].file = vol[u].file /\ vol'[u].stored = vol[u].stored /\ vol'[u].whole = vol[u].whole
  BY <1>3, <1>4 DEF VolType
<1>6. \A g \in Handles \ {h} : live[g] # NoVol => vol'[live[g]] = vol[live[g]]
  <2>1. \A g \in Handles \ {h} : live[g] # NoVol => live[g] \in Vols /\ live[g] # live[h]
    BY <1>1 DEF UnlockedInv, TypeOK, Ids, Alive
  <2> QED BY <1>4, <2>1
<1>7. h \notin past.suspect => vol'[live[h]].whole
  BY <1>1, <1>3, <1>5 DEF AccurateInv, HistoryOK
<1> QED BY <1>1, <1>2, <1>5, <1>6, <1>7 DEF Turned

LEMMA OthersTurn ==
  ASSUME UnlockedInv, AccurateInv, req.op \in Readers, Others
  PROVE  \E h \in Handles : Turned(h)
<1>1. req.pc # "idle"
  BY DEF UnlockedInv, PointOK, Readers
<1> QED BY <1>1, CreateTurns, DestroyTurns, SetPropertyTurns, SetPrivilegedTurns DEF Others

\* What is told of a handle stays true when a handle changes for the first time.
LEMMA TurnedTold ==
  ASSUME UnlockedInv, HistoryOK, NEW h \in Handles, Turned(h), NEW g \in Handles, ToldTrue(g)
  PROVE  ToldTrue(g)'
<1>1. req' = req /\ past'.before = past.before /\ past.suspect \subseteq past'.suspect
  BY DEF Turned
<1>2. CASE g # h
  <2>1. State(g)' = State(g)
    BY <1>2 DEF Turned, State
  <2>2. past'.changes[g] = past.changes[g]
    BY <1>2 DEF Turned
  <2>3. Truths(g)' = Truths(g)
    BY <1>1, <2>1 DEF Truths, Match
  <2> QED BY <1>1, <2>2, <2>3 DEF ToldTrue
<1>3. CASE g = h
  <2>1. past'.changes[g] <= 1 => past.changes[g] = 0 /\ past.changes[g] <= 1 /\ State(g) = past.before[g]
    BY <1>3 DEF Turned, HistoryOK
  <2>2. State(g) = past.before[g] => Truths(g) \subseteq Truths(g)'
    BY <1>1 DEF Truths, Match
  <2> QED BY <1>1, <2>1, <2>2 DEF ToldTrue
<1> QED BY <1>2, <1>3

\* A volume that has not changed has the parent it had.
LEMMA TurnedParent ==
  ASSUME UnlockedInv, NEW h \in Handles, Turned(h), NEW c \in Handles, c # h
  PROVE  ParentOf(c)' = ParentOf(c) /\ (c \in Alive' <=> c \in Alive)
<1>1. live'[c] = live[c] /\ (live[c] # NoVol => vol'[live[c]] = vol[live[c]])
  BY DEF Turned
<1>2. c \in Alive' <=> c \in Alive
  BY <1>1 DEF Alive
<1>3. CASE live[c] = NoVol
  <2>1. ParentOf(c) = NoHandle
    BY <1>3 DEF ParentOf
  <2>2. ParentOf(c)' = NoHandle
    BY <1>1, <1>3 DEF ParentOf
  <2> QED BY <1>2, <2>1, <2>2
<1>4. CASE live[c] # NoVol
  <2> DEFINE l == vol[live[c]].link
  <2>1. vol'[live'[c]].link = l
    BY <1>1, <1>4
  <2>2. l \in Alive' <=> l \in Alive
    <3>1. CASE l = h
      <4>1. ~Unlinked(h)
        BY <1>4, <3>1 DEF Unlinked, Alive
      <4>2. live'[h] = live[h]
        BY <4>1 DEF Turned
      <4> QED BY <3>1, <4>2 DEF Alive
    <3>2. CASE l # h /\ l \in Handles
      <4>1. live'[l] = live[l]
        BY <3>2 DEF Turned
      <4> QED BY <4>1 DEF Alive
    <3>3. CASE l \notin Handles
      BY <3>3 DEF Alive
    <3> QED BY <3>1, <3>2, <3>3
  <2> HIDE DEF l
  <2>3. ParentOf(c) = IF l \notin Alive THEN NoHandle ELSE l
    BY <1>4 DEF ParentOf, l
  <2>4. ParentOf(c)' = IF l \notin Alive' THEN NoHandle ELSE l
    BY <1>1, <1>4, <2>1 DEF ParentOf
  <2> QED BY <1>2, <2>2, <2>3, <2>4
<1> QED BY <1>2, <1>3, <1>4

\* What others do, one change at a time.
LEMMA TurnedKeeps ==
  ASSUME UnlockedInv, AccurateInv, req.op \in Readers, NEW h \in Handles, Turned(h)
  PROVE  AccurateInv'
<1>1. HistoryOK /\ OpenOK /\ GotOK /\ ChildOK /\ SettledOK
  BY DEF AccurateInv
<1>2. req' = req /\ past'.before = past.before /\ past'.child = past.child /\ past.suspect \subseteq past'.suspect
  BY DEF Turned
<1>3. HistoryOK'
  <2>1. ASSUME NEW g \in Handles, past'.changes[g] = 0 PROVE State(g)' = past'.before[g]
    <3>1. g # h /\ past.changes[g] = 0
      BY <2>1 DEF Turned
    <3>2. State(g)' = State(g)
      BY <3>1 DEF Turned, State
    <3> QED BY <1>1, <1>2, <3>1, <3>2 DEF HistoryOK
  <2>2. ASSUME NEW g \in Alive' \ past'.suspect PROVE vol'[live'[g]].whole
    <3>1. CASE g = h
      BY <3>1 DEF Turned
    <3>2. CASE g # h
      <4>1. g \in Alive \ past.suspect /\ live'[g] = live[g] /\ vol'[live[g]] = vol[live[g]]
        BY <1>2, <3>2 DEF Turned, Alive
      <4> QED BY <1>1, <4>1 DEF HistoryOK
    <3> QED BY <3>1, <3>2
  <2> QED BY <2>1, <2>2 DEF HistoryOK
<1>4. OpenOK'
  <2> SUFFICES ASSUME req.pc \in {"read", "flag"}
               PROVE  /\ req.fd \in Vols
                      /\ \A g \in Handles : live'[g] = req.fd => g = req.h
                      /\ past'.changes[req.h] = 0 => live'[req.h] = req.fd
                      /\ past'.changes[req.h] = 1 => live'[req.h] \in {req.fd, NoVol}
    BY <1>2 DEF OpenOK
  <2>1. /\ req.fd \in Vols /\ req.h \in Handles /\ req.fd # NoVol
        /\ \A g \in Handles : live[g] = req.fd => g = req.h
        /\ past.changes[req.h] = 0 => live[req.h] = req.fd
        /\ past.changes[req.h] = 1 => live[req.h] \in {req.fd, NoVol}
    BY <1>1, NullIds DEF OpenOK, UnlockedInv, PointOK
  <2>2. \A g \in Handles : live'[g] = req.fd => live[g] = req.fd
    BY <2>1 DEF Turned
  <2>3. past'.changes[req.h] = 0 => live'[req.h] = req.fd
    BY <2>1 DEF Turned
  <2>4. past'.changes[req.h] = 1 => live'[req.h] \in {req.fd, NoVol}
    <3>1. CASE req.h = h
      BY <2>1, <3>1 DEF Turned
    <3>2. CASE req.h # h
      BY <2>1, <3>2 DEF Turned
    <3> QED BY <3>1, <3>2
  <2> QED BY <2>1, <2>2, <2>3, <2>4
<1>5. GotOK'
  <2> SUFFICES ASSUME req.h \notin past'.suspect, req.pc \in {"read", "flag"}
               PROVE  /\ req.pc = "read" => LET v == vol'[req.fd] IN
                           Kept(v) /\ v.whole /\ Len(req.got) < Size[v.stored] /\ Prefix(req.got, v.stored)
                      /\ req.pc = "flag" => req.got[1].of = vol'[req.fd].stored
    BY <1>2 DEF GotOK
  <2>1. req.h \notin past.suspect /\ req.fd \in Vols /\ (live[h] = req.fd => h = req.h)
    BY <1>1, <1>2 DEF OpenOK
  <2>2. vol'[req.fd].file = vol[req.fd].file /\ vol'[req.fd].stored = vol[req.fd].stored /\ vol'[req.fd].whole = vol[req.fd].whole
    BY <2>1 DEF Turned
  <2>3. Kept(vol[req.fd]) => Kept(vol'[req.fd])
    BY <2>2 DEF Kept
  <2> QED BY <1>1, <2>1, <2>2, <2>3 DEF GotOK
<1>6. ChildOK'
  <2> SUFFICES ASSUME req.op = "parent", past'.changes[past.child] = 0
               PROVE  /\ req.pc = "link" => past.child \in Alive'
                      /\ req.pc \in Inside => ParentOf(past.child)' = req.h
                      /\ req.pc = "done" => ParentFound'
    BY <1>1, <1>2 DEF ChildOK
  <2>1. past.child \in Handles /\ past.child # h /\ past.changes[past.child] = 0
    BY <1>1 DEF ChildOK, Turned
  <2>2. ParentOf(past.child)' = ParentOf(past.child) /\ (past.child \in Alive' <=> past.child \in Alive)
    <3> DEFINE c == past.child
    <3>1. ParentOf(c)' = ParentOf(past.child)'
      BY <1>2
    <3> QED BY <1>2, <2>1, TurnedParent
  <2>3. ParentFound => ParentFound'
    BY <1>2, <2>2 DEF ParentFound
  <2> QED BY <1>1, <2>1, <2>2, <2>3 DEF ChildOK
<1>7. SettledOK'
  <2>1. Settled' = Settled /\ Settled \subseteq Handles
    BY <1>2 DEF Settled
  <2>2. ASSUME NEW g \in Settled, req.op = "parent" => req.answer = "found" PROVE ToldTrue(g)'
    BY <1>1, <2>1, <2>2, TurnedTold DEF SettledOK
  <2> QED BY <1>1, <1>2, <2>1, <2>2 DEF SettledOK
<1> QED BY <1>3, <1>4, <1>5, <1>6, <1>7 DEF AccurateInv

LEMMA OthersAccurate ==
  ASSUME UnlockedInv, AccurateInv, Others
  PROVE  AccurateInv'
<1>1. CASE req.op \in Readers
  BY <1>1, OthersTurn, TurnedKeeps
<1>2. CASE req.op \notin Readers
  <2>1. req' = req
    BY DEF Others, CreateVolume, DestroyVolume, SetProperty, SetPrivileged
  <2> QED BY <1>2, <2>1 DEF AccurateInv
<1> QED BY <1>1, <1>2

\* A request that reads comes in: it has told nothing, and nothing has changed.
LEMMA BeginAccurate ==
  ASSUME UnlockedInv, NEW r \in ReqType, NEW h \in Handles \union {NoHandle}, Begin(r, h),
         r.pc \in {"lookup", "readDir"}, r.out = {}, r.op = "parent" => h \in Handles /\ r.h = h
  PROVE  AccurateInv'
<1> DEFINE before == [g \in Handles |-> State(g)]
           suspect == {g \in Alive : ~vol[live[g]].whole}
           doomed == IF r.op = "tree" THEN Lineage(h) ELSE {}
           child == IF r.op = "parent" THEN h ELSE NoHandle
<1>1. req' = r /\ UNCHANGED <<live, vol>>
  BY DEF Begin, store
<1>2. past' = [NoPast EXCEPT !.before = before, !.was = live, !.suspect = suspect, !.doomed = doomed, !.child = child]
  BY DEF Begin
<1> HIDE DEF before, suspect, doomed, child
<1>3. /\ past'.before = before /\ past'.suspect = suspect /\ past'.child = child
      /\ past'.changes = [g \in Handles |-> 0]
  BY <1>2 DEF NoPast
<1>4. HistoryOK'
  <2>1. \A g \in Handles : State(g)' = State(g) /\ before[g] = State(g)
    BY <1>1 DEF State, before
  <2>2. \A g \in Alive' \ suspect : vol'[live'[g]].whole
    BY <1>1 DEF Alive, suspect
  <2> QED BY <1>3, <2>1, <2>2 DEF HistoryOK
<1>5. OpenOK' /\ GotOK' /\ ChildOK'
  BY <1>1, <1>3 DEF OpenOK, GotOK, ChildOK, Inside, child
<1>6. SettledOK'
  <2>1. Settled' = {}
    BY <1>1 DEF Settled, Inside
  <2> QED BY <1>1, <2>1 DEF SettledOK, Inside
<1> QED BY <1>4, <1>5, <1>6 DEF AccurateInv

LEMMA ArrivalAccurate ==
  ASSUME UnlockedInv, Arrival
  PROVE  AccurateInv'
<1>1. ASSUME NEW h \in Handles, GetVolume(h) PROVE AccurateInv'
  <2> DEFINE r == [NoReq EXCEPT !.op = "get", !.pc = "lookup", !.h = h]
  <2>1. r \in ReqType /\ r.op = "get" /\ r.pc = "lookup" /\ r.out = {} /\ r.h = h
    BY NoReqType DEF NoReq, ReqType
  <2>2. Begin(r, h)
    BY <1>1 DEF GetVolume
  <2> HIDE DEF r
  <2> QED BY <2>1, <2>2, BeginAccurate
<1>2. ASSUME NEW h \in Handles, VolumeParent(h) PROVE AccurateInv'
  <2> DEFINE r == [NoReq EXCEPT !.op = "parent", !.pc = "lookup", !.h = h]
  <2>1. r \in ReqType /\ r.op = "parent" /\ r.pc = "lookup" /\ r.out = {} /\ r.h = h
    BY NoReqType DEF NoReq, ReqType
  <2>2. Begin(r, h)
    BY <1>2 DEF VolumeParent
  <2> HIDE DEF r
  <2> QED BY <2>1, <2>2, BeginAccurate
<1>3. ASSUME NEW q \in Properties, ListVolumes(q) PROVE AccurateInv'
  <2> DEFINE r == [NoReq EXCEPT !.op = "list", !.pc = "readDir", !.query = q]
  <2>1. r \in ReqType /\ r.op = "list" /\ r.pc = "readDir" /\ r.out = {}
    BY NoReqType DEF NoReq, ReqType
  <2>2. Begin(r, NoHandle)
    BY <1>3 DEF ListVolumes
  <2> HIDE DEF r
  <2> QED BY <2>1, <2>2, BeginAccurate
<1>4. ASSUME NEW h \in Handles, DestroyVolumeAndDescendants(h) PROVE AccurateInv'
  <2>1. req'.op = "tree"
    BY <1>4 DEF DestroyVolumeAndDescendants, Begin, NoReq
  <2> QED BY <2>1 DEF AccurateInv, Readers
<1>5. ASSUME NEW l \in Lists, DestroyVolumes(l) PROVE AccurateInv'
  <2>1. req'.op = "batch"
    BY <1>5 DEF DestroyVolumes, Begin, NoReq
  <2> QED BY <2>1 DEF AccurateInv, Readers
<1> QED BY <1>1, <1>2, <1>3, <1>4, <1>5 DEF Arrival

\* The steps of the requests that destroy.
LEMMA DestroyingAccurate ==
  ASSUME UnlockedInv, \/ TreeList \/ TreeCandidate \/ TreeDestroy
                      \/ (\E i \in DOMAIN req.query : DestroyOne(i)) \/ AllDestroyed \/ Return
  PROVE  AccurateInv'
<1>1. req \in ReqType
  BY DEF UnlockedInv, TypeOK
<1>2. CASE TreeList \/ TreeCandidate \/ TreeDestroy
  <2>1. req.op = "tree"
    BY <1>2 DEF TreeList, TreeCandidate, TreeDestroy, At, UnlockedInv, PointOK
  <2>2. (\E a : Answer(a)) \/ req' = req
    BY <1>2 DEF TreeList, TreeCandidate, TreeDestroy, TreeFails
  <2>3. req'.op = req.op
    BY <1>1, <2>2 DEF Answer, ReqType
  <2> QED BY <2>1, <2>3 DEF AccurateInv, Readers
<1>3. CASE (\E i \in DOMAIN req.query : DestroyOne(i)) \/ AllDestroyed
  <2>1. req.op = "batch"
    BY <1>3 DEF DestroyOne, AllDestroyed, At, UnlockedInv, PointOK
  <2>2. (\E a : Answer(a)) \/ (\E i : req' = [req EXCEPT !.todo = @ \ {i}] \/ req' = [req EXCEPT !.todo = @ \ {i}, !.bad = @ \union {i}])
    BY <1>3 DEF DestroyOne, AllDestroyed
  <2>3. req'.op = req.op
    BY <1>1, <2>2 DEF Answer, ReqType
  <2> QED BY <2>1, <2>3 DEF AccurateInv, Readers
<1>4. CASE Return
  <2>1. req'.op = ""
    BY <1>4, NoReqType DEF Return
  <2> QED BY <2>1 DEF AccurateInv, Readers
<1> QED BY <1>2, <1>3, <1>4
-----------------------------------------------------------------------------
\* The steps of the requests that read: they leave the volumes and the history as
\* they are.
Still == UNCHANGED <<live, vol, past>>

LEMMA HistoryStays ==
  ASSUME HistoryOK, Still
  PROVE  HistoryOK'
<1>1. \A g \in Handles : State(g)' = State(g)
  BY DEF State, Still
<1> QED BY <1>1 DEF HistoryOK, Alive, Still

LEMMA ToldStays ==
  ASSUME Still, req'.query = req.query, req'.out = req.out, NEW g \in Handles, ToldTrue(g)
  PROVE  ToldTrue(g)'
<1>1. State(g)' = State(g) /\ past' = past
  BY DEF State, Still
<1>2. Truths(g)' = Truths(g)
  BY <1>1 DEF Truths, Match
<1> QED BY <1>1, <1>2 DEF ToldTrue

\* Nothing is told of a handle without a volume: that is true.
LEMMA AbsentTold ==
  ASSUME NEW g \in Handles, live[g] = NoVol, \A r \in req.out : r.h # g
  PROVE  ToldTrue(g)
<1>1. State(g) = Absent /\ ~Absent.found
  BY DEF State, Absent
<1>2. Match(State(g)) = Absent
  BY <1>1 DEF Match
<1> QED BY <1>2 DEF ToldTrue, Truths

LEMMA SettledGrows ==
  ASSUME SettledOK, Still, req'.op = req.op, req'.query = req.query, req'.out = req.out,
         Settled \subseteq Settled', req.op = "list" \/ Settled = {},
         (req.op = "parent" => req'.answer = "found") => \A g \in Settled' \ Settled : ToldTrue(g),
         req.op = "list" /\ req'.pc \in Inside => req'.h \notin req'.todo,
         req.op = "list" /\ req'.pc = "done" => req'.todo = {}
  PROVE  SettledOK'
<1>1. ASSUME NEW g \in Settled', req.op = "parent" => req'.answer = "found" PROVE ToldTrue(g)'
  <2>1. g \in Handles
    BY DEF Settled
  <2>2. ToldTrue(g)
    BY <1>1 DEF SettledOK
  <2> QED BY <2>1, <2>2, ToldStays
<1> QED BY <1>1 DEF SettledOK

\* GetVolume or VolumeParent ends without a volume.
LEMMA EndAccurate ==
  ASSUME UnlockedInv, AccurateInv, Still, req.op \in {"get", "parent"}, req.pc # "done", req.h \in Handles,
         NEW a \in Answers, Answer(a),
         req.op = "get" => ToldTrue(req.h),
         req.op = "parent" => a # "found",
         req.op = "parent" /\ past.changes[past.child] = 0 =>
            IF ParentOf(past.child) = NoHandle THEN a = IF past.child \in Alive THEN "notFound" ELSE "noVolume"
            ELSE ParentOf(past.child) \in past.suspect
  PROVE  AccurateInv'
<1>1. HistoryOK /\ ChildOK /\ SettledOK
  BY DEF AccurateInv, Readers
<1>2. /\ req'.pc = "done" /\ req'.answer = a
      /\ req'.op = req.op /\ req'.h = req.h /\ req'.todo = req.todo /\ req'.query = req.query /\ req'.out = req.out
  BY AnswerFacts DEF UnlockedInv
<1>3. OpenOK' /\ GotOK'
  BY <1>2 DEF OpenOK, GotOK
<1>4. ChildOK'
  <2>1. ParentOf(past.child)' = ParentOf(past.child) /\ Alive' = Alive /\ past' = past
    BY DEF ParentOf, Alive, Still
  <2>2. req.op = "parent" /\ past.changes[past.child] = 0 => ParentFound'
    BY <1>2, <2>1 DEF ParentFound
  <2> QED BY <1>1, <1>2, <2>1, <2>2 DEF ChildOK, Inside
<1>5. SettledOK'
  <2>1. Settled = {} /\ Settled' = {req.h}
    BY <1>2 DEF Settled
  <2> QED BY <1>1, <1>2, <2>1, SettledGrows
<1>6. HistoryOK'
  BY <1>1, HistoryStays
<1> QED BY <1>3, <1>4, <1>5, <1>6 DEF AccurateInv

\* ListVolumes leaves a volume out.
LEMMA SkipAccurate ==
  ASSUME UnlockedInv, AccurateInv, Still, req.op = "list", req.pc \in Inside, req.h \in Handles,
         req'.op = req.op, req'.pc = "next", req'.todo = req.todo, req'.query = req.query, req'.out = req.out,
         ToldTrue(req.h)
  PROVE  AccurateInv'
<1>1. HistoryOK /\ SettledOK
  BY DEF AccurateInv, Readers
<1>2. OpenOK' /\ GotOK' /\ ChildOK'
  BY DEF OpenOK, GotOK, ChildOK
<1>3. SettledOK'
  <2>1. Settled' = Settled \union {req.h}
    <3>1. Settled = {g \in Handles : g \notin req.todo \union {req.h}}
      BY DEF Settled, Inside
    <3>2. Settled' = {g \in Handles : g \notin req.todo}
      BY DEF Settled
    <3>3. req.h \notin req.todo
      BY <1>1 DEF SettledOK
    <3> QED BY <3>1, <3>2, <3>3
  <2> QED BY <1>1, <2>1, SettledGrows DEF Inside
<1>4. HistoryOK'
  BY <1>1, HistoryStays
<1> QED BY <1>2, <1>3, <1>4 DEF AccurateInv

\* Nothing has been told of the volume that is being read.
LEMMA NotYetTold ==
  ASSUME SettledOK, req.pc \in Inside \union {"lookup", "link"}, NEW r \in req.out
  PROVE  r.h # req.h
<1>1. req.h \notin Settled
  BY DEF Settled, Inside
<1> QED BY <1>1 DEF SettledOK

LEMMA MissingAccurate ==
  ASSUME UnlockedInv, AccurateInv, Still, req.op \in Readers, req.pc \in Inside, req.h \in Handles,
         live[req.h] = NoVol, Missing
  PROVE  AccurateInv'
<1>1. ToldTrue(req.h)
  <2>1. SettledOK
    BY DEF AccurateInv
  <2>2. \A r \in req.out : r.h # req.h
    BY <2>1, NotYetTold
  <2> QED BY <2>2, AbsentTold
<1>2. req.pc # "done"
  BY DEF Inside
<1>3. CASE req.op = "get"
  <2>1. Answer("notFound") /\ "notFound" \in Answers
    BY <1>3 DEF Missing, Answers
  <2> QED BY <1>1, <1>2, <1>3, <2>1, EndAccurate
<1>4. CASE req.op = "parent"
  <2>1. Answer("corrupted") /\ "corrupted" \in Answers
    BY <1>4 DEF Missing, Answers
  <2>2. past.changes[past.child] # 0
    <3>1. past.changes[past.child] = 0 => ParentOf(past.child) = req.h
      BY <1>4 DEF AccurateInv, ChildOK
    <3>2. req.h \notin Alive /\ req.h # NoHandle
      BY NullIds DEF Alive
    <3>3. ParentOf(past.child) \in Alive \union {NoHandle}
      BY DEF ParentOf
    <3> QED BY <3>1, <3>2, <3>3
  <2> QED BY <1>2, <1>4, <2>1, <2>2, EndAccurate
<1>5. CASE req.op = "list"
  <2>1. req' = [req EXCEPT !.pc = "next", !.fd = NoVol, !.got = <<>>]
    BY <1>5 DEF Missing
  <2>2. req'.op = req.op /\ req'.pc = "next" /\ req'.todo = req.todo /\ req'.query = req.query /\ req'.out = req.out
    BY <2>1 DEF UnlockedInv, TypeOK, ReqType
  <2> QED BY <1>1, <1>5, <2>2, SkipAccurate
<1> QED BY <1>3, <1>4, <1>5 DEF Readers

LEMMA CorruptAccurate ==
  ASSUME UnlockedInv, AccurateInv, Still, req.op \in Readers, req.pc \in Inside, req.h \in Handles,
         req.h \in past.suspect, Corrupt
  PROVE  AccurateInv'
<1>1. ToldTrue(req.h)
  BY DEF ToldTrue
<1>2. req.pc # "done"
  BY DEF Inside
<1>3. CASE req.op = "get"
  <2>1. Answer("error") /\ "error" \in Answers
    BY <1>3 DEF Corrupt, Answers
  <2> QED BY <1>1, <1>2, <1>3, <2>1, EndAccurate
<1>4. CASE req.op = "parent"
  <2>1. Answer("corrupted") /\ "corrupted" \in Answers
    BY <1>4 DEF Corrupt, Answers
  <2>2. past.changes[past.child] = 0 => ParentOf(past.child) = req.h
    BY <1>4 DEF AccurateInv, ChildOK
  <2>3. req.h # NoHandle
    BY NullIds
  <2> QED BY <1>2, <1>4, <2>1, <2>2, <2>3, EndAccurate
<1>5. CASE req.op = "list"
  <2>1. req' = [req EXCEPT !.bad = @ \union {req.h}, !.pc = "next", !.fd = NoVol, !.got = <<>>]
    BY <1>5 DEF Corrupt
  <2>2. req'.op = req.op /\ req'.pc = "next" /\ req'.todo = req.todo /\ req'.query = req.query /\ req'.out = req.out
    BY <2>1 DEF UnlockedInv, TypeOK, ReqType
  <2> QED BY <1>1, <1>5, <2>2, SkipAccurate
<1> QED BY <1>3, <1>4, <1>5 DEF Readers

LEMMA LookupVolumeAccurate ==
  ASSUME UnlockedInv, AccurateInv, LookupVolume
  PROVE  AccurateInv'
<1>1. Still /\ req.pc = "lookup" /\ req.op \in {"get", "parent"} /\ req.op \in Readers /\ req.h \in Handles /\ req \in ReqType
  BY DEF LookupVolume, At, Still, store, UnlockedInv, PointOK, TypeOK, Readers
<1>2. HistoryOK /\ ChildOK /\ SettledOK
  BY <1>1 DEF AccurateInv
<1>3. CASE live[req.h] = NoVol
  <2>1. PICK a \in {"notFound", "noVolume"} : Answer(a) /\ (a = "notFound" <=> req.op = "get")
    BY <1>3 DEF LookupVolume
  <2>2. ToldTrue(req.h)
    <3>1. \A r \in req.out : r.h # req.h
      BY <1>1, <1>2, NotYetTold
    <3> QED BY <1>1, <1>3, <3>1, AbsentTold
  <2>3. req.op = "parent" => ParentOf(past.child) = NoHandle /\ past.child \notin Alive
    BY <1>1, <1>2, <1>3 DEF ChildOK, ParentOf, Alive
  <2>4. a \in Answers /\ a # "found" /\ req.pc # "done" /\ (req.op = "parent" => a = "noVolume")
    BY <1>1, <2>1 DEF Answers
  <2> QED BY <1>1, <2>1, <2>2, <2>3, <2>4, EndAccurate
<1>4. CASE live[req.h] # NoVol
  <2>1. /\ req'.op = req.op /\ req'.h = req.h /\ req'.todo = req.todo /\ req'.query = req.query /\ req'.out = req.out
        /\ req'.pc = IF req.op = "get" THEN "properties" ELSE "link"
    BY <1>1, <1>4 DEF LookupVolume, Go, ReqType
  <2>2. OpenOK' /\ GotOK'
    BY <2>1 DEF OpenOK, GotOK
  <2>3. ChildOK'
    <3>1. past' = past /\ Alive' = Alive /\ req.h \in Alive
      BY <1>1, <1>4 DEF Still, Alive
    <3> QED BY <1>1, <1>2, <2>1, <3>1 DEF ChildOK, Inside
  <2>4. Settled = {} /\ Settled' = {}
    BY <1>1, <2>1 DEF Settled, Inside
  <2>5. SettledOK'
    BY <1>1, <1>2, <2>1, <2>4, SettledGrows
  <2>6. HistoryOK'
    BY <1>1, <1>2, HistoryStays
  <2> QED BY <2>2, <2>3, <2>5, <2>6 DEF AccurateInv
<1> QED BY <1>3, <1>4

LEMMA ReadDirAccurate ==
  ASSUME UnlockedInv, AccurateInv, ReadDir
  PROVE  AccurateInv'
<1>1. Still /\ req.pc = "readDir" /\ req.op = "list" /\ req.op \in Readers /\ req \in ReqType
  BY DEF ReadDir, At, Still, store, UnlockedInv, PointOK, TypeOK, Readers
<1>2. HistoryOK /\ SettledOK
  BY <1>1 DEF AccurateInv
<1>3. req'.op = req.op /\ req'.todo = Alive /\ req'.query = req.query /\ req'.out = req.out /\ req'.pc = "next"
  BY <1>1 DEF ReadDir, ReqType
<1>4. OpenOK' /\ GotOK' /\ ChildOK'
  BY <1>1, <1>3 DEF OpenOK, GotOK, ChildOK
<1>5. SettledOK'
  <2>1. Settled = {} /\ Settled' = Handles \ Alive
    BY <1>1, <1>3 DEF Settled, Inside
  <2>2. req.out = {}
    BY <1>2, <2>1 DEF SettledOK
  <2>3. \A g \in Handles \ Alive : ToldTrue(g)
    BY <2>2, AbsentTold DEF Alive
  <2> QED BY <1>1, <1>2, <1>3, <2>1, <2>3, SettledGrows DEF Inside
<1>6. HistoryOK'
  BY <1>1, <1>2, HistoryStays
<1> QED BY <1>4, <1>5, <1>6 DEF AccurateInv

LEMMA NextVolumeAccurate ==
  ASSUME UnlockedInv, AccurateInv, NextVolume
  PROVE  AccurateInv'
<1>1. Still /\ req.pc = "next" /\ req.op = "list" /\ req.op \in Readers /\ req \in ReqType /\ req.todo \subseteq Handles
  BY DEF NextVolume, At, Still, store, UnlockedInv, PointOK, TypeOK, Readers
<1>2. HistoryOK /\ SettledOK
  BY <1>1 DEF AccurateInv
<1>3. /\ req'.op = req.op /\ req'.query = req.query /\ req'.out = req.out
      /\ \/ \E h \in req.todo : req'.todo = req.todo \ {h} /\ req'.h = h /\ req'.pc = "properties"
         \/ req.todo = {} /\ req'.todo = {} /\ req'.pc = "done"
  <2>1. ASSUME NEW h \in req.todo, req' = [req EXCEPT !.todo = @ \ {h}, !.h = h, !.pc = "properties"]
        PROVE  /\ req'.op = req.op /\ req'.query = req.query /\ req'.out = req.out
               /\ req'.todo = req.todo \ {h} /\ req'.h = h /\ req'.pc = "properties"
    BY <1>1, <2>1 DEF ReqType
  <2>2. ASSUME Answer("ok")
        PROVE  /\ req'.op = req.op /\ req'.query = req.query /\ req'.out = req.out
               /\ req'.todo = req.todo /\ req'.pc = "done"
    BY <2>2, AnswerFacts DEF Answers, UnlockedInv
  <2> QED BY <2>1, <2>2 DEF NextVolume
<1>4. OpenOK' /\ GotOK' /\ ChildOK'
  BY <1>1, <1>3 DEF OpenOK, GotOK, ChildOK
<1>5. SettledOK'
  <2>1. Settled' = Settled
    <3>1. Settled = {g \in Handles : g \notin req.todo}
      BY <1>1 DEF Settled, Inside
    <3>2. CASE req.todo = {} /\ req'.todo = {} /\ req'.pc = "done"
      BY <1>1, <1>3, <3>1, <3>2 DEF Settled, Inside
    <3>3. ASSUME NEW h \in req.todo, req'.todo = req.todo \ {h}, req'.h = h, req'.pc = "properties" PROVE Settled' = Settled
      <4>1. Settled' = {g \in Handles : g \notin req'.todo \union {h}}
        BY <1>1, <1>3, <3>3 DEF Settled, Inside
      <4> QED BY <3>1, <3>3, <4>1
    <3> QED BY <1>3, <3>2, <3>3
  <2>2. (req'.pc \in Inside => req'.h \notin req'.todo) /\ (req'.pc = "done" => req'.todo = {})
    BY <1>3 DEF Inside
  <2> QED BY <1>1, <1>2, <1>3, <2>1, <2>2, SettledGrows
<1>6. HistoryOK'
  BY <1>1, <1>2, HistoryStays
<1> QED BY <1>4, <1>5, <1>6 DEF AccurateInv

LEMMA EvalSymlinksAccurate ==
  ASSUME UnlockedInv, AccurateInv, EvalSymlinks
  PROVE  AccurateInv'
<1>1. Still /\ req.pc = "link" /\ req.op = "parent" /\ req.op \in Readers /\ req.h \in Handles /\ req \in ReqType
  BY DEF EvalSymlinks, At, Still, store, UnlockedInv, PointOK, TypeOK, Readers
<1>2. HistoryOK /\ ChildOK /\ SettledOK
  BY <1>1 DEF AccurateInv
<1>3. past.child = req.h /\ past.child \in Handles
  BY <1>1, <1>2 DEF ChildOK
<1>4. CASE ParentOf(req.h) = NoHandle
  <2>1. Answer("notFound") /\ "notFound" \in Answers
    BY <1>4 DEF EvalSymlinks, Answers
  <2>2. past.changes[past.child] = 0 => past.child \in Alive
    BY <1>1, <1>2 DEF ChildOK
  <2> QED BY <1>1, <1>3, <1>4, <2>1, <2>2, EndAccurate
<1>5. CASE ParentOf(req.h) # NoHandle
  <2>1. /\ req'.op = req.op /\ req'.query = req.query /\ req'.out = req.out
        /\ req'.h = ParentOf(req.h) /\ req'.pc = "properties"
    BY <1>1, <1>5 DEF EvalSymlinks, ReqType
  <2>2. OpenOK' /\ GotOK'
    BY <2>1 DEF OpenOK, GotOK
  <2>3. ChildOK'
    <3>1. past' = past /\ ParentOf(past.child)' = ParentOf(past.child)
      BY <1>1 DEF ParentOf, Alive, Still
    <3> QED BY <1>1, <1>3, <2>1, <3>1 DEF ChildOK
  <2>4. Settled = {} /\ Settled' = {}
    BY <1>1, <2>1 DEF Settled
  <2>5. SettledOK'
    BY <1>1, <1>2, <2>1, <2>4, SettledGrows
  <2>6. HistoryOK'
    BY <1>1, <1>2, HistoryStays
  <2> QED BY <2>2, <2>3, <2>5, <2>6 DEF AccurateInv
<1> QED BY <1>4, <1>5

\* The file is read on.
LEMMA ReadOnAccurate ==
  ASSUME UnlockedInv, AccurateInv, Still, req.op \in Readers, req.pc \in Inside, req'.pc \in Inside,
         req'.op = req.op, req'.h = req.h, req'.todo = req.todo, req'.query = req.query, req'.out = req.out,
         OpenOK', GotOK'
  PROVE  AccurateInv'
<1>1. HistoryOK /\ ChildOK /\ SettledOK
  BY DEF AccurateInv
<1>2. ChildOK'
  <2>1. past' = past /\ ParentOf(past.child)' = ParentOf(past.child)
    BY DEF ParentOf, Alive, Still
  <2> QED BY <1>1, <2>1 DEF ChildOK, Inside
<1>3. SettledOK'
  <2>1. Settled' = Settled /\ (req.op = "list" \/ Settled = {})
    BY DEF Settled, Inside
  <2>2. req'.pc # "done"
    BY DEF Inside
  <2>3. req.op = "list" => req.h \notin req.todo
    BY <1>1 DEF SettledOK
  <2> QED BY <1>1, <2>1, <2>2, <2>3, SettledGrows
<1>4. HistoryOK'
  BY <1>1, HistoryStays
<1> QED BY <1>2, <1>3, <1>4 DEF AccurateInv

LEMMA OpenPropertiesAccurate ==
  ASSUME UnlockedInv, AccurateInv, OpenProperties
  PROVE  AccurateInv'
<1>1. Still /\ req.pc = "properties" /\ req.pc \in Inside /\ req.op \in Readers /\ req.h \in Handles /\ req \in ReqType
  BY DEF OpenProperties, At, Still, store, UnlockedInv, PointOK, TypeOK, Readers, Inside
<1>2. CASE live[req.h] = NoVol
  BY <1>1, <1>2, MissingAccurate DEF OpenProperties
<1>3. CASE live[req.h] # NoVol
  <2>1. /\ req'.op = req.op /\ req'.h = req.h /\ req'.todo = req.todo /\ req'.query = req.query /\ req'.out = req.out
        /\ req'.pc = "read" /\ req'.fd = live[req.h] /\ req'.got = <<>>
    BY <1>1, <1>3 DEF OpenProperties, ReqType
  <2>2. req.h \in Alive /\ live[req.h] \in Vols /\ past' = past /\ live' = live /\ vol' = vol
    BY <1>1, <1>3 DEF Alive, Still, UnlockedInv, TypeOK
  <2>3. OpenOK'
    <3>1. \A g \in Handles : live[g] = live[req.h] => g = req.h
      BY <1>3, <2>2 DEF UnlockedInv, Ids, Alive
    <3> QED BY <2>1, <2>2, <3>1 DEF OpenOK
  <2>4. GotOK'
    <3> DEFINE v == vol[live[req.h]]
    <3>1. Kept(v) /\ (req.h \notin past.suspect => v.whole)
      BY <1>1, <2>2 DEF UnlockedInv, FilesOK, AccurateInv, HistoryOK
    <3>2. Len(<<>>) < Size[v.stored] /\ Prefix(<<>>, v.stored)
      <4>1. v.stored \in Properties
        BY <2>2, AliveVols DEF UnlockedInv, VolType
      <4>2. Size[v.stored] \in Nat \ {0}
        BY <4>1, Sizes
      <4> QED BY <4>2 DEF Prefix
    <3> HIDE DEF v
    <3>3. vol'[req'.fd] = v
      BY <2>1, <2>2 DEF v
    <3> QED BY <2>1, <2>2, <3>1, <3>2, <3>3 DEF GotOK
  <2>5. req'.pc \in Inside
    BY <2>1 DEF Inside
  <2> QED BY <1>1, <2>1, <2>3, <2>4, <2>5, ReadOnAccurate
<1> QED BY <1>2, <1>3

\* A block that is read of a file that is not suspect is a block of the value that
\* was stored.
LEMMA NextBlock ==
  ASSUME NEW v \in VolType, NEW got \in Seq(Block), Kept(v), v.whole, Len(got) < Size[v.stored], Prefix(got, v.stored)
  PROVE  LET n == Len(got) + 1
             more == Append(got, v.file[n]) IN
         /\ n <= Len(v.file)
         /\ Prefix(more, v.stored) /\ Consistent(more)
         /\ more[1].of = v.stored
         /\ ~Complete(more) => Len(more) < Size[v.stored]
<1> DEFINE p == v.stored
           n == Len(got) + 1
           more == Append(got, v.file[n])
<1>1. p \in Properties /\ v.file \in Seq(Block) /\ Len(got) \in Nat /\ Len(v.file) \in Nat
  BY DEF VolType
<1>2. Size[p] \in Nat \ {0}
  BY <1>1, Sizes
<1>3. Size[p] <= Len(v.file) /\ \A i \in 1..Size[p] : v.file[i] = [of |-> p, at |-> i]
  BY DEF Kept
<1> HIDE DEF p
<1>4. n \in 1..Size[p] /\ n <= Len(v.file)
  BY <1>1, <1>2, <1>3 DEF p
<1>5. v.file[n] = [of |-> p, at |-> n]
  BY <1>3, <1>4
<1>6. Len(more) = n /\ \A i \in 1..n : more[i] = IF i = n THEN v.file[n] ELSE got[i]
  BY <1>1
<1>7. Prefix(more, p)
  <2>1. ASSUME NEW i \in 1..n PROVE more[i] = [of |-> p, at |-> i]
    <3>1. CASE i = n
      BY <1>5, <1>6, <3>1
    <3>2. CASE i # n
      <4>1. i \in 1..Len(got)
        BY <1>1, <3>2
      <4> QED BY <1>6, <3>2, <4>1 DEF Prefix, p
    <3> QED BY <3>1, <3>2
  <2> HIDE DEF more
  <2> QED BY <1>6, <2>1 DEF Prefix
<1> HIDE DEF more, n
<1>8. more[1].of = p
  <2>1. 1 \in 1..Len(more)
    BY <1>4, <1>6
  <2>2. more[1] = [of |-> p, at |-> 1]
    BY <1>7, <2>1 DEF Prefix
  <2> QED BY <2>2
<1>9. Consistent(more)
  BY <1>7, <1>8 DEF Prefix, Consistent
<1>10. ~Complete(more) => Len(more) < Size[p]
  BY <1>2, <1>4, <1>6, <1>8 DEF Complete
<1> QED BY <1>4, <1>7, <1>8, <1>9, <1>10 DEF p, n, more

LEMMA ReadPropertiesAccurate ==
  ASSUME UnlockedInv, AccurateInv, ReadProperties
  PROVE  AccurateInv'
<1> DEFINE v == vol[req.fd]
           n == Len(req.got) + 1
           got == Append(req.got, v.file[n])
<1>1. Still /\ req.pc = "read" /\ req.pc \in Inside /\ req.op \in Readers /\ req.h \in Handles /\ req \in ReqType
  BY DEF ReadProperties, At, Still, store, UnlockedInv, PointOK, TypeOK, Readers, Inside
<1>2. OpenOK /\ GotOK
  BY <1>1 DEF AccurateInv
<1>3. v \in VolType /\ req.got \in Seq(Block)
  BY <1>1, <1>2 DEF OpenOK, UnlockedInv, TypeOK, ReqType
<1>4. ASSUME req.h \notin past.suspect
      PROVE  /\ n <= Len(v.file) /\ Consistent(got) /\ Prefix(got, v.stored) /\ got[1].of = v.stored
             /\ ~Complete(got) => Len(got) < Size[v.stored]
             /\ Kept(v) /\ v.whole
  <2>1. Kept(v) /\ v.whole /\ Len(req.got) < Size[v.stored] /\ Prefix(req.got, v.stored)
    BY <1>1, <1>2, <1>4 DEF GotOK
  <2> HIDE DEF v
  <2> QED BY <1>3, <2>1, NextBlock
<1>5. /\ live' = live /\ vol' = vol /\ past' = past
      /\ Len(v.file) \in Nat /\ n \in Nat
  <2>1. v.file \in Seq(Block)
    BY <1>3 DEF VolType
  <2> QED BY <1>1, <1>3, <2>1 DEF Still
<1> HIDE DEF n, got
<1>6. CASE Corrupt /\ req.h \in past.suspect
  BY <1>1, <1>6, CorruptAccurate
<1>7. ASSUME NEW c \in {"read", "flag"}, NEW new, req' = [req EXCEPT !.got = new, !.pc = c],
             req.h \notin past.suspect => new = got /\ (c = "flag" <=> Complete(got))
      PROVE  AccurateInv'
  <2>1. /\ req'.op = req.op /\ req'.h = req.h /\ req'.todo = req.todo /\ req'.query = req.query /\ req'.out = req.out
        /\ req'.fd = req.fd /\ req'.got = new /\ req'.pc = c /\ c \in Inside
    BY <1>1, <1>7 DEF ReqType, Inside
  <2>2. OpenOK'
    BY <1>1, <1>2, <1>5, <2>1 DEF OpenOK
  <2>3. GotOK'
    <3>1. vol'[req'.fd] = v
      BY <1>5, <2>1
    <3> HIDE DEF v
    <3> QED BY <1>4, <1>5, <1>7, <2>1, <3>1 DEF GotOK
  <2> QED BY <1>1, <2>1, <2>2, <2>3, ReadOnAccurate
<1>8. CASE n > Len(v.file) /\ Corrupt
  <2>1. req.h \in past.suspect
    BY <1>4, <1>5, <1>8
  <2> QED BY <1>6, <1>8, <2>1
<1>9. CASE Consistent(got) /\ req' = [req EXCEPT !.got = got, !.pc = IF Complete(got) THEN "flag" ELSE "read"]
  <2>1. CASE Complete(got)
    BY <1>7, <1>9, <2>1
  <2>2. CASE ~Complete(got)
    BY <1>7, <1>9, <2>2
  <2> QED BY <2>1, <2>2
<1>10. CASE ~Consistent(got) /\ Corrupt
  BY <1>4, <1>6, <1>10
<1>11. ASSUME NEW p \in Properties, ~Consistent(got), req' = [req EXCEPT !.got = Encode(p), !.pc = "flag"] PROVE AccurateInv'
  <2>1. req.h \in past.suspect
    BY <1>4, <1>11
  <2> QED BY <1>7, <1>11, <2>1
<1> QED BY <1>8, <1>9, <1>10, <1>11 DEF ReadProperties, n, got

LEMMA LoadPrivilegedAccurate ==
  ASSUME UnlockedInv, AccurateInv, LoadPrivileged
  PROVE  AccurateInv'
<1>0. PICK h : h = req.h
  OBVIOUS
<1> USE <1>0
<1> DEFINE p == req.got[1].of
           new == [h |-> req.h, props |-> p, priv |-> vol[live[req.h]].priv]
           o == IF HasProperties(p, req.query) THEN req.out \union {new} ELSE req.out
<1>1. Still /\ req.pc = "flag" /\ req.pc \in Inside /\ req.op \in Readers /\ h \in Handles /\ req \in ReqType
  BY DEF LoadPrivileged, At, Still, store, UnlockedInv, PointOK, TypeOK, Readers, Inside
<1>2. HistoryOK /\ OpenOK /\ GotOK /\ ChildOK /\ SettledOK
  BY <1>1 DEF AccurateInv
<1>3. CASE live[h] = NoVol
  BY <1>1, <1>3, MissingAccurate DEF LoadPrivileged
<1>4. CASE live[h] # NoVol
  <2>1. /\ req'.op = req.op /\ req'.h = h /\ req'.todo = req.todo /\ req'.query = req.query /\ req'.out = o
        /\ req'.pc = IF req.op = "list" THEN "next" ELSE "done"
        /\ req.op = "parent" => req'.answer = "found"
    <3> DEFINE c == IF req.op = "list" THEN "next" ELSE "done"
               a == IF req.op = "list" THEN "" ELSE "found"
    <3>1. req' = [req EXCEPT !.out = o, !.pc = c, !.answer = a, !.fd = NoVol, !.got = <<>>]
      BY <1>4 DEF LoadPrivileged
    <3>2. req.op = "parent" => a = "found"
      OBVIOUS
    <3> HIDE DEF o, a, c
    <3>3. /\ req'.op = req.op /\ req'.h = h /\ req'.todo = req.todo /\ req'.query = req.query /\ req'.out = o
          /\ req'.pc = c /\ req'.answer = a
      BY <1>1, <3>1 DEF ReqType
    <3> QED BY <3>2, <3>3 DEF c
  <2>2. live' = live /\ vol' = vol /\ past' = past /\ \A g \in Handles : State(g)' = State(g)
    BY <1>1 DEF Still, State
  <2>3. new.h = h /\ new.props = p /\ new.priv = vol[live[h]].priv
    OBVIOUS
  <2>4. \A r \in req.out : r.h # h
    BY <1>1, <1>2, NotYetTold
  <2>5. \A r \in o : r \in req.out \/ (r = new /\ HasProperties(p, req.query))
    OBVIOUS
  <2>6. (HasProperties(p, req.query) => new \in o) /\ req.out \subseteq o
    OBVIOUS
  <2> HIDE DEF o, new
  <2>7. ASSUME past.changes[h] <= 1, h \notin past.suspect
        PROVE  State(h) = [props |-> p, priv |-> vol[live[h]].priv, found |-> TRUE]
    <3>1. past.changes[h] = 0 \/ past.changes[h] = 1
      <4>1. past.changes \in [Handles -> 0..2]
        BY DEF UnlockedInv, TypeOK, PastType
      <4>2. past.changes[h] \in 0..2
        BY <1>1, <4>1
      <4> QED BY <2>7, <4>2
    <3>2. live[h] = req.fd
      BY <1>1, <1>2, <1>4, <3>1 DEF OpenOK
    <3>3. p = vol[req.fd].stored
      BY <1>1, <1>2, <2>7 DEF GotOK
    <3> QED BY <1>4, <3>2, <3>3 DEF State
  <2>8. ToldTrue(h)'
    <3> SUFFICES ASSUME past.changes[h] <= 1, h \notin past.suspect
                 PROVE  /\ \A r \in o : r.h = h => [props |-> r.props, priv |-> r.priv, found |-> TRUE] \in Truths(h)'
                        /\ (\A r \in o : r.h # h) => Absent \in Truths(h)'
      BY <2>1, <2>2 DEF ToldTrue
    <3> DEFINE s == [props |-> p, priv |-> vol[live[h]].priv, found |-> TRUE]
    <3>1. State(h)' = s /\ s.found /\ s.props = p
      BY <1>1, <2>2, <2>7
    <3>2. Match(State(h))' \in Truths(h)'
      BY DEF Truths
    <3>3. Match(State(h))' = IF s.found /\ HasProperties(s.props, req.query) THEN s ELSE Absent
      BY <2>1, <3>1 DEF Match
    <3> HIDE DEF p
    <3>4. CASE HasProperties(p, req.query)
      <4>1. s \in Truths(h)'
        BY <3>1, <3>2, <3>3, <3>4
      <4>2. \A r \in o : r.h = h => [props |-> r.props, priv |-> r.priv, found |-> TRUE] = s
        BY <2>3, <2>4, <2>5
      <4> QED BY <2>3, <2>6, <3>4, <4>1, <4>2
    <3>5. CASE ~HasProperties(p, req.query)
      <4>1. Absent \in Truths(h)'
        BY <3>1, <3>2, <3>3, <3>5
      <4> QED BY <2>4, <2>5, <3>5, <4>1
    <3> QED BY <3>4, <3>5
  <2>9. ASSUME NEW g \in Handles, g # h, ToldTrue(g) PROVE ToldTrue(g)'
    <3>1. Truths(g)' = Truths(g)
      BY <2>1, <2>2 DEF Truths, Match
    <3>2. \A r \in o : r.h = g => r \in req.out
      BY <2>3, <2>5, <2>9
    <3> QED BY <2>1, <2>2, <2>6, <2>9, <3>1, <3>2 DEF ToldTrue
  <2>10. SettledOK'
    <3>1. req.op = "list" => h \notin req.todo
      BY <1>1, <1>2 DEF SettledOK
    <3>2. Settled' = Settled \union {h} /\ Settled \subseteq Handles
      BY <1>1, <2>1, <3>1 DEF Settled, Inside, Readers
    <3>3. ASSUME NEW g \in Settled PROVE ToldTrue(g)
      <4>1. req.op # "parent"
        BY <1>1, <3>3 DEF Settled
      <4> QED BY <1>2, <3>3, <4>1 DEF SettledOK
    <3>4. \A g \in Settled' : ToldTrue(g)'
      BY <2>8, <2>9, <3>2, <3>3
    <3>5. \A r \in o : r.h \in Settled'
      BY <1>2, <2>3, <2>5, <3>2 DEF SettledOK
    <3> QED BY <2>1, <3>4, <3>5 DEF SettledOK, Inside
  <2>11. OpenOK' /\ GotOK'
    BY <2>1 DEF OpenOK, GotOK
  <2>12. ChildOK'
    <3>1. ParentOf(past.child)' = ParentOf(past.child)
      BY <2>2 DEF ParentOf, Alive
    <3>2. ASSUME req.op = "parent", past.changes[past.child] = 0 PROVE ParentFound'
      <4>1. ParentOf(past.child) = h
        BY <1>1, <1>2, <3>2 DEF ChildOK
      <4>2. h # NoHandle
        BY <1>1, NullIds
      <4> QED BY <2>1, <2>2, <3>1, <3>2, <4>1, <4>2 DEF ParentFound
    <3> QED BY <1>2, <2>1, <2>2, <3>2 DEF ChildOK, Inside
  <2>13. HistoryOK'
    BY <1>1, <1>2, HistoryStays
  <2> QED BY <2>10, <2>11, <2>12, <2>13 DEF AccurateInv
<1> QED BY <1>3, <1>4

LEMMA AccurateStep ==
  ASSUME UnlockedInv, AccurateInv, [Next]_vars
  PROVE  AccurateInv'
<1>1. CASE Others
  BY <1>1, OthersAccurate
<1>2. CASE Arrival
  BY <1>2, ArrivalAccurate
<1>3. CASE Reading
  BY <1>3, LookupVolumeAccurate, ReadDirAccurate, NextVolumeAccurate, EvalSymlinksAccurate, OpenPropertiesAccurate,
     ReadPropertiesAccurate, LoadPrivilegedAccurate DEF Reading
<1>4. CASE \/ TreeList \/ TreeCandidate \/ TreeDestroy
           \/ (\E i \in DOMAIN req.query : DestroyOne(i)) \/ AllDestroyed \/ Return
  BY <1>4, DestroyingAccurate
<1>5. CASE UNCHANGED vars
  <2>1. req' = req /\ Still
    BY <1>5 DEF vars, Still
  <2>2. CASE req.op \notin Readers
    BY <2>1, <2>2 DEF AccurateInv
  <2>3. CASE req.op \in Readers
    <3>1. HistoryOK'
      BY <2>1, <2>3, HistoryStays DEF AccurateInv
    <3>2. OpenOK' /\ GotOK'
      BY <2>1, <2>3 DEF AccurateInv, Still, OpenOK, GotOK
    <3>3. ChildOK'
      <4>1. ParentOf(past.child)' = ParentOf(past.child) /\ Alive' = Alive /\ past' = past
        BY <2>1 DEF ParentOf, Alive, Still
      <4>2. ParentFound => ParentFound'
        BY <2>1, <4>1 DEF ParentFound
      <4> QED BY <2>1, <2>3, <4>1, <4>2 DEF AccurateInv, ChildOK
    <3>4. SettledOK'
      <4>1. Settled' = Settled
        BY <2>1 DEF Settled
      <4>2. \A g \in Settled : ToldTrue(g) => ToldTrue(g)'
        BY <2>1, ToldStays DEF Settled
      <4> QED BY <2>1, <2>3, <4>1, <4>2 DEF AccurateInv, SettledOK
    <3> QED BY <3>1, <3>2, <3>3, <3>4 DEF AccurateInv
  <2> QED BY <2>2, <2>3
<1> QED BY <1>1, <1>2, <1>3, <1>4, <1>5 DEF Next, Step, Reading

LEMMA AccurateHeld == Spec => [](UnlockedInv /\ AccurateInv)
<1>1. Init => UnlockedInv /\ AccurateInv
  BY InvInit, NoReqType DEF Init, AccurateInv, Readers
<1>2. (UnlockedInv /\ AccurateInv) /\ [Next]_vars => (UnlockedInv /\ AccurateInv)'
  BY InvStep, AccurateStep
<1> QED BY <1>1, <1>2, PTL DEF Spec

\* What the records of an answer say is what is reported.
LEMMA ReportedTrue ==
  ASSUME NEW h \in Handles, ToldTrue(h), past.changes[h] <= 1, h \notin past.suspect
  PROVE  Reported(h) \in Truths(h)
<1>1. CASE \E r \in req.out : r.h = h
  <2> DEFINE c == CHOOSE r \in req.out : r.h = h
  <2>1. c \in req.out /\ c.h = h
    BY <1>1
  <2>2. Reported(h) = [props |-> c.props, priv |-> c.priv, found |-> TRUE]
    BY <1>1 DEF Reported
  <2> HIDE DEF c
  <2> QED BY <2>1, <2>2 DEF ToldTrue
<1>2. CASE ~\E r \in req.out : r.h = h
  <2>1. Reported(h) = Absent
    BY <1>2 DEF Reported
  <2> QED BY <1>2, <2>1 DEF ToldTrue
<1> QED BY <1>1, <1>2

\* GetVolume, ListVolumes and VolumeParent, which take no lock, tell the truth
\* about every volume that changed at most once meanwhile and whose properties
\* nobody rewrote, for any number of volumes and of changes by others
\* (repository.go, GetVolume, ListVolumes and VolumeParent; filesystem.go, Parent;
\* metadata.go, Properties and IsPrivileged).
THEOREM AccurateHolds == Spec => []Accurate
<1>1. UnlockedInv /\ AccurateInv => Accurate
  <2> SUFFICES ASSUME UnlockedInv, AccurateInv, req.pc = "done"
               PROVE  /\ req.op \in {"get", "list"} \/ (req.op = "parent" /\ req.answer = "found") =>
                            \A h \in (IF req.op = "list" THEN Handles ELSE {req.h}) :
                                past.changes[h] <= 1 /\ h \notin past.suspect => Reported(h) \in Truths(h)
                      /\ req.op = "parent" /\ past.changes[past.child] = 0 => ParentFound
    BY DEF Accurate, Truths, ParentFound
  <2>1. ASSUME req.op \in {"get", "list"} \/ (req.op = "parent" /\ req.answer = "found"),
               NEW h \in (IF req.op = "list" THEN Handles ELSE {req.h}), past.changes[h] <= 1, h \notin past.suspect
        PROVE  Reported(h) \in Truths(h)
    <3>1. SettledOK
      BY <2>1 DEF AccurateInv, Readers
    <3>2. h \in Settled
      <4>1. CASE req.op = "list"
        BY <2>1, <3>1, <4>1 DEF Settled, SettledOK
      <4>2. CASE req.op # "list"
        <5>1. h = req.h
          BY <2>1, <4>2
        <5>2. req.h \in Handles
          BY <2>1, <4>2 DEF UnlockedInv, PointOK
        <5> QED BY <2>1, <4>2, <5>1, <5>2 DEF Settled
      <4> QED BY <4>1, <4>2
    <3>3. ToldTrue(h) /\ h \in Handles
      BY <2>1, <3>1, <3>2 DEF SettledOK, Settled
    <3> QED BY <2>1, <3>3, ReportedTrue
  <2>2. req.op = "parent" /\ past.changes[past.child] = 0 => ParentFound
    BY DEF AccurateInv, Readers, ChildOK
  <2> QED BY <2>1, <2>2
<1> QED BY <1>1, AccurateHeld, PTL
=============================================================================
