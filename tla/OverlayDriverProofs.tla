------------------------ MODULE OverlayDriverProofs -------------------------
(***************************************************************************)
(* Proofs about the overlay driver, for every set of handles and every     *)
(* depth of nesting: with handles that are not used twice, mounts and data *)
(* of live volumes are right whatever fails and whenever the machine is    *)
(* rebooted.                                                               *)
(***************************************************************************)
EXTENDS OverlayDriver, TLAPS

\* The links findRootParent follows, as a function, ...
Up == [h \in Handles |-> IF live[h] # NoDir /\ HasParent(live[h]) THEN Parent(live[h]) ELSE NoHandle]

\* ... what it computes from them, ...
Chain(up, r) == r = [h \in Handles |-> IF up[h] # NoHandle THEN r[up[h]] ELSE h]

RootOf(up) == CHOOSE r : Chain(up, r)

\* ... and that this is one volume, without parent, which is reached by following
\* the links.
Closed(up, S) == \A h \in S : up[h] # NoHandle => up[h] \in S

Leaf(up, g) == \A h \in Handles : up[h] # g

RootIn(up, r) == /\ r \in [Handles -> Handles]
                 /\ Chain(up, r)
                 /\ \A q : Chain(up, q) => q = r
                 /\ \A h \in Handles : up[r[h]] = NoHandle
                 /\ \A S \in SUBSET Handles : Closed(up, S) => \A h \in S : r[h] \in S

Unique(up) == \E r : RootIn(up, r)

Dirs == Dir \union {NoDir}

TypeOK == /\ init \in [Handles -> Dirs]
          /\ live \in [Handles -> Dirs]
          /\ dead \in [Handles -> Dirs]
          /\ layer \in [Handles -> Values \union {NoLayer, Empty}]
          /\ creating \subseteq Handles
          /\ tearing \subseteq Handles
          /\ recovering \subseteq Handles

\* A handle has one directory, and a layer from its creation on.
Placed == /\ \A h \in Handles : /\ live[h] # NoDir => init[h] = NoDir /\ dead[h] = NoDir
                                /\ init[h] # NoDir => dead[h] = NoDir
                                /\ live[h] # NoDir \/ init[h] # NoDir => layer[h] # NoLayer
          /\ \A h \in creating : init[h] # NoDir
          /\ \A h \in tearing : dead[h] # NoDir
          /\ \A h \in recovering : live[h] # NoDir

\* The parent of a volume is live while the volume is.
LinkFits(d) == d.parent # NoHandle => live[d.parent] # NoDir

Linked == /\ \A h \in Handles : live[h] # NoDir => LinkFits(live[h])
          /\ \A h \in creating : LinkFits(init[h])

MountFits(h, d) == /\ d.mount # NoMount
                   /\ d.mount.upper = h
                   /\ d.mount.lower = IF d.parent = NoHandle THEN NoHandle ELSE RootOf(Up)[d.parent]

Mounted == /\ \A h \in Handles : live[h] # NoDir /\ h \notin recovering => MountFits(h, live[h])
           /\ \A h \in creating : MountFits(h, init[h])

OverlayInv == TypeOK /\ Placed /\ Linked /\ Mounted /\ Unique(Up)
-----------------------------------------------------------------------------
\* Chain, value by value.
LEMMA ChainValues ==
  ASSUME NEW up, NEW r, Chain(up, r)
  PROVE  /\ r = [h \in Handles |-> r[h]]
         /\ \A h \in Handles : r[h] = IF up[h] # NoHandle THEN r[up[h]] ELSE h
<1> DEFINE F == [h \in Handles |-> IF up[h] # NoHandle THEN r[up[h]] ELSE h]
<1>1. r = F
  BY DEF Chain
<1>2. \A h \in Handles : F[h] = IF up[h] # NoHandle THEN r[up[h]] ELSE h
  OBVIOUS
<1>3. F = [h \in Handles |-> F[h]]
  OBVIOUS
<1> HIDE DEF F
<1> QED BY <1>1, <1>2, <1>3, Zenon

LEMMA ChainMade ==
  ASSUME NEW up, NEW r, r = [h \in Handles |-> r[h]],
         \A h \in Handles : r[h] = IF up[h] # NoHandle THEN r[up[h]] ELSE h
  PROVE  Chain(up, r)
<1>1. [h \in Handles |-> r[h]] = [h \in Handles |-> IF up[h] # NoHandle THEN r[up[h]] ELSE h]
  BY Zenon
<1> QED BY <1>1, Zenon DEF Chain

LEMMA SameValues ==
  ASSUME NEW q, NEW r, q = [h \in Handles |-> q[h]], r = [h \in Handles |-> r[h]],
         \A h \in Handles : q[h] = r[h]
  PROVE  q = r
<1>1. [h \in Handles |-> q[h]] = [h \in Handles |-> r[h]]
  BY Zenon
<1> QED BY <1>1, Zenon

\* RootOf is the function that Unique speaks of.
LEMMA RootChosen ==
  ASSUME NEW up, NEW r, RootIn(up, r)
  PROVE  RootOf(up) = r
BY DEF RootIn, RootOf

\* A volume is put below p: nothing else finds another root.
LEMMA LinkAdded ==
  ASSUME NEW up \in [Handles -> Handles \union {NoHandle}], NEW r, RootIn(up, r),
         NEW g \in Handles, up[g] = NoHandle, Leaf(up, g),
         NEW p \in Handles \ {g}
  PROVE  RootIn([up EXCEPT ![g] = p], [r EXCEPT ![g] = r[p]])
<1> DEFINE v == [up EXCEPT ![g] = p]
           s == [r EXCEPT ![g] = r[p]]
<1>1. /\ r \in [Handles -> Handles] /\ v \in [Handles -> Handles \union {NoHandle}] /\ s \in [Handles -> Handles]
      /\ NoHandle \notin Handles
      /\ v[g] = p /\ s[g] = r[p] /\ \A h \in Handles \ {g} : v[h] = up[h] /\ s[h] = r[h] /\ v[h] # g
  BY Nulls DEF RootIn, Leaf
<1>2. /\ \A h \in Handles : r[h] = IF up[h] # NoHandle THEN r[up[h]] ELSE h
      /\ \A h \in Handles : up[r[h]] = NoHandle
      /\ \A S \in SUBSET Handles : Closed(up, S) => \A h \in S : r[h] \in S
  BY ChainValues DEF RootIn
<1>3. \A h \in Handles \ {g} : r[h] # g
  <2>1. Closed(up, Handles \ {g})
    BY DEF Closed, Leaf
  <2> QED BY <1>2, <2>1
<1> HIDE DEF v, s
<1>4. Chain(v, s)
  <2>1. ASSUME NEW h \in Handles PROVE s[h] = IF v[h] # NoHandle THEN s[v[h]] ELSE h
    <3>1. CASE h = g
      BY <1>1, <3>1
    <3>2. CASE h # g
      BY <1>1, <1>2, <3>2
    <3> QED BY <3>1, <3>2
  <2>2. s = [h \in Handles |-> s[h]]
    BY <1>1
  <2>3. \A h \in Handles : s[h] = IF v[h] # NoHandle THEN s[v[h]] ELSE h
    BY <2>1
  <2> QED BY <2>2, <2>3, ChainMade
<1>5. ASSUME NEW q, Chain(v, q) PROVE q = s
  <2> DEFINE o == [h \in Handles |-> IF h = g THEN g ELSE q[h]]
  <2>1. q = [h \in Handles |-> q[h]]
    BY <1>5, ChainValues, ZenonT(60)
  <2>2. \A h \in Handles : q[h] = IF v[h] # NoHandle THEN q[v[h]] ELSE h
    BY <1>5, ChainValues, ZenonT(60)
  <2>3. o = [h \in Handles |-> o[h]]
    OBVIOUS
  <2>4. o[g] = g /\ \A h \in Handles \ {g} : o[h] = q[h]
    OBVIOUS
  <2> HIDE DEF o
  <2>5. ASSUME NEW h \in Handles PROVE o[h] = IF up[h] # NoHandle THEN o[up[h]] ELSE h
    <3>1. CASE h = g
      BY <2>4, <3>1
    <3>2. CASE h # g
      <4>1. o[h] = q[h] /\ up[h] = v[h] /\ q[h] = IF v[h] # NoHandle THEN q[v[h]] ELSE h
        BY <1>1, <2>2, <2>4, <3>2
      <4>2. up[h] # NoHandle => up[h] \in Handles \ {g}
        BY <1>1, <3>2 DEF Leaf
      <4> QED BY <2>4, <4>1, <4>2
    <3> QED BY <3>1, <3>2
  <2>6. o = r
    <3>1. Chain(up, o)
      <4>1. \A h \in Handles : o[h] = IF up[h] # NoHandle THEN o[up[h]] ELSE h
        BY <2>5
      <4> QED BY <2>3, <4>1, ChainMade
    <3> QED BY <3>1 DEF RootIn
  <2>7. \A h \in Handles \ {g} : q[h] = r[h]
    BY <2>4, <2>6
  <2>8. \A h \in Handles : q[h] = s[h]
    BY <1>1, <2>2, <2>7
  <2>9. s = [h \in Handles |-> s[h]]
    BY <1>1
  <2> QED BY <2>1, <2>8, <2>9, SameValues, Zenon
<1>6. ASSUME NEW h \in Handles PROVE v[s[h]] = NoHandle
  BY <1>1, <1>2, <1>3
<1>7. ASSUME NEW S \in SUBSET Handles, Closed(v, S), NEW h \in S PROVE s[h] \in S
  <2>1. Closed(up, S)
    BY <1>1, <1>7 DEF Closed
  <2>2. CASE h = g
    BY <1>1, <1>2, <1>7, <2>1, <2>2 DEF Closed
  <2>3. CASE h # g
    BY <1>1, <1>2, <2>1, <2>3
  <2> QED BY <2>2, <2>3
<1>8. RootIn(v, s)
  BY <1>1, <1>4, <1>5, <1>6, <1>7 DEF RootIn
<1> QED BY <1>8 DEF v, s

\* A volume without children is taken out: nothing else finds another root.
LEMMA LinkDropped ==
  ASSUME NEW up \in [Handles -> Handles \union {NoHandle}], NEW r, RootIn(up, r),
         NEW g \in Handles, Leaf(up, g)
  PROVE  RootIn([up EXCEPT ![g] = NoHandle], [r EXCEPT ![g] = g])
<1> DEFINE v == [up EXCEPT ![g] = NoHandle]
           s == [r EXCEPT ![g] = g]
<1>1. /\ r \in [Handles -> Handles] /\ v \in [Handles -> Handles \union {NoHandle}] /\ s \in [Handles -> Handles]
      /\ NoHandle \notin Handles
      /\ v[g] = NoHandle /\ s[g] = g /\ \A h \in Handles \ {g} : v[h] = up[h] /\ s[h] = r[h] /\ v[h] # g
  BY Nulls DEF RootIn, Leaf
<1>2. /\ \A h \in Handles : r[h] = IF up[h] # NoHandle THEN r[up[h]] ELSE h
      /\ \A h \in Handles : up[r[h]] = NoHandle
      /\ \A S \in SUBSET Handles : Closed(up, S) => \A h \in S : r[h] \in S
  BY ChainValues DEF RootIn
<1>3. \A h \in Handles \ {g} : r[h] # g
  <2>1. Closed(up, Handles \ {g})
    BY DEF Closed, Leaf
  <2> QED BY <1>2, <2>1
<1> HIDE DEF v, s
<1>4. Chain(v, s)
  <2>1. ASSUME NEW h \in Handles PROVE s[h] = IF v[h] # NoHandle THEN s[v[h]] ELSE h
    <3>1. CASE h = g
      BY <1>1, <3>1
    <3>2. CASE h # g
      BY <1>1, <1>2, <3>2
    <3> QED BY <3>1, <3>2
  <2>2. s = [h \in Handles |-> s[h]]
    BY <1>1
  <2>3. \A h \in Handles : s[h] = IF v[h] # NoHandle THEN s[v[h]] ELSE h
    BY <2>1
  <2> QED BY <2>2, <2>3, ChainMade
<1>5. ASSUME NEW q, Chain(v, q) PROVE q = s
  <2> DEFINE o == [h \in Handles |-> IF h = g THEN (IF up[g] # NoHandle THEN q[up[g]] ELSE g) ELSE q[h]]
  <2>1. q = [h \in Handles |-> q[h]]
    BY <1>5, ChainValues, ZenonT(60)
  <2>2. \A h \in Handles : q[h] = IF v[h] # NoHandle THEN q[v[h]] ELSE h
    BY <1>5, ChainValues, ZenonT(60)
  <2>3. o = [h \in Handles |-> o[h]]
    OBVIOUS
  <2>4. o[g] = (IF up[g] # NoHandle THEN q[up[g]] ELSE g) /\ \A h \in Handles \ {g} : o[h] = q[h]
    OBVIOUS
  <2> HIDE DEF o
  <2>5. ASSUME NEW h \in Handles PROVE o[h] = IF up[h] # NoHandle THEN o[up[h]] ELSE h
    <3>1. CASE h = g
      BY <2>4, <3>1
    <3>2. CASE h # g
      <4>1. o[h] = q[h] /\ up[h] = v[h] /\ q[h] = IF v[h] # NoHandle THEN q[v[h]] ELSE h
        BY <1>1, <2>2, <2>4, <3>2
      <4>2. up[h] # NoHandle => up[h] \in Handles \ {g}
        BY <1>1, <3>2 DEF Leaf
      <4> QED BY <2>4, <4>1, <4>2
    <3> QED BY <3>1, <3>2
  <2>6. o = r
    <3>1. Chain(up, o)
      <4>1. \A h \in Handles : o[h] = IF up[h] # NoHandle THEN o[up[h]] ELSE h
        BY <2>5
      <4> QED BY <2>3, <4>1, ChainMade
    <3> QED BY <3>1 DEF RootIn
  <2>7. \A h \in Handles \ {g} : q[h] = r[h]
    BY <2>4, <2>6
  <2>8. \A h \in Handles : q[h] = s[h]
    BY <1>1, <2>2, <2>7
  <2>9. s = [h \in Handles |-> s[h]]
    BY <1>1
  <2> QED BY <2>1, <2>8, <2>9, SameValues, Zenon
<1>6. ASSUME NEW h \in Handles PROVE v[s[h]] = NoHandle
  BY <1>1, <1>2, <1>3
<1>7. ASSUME NEW S \in SUBSET Handles, Closed(v, S), NEW h \in S PROVE s[h] \in S
  <2>1. Closed(up, S \ {g})
    BY <1>1, <1>7 DEF Closed
  <2>2. CASE h = g
    BY <1>1, <2>2
  <2>3. CASE h # g
    BY <1>1, <1>2, <2>1, <2>3
  <2> QED BY <2>2, <2>3
<1>8. RootIn(v, s)
  BY <1>1, <1>4, <1>5, <1>6, <1>7 DEF RootIn
<1> QED BY <1>8 DEF v, s

\* Before there is a link every volume is its own root.
LEMMA NoLinks ==
  ASSUME NEW up \in [Handles -> Handles \union {NoHandle}], \A h \in Handles : up[h] = NoHandle
  PROVE  RootIn(up, [h \in Handles |-> h])
<1>1. ASSUME NEW q, Chain(up, q) PROVE q = [h \in Handles |-> h]
  BY <1>1 DEF Chain
<1> QED BY <1>1 DEF RootIn, Chain, Closed
-----------------------------------------------------------------------------
\* While every parent is live the links are those that are stored.
LinksStored ==
    /\ Up \in [Handles -> Handles \union {NoHandle}]
    /\ \A h \in Handles : Up[h] = IF live[h] # NoDir THEN live[h].parent ELSE NoHandle
    /\ \A h \in Handles : live[h] # NoDir =>
          live[h] \in Dir /\ Parent(live[h]) = live[h].parent /\ (HasParent(live[h]) <=> live[h].parent # NoHandle)

LEMMA UpStored == TypeOK /\ Linked => LinksStored
<1> SUFFICES ASSUME TypeOK, Linked PROVE LinksStored
  OBVIOUS
<1>1. \A h \in Handles : live[h] # NoDir => live[h] \in Dir /\ live[h].parent \in Handles \union {NoHandle}
  BY DEF TypeOK, Dirs, Dir
<1>2. \A h \in Handles : live[h] # NoDir => Parent(live[h]) = live[h].parent
  BY <1>1, Nulls DEF Linked, LinkFits, Parent
<1>3. \A h \in Handles : live[h] # NoDir => (HasParent(live[h]) <=> live[h].parent # NoHandle)
  BY <1>2 DEF HasParent
<1>4. \A h \in Handles : Up[h] = IF live[h] # NoDir THEN live[h].parent ELSE NoHandle
  BY <1>2, <1>3 DEF Up
<1>5. Up \in [Handles -> Handles \union {NoHandle}]
  BY <1>1, <1>2 DEF Up
<1> QED BY <1>1, <1>2, <1>3, <1>4, <1>5 DEF LinksStored

\* The same after a step.
LEMMA UpStoredNext == TypeOK' /\ Linked' => LinksStored'
BY UpStored, PTL

\* findRootParent is the root of these links.
LEMMA RootFound ==
  ASSUME Unique(Up), NEW p \in Handles
  PROVE  findRootParent(p) = RootOf(Up)[p]
<1> DEFINE L(r) == r = [h \in Handles |-> IF live[h] # NoDir /\ HasParent(live[h]) THEN r[Parent(live[h])] ELSE h]
<1>1. ASSUME NEW r PROVE L(r) <=> Chain(Up, r)
  <2> DEFINE F == [h \in Handles |-> IF live[h] # NoDir /\ HasParent(live[h]) THEN r[Parent(live[h])] ELSE h]
             G == [h \in Handles |-> IF Up[h] # NoHandle THEN r[Up[h]] ELSE h]
  <2>1. ASSUME NEW h \in Handles PROVE F[h] = G[h]
    BY DEF Up, HasParent
  <2>2. F = [h \in Handles |-> F[h]] /\ G = [h \in Handles |-> G[h]]
    OBVIOUS
  <2>3. F = G
    <3> HIDE DEF F, G
    <3> QED BY <2>1, <2>2, SameValues, Zenon
  <2> QED BY <2>3, Zenon DEF Chain
<1>2. PICK r : RootIn(Up, r)
  BY DEF Unique
<1>3. Chain(Up, r) /\ \A q : Chain(Up, q) => q = r
  BY <1>2 DEF RootIn
<1>4. (CHOOSE q : L(q)) = r
  <2>1. L(r) /\ \A q : L(q) => q = r
    BY <1>1, <1>3
  <2> HIDE DEF L
  <2> QED BY <2>1, Zenon
<1>5. RootOf(Up) = r
  BY <1>2, RootChosen
<1> QED BY <1>4, <1>5 DEF findRootParent

\* The root of a live volume is a live volume without parent.
LEMMA RootLive ==
  ASSUME TypeOK, Linked, Unique(Up), NEW h \in Handles, live[h] # NoDir
  PROVE  /\ RootOf(Up)[h] \in Handles
         /\ live[RootOf(Up)[h]] # NoDir
         /\ live[RootOf(Up)[h]].parent = NoHandle
         /\ RootOf(Up)[h] = IF live[h].parent = NoHandle THEN h ELSE RootOf(Up)[live[h].parent]
<1> DEFINE L == {g \in Handles : live[g] # NoDir}
<1>1. PICK r : RootIn(Up, r)
  BY DEF Unique
<1>2. RootOf(Up) = r
  BY <1>1, RootChosen
<1>3. r \in [Handles -> Handles] /\ Up[r[h]] = NoHandle /\ r[h] = IF Up[h] # NoHandle THEN r[Up[h]] ELSE h
  BY <1>1, ChainValues DEF RootIn
<1>4. Closed(Up, L)
  <2> SUFFICES ASSUME NEW g \in L, Up[g] # NoHandle PROVE Up[g] \in L
    BY DEF Closed
  <2>1. Up[g] = live[g].parent /\ Up[g] \in Handles
    BY UpStored DEF LinksStored
  <2> QED BY <2>1 DEF Linked, LinkFits
<1>5. r[h] \in L
  <2>1. L \in SUBSET Handles /\ h \in L
    OBVIOUS
  <2> HIDE DEF L
  <2> QED BY <1>1, <1>4, <2>1 DEF RootIn
<1> QED BY <1>2, <1>3, <1>5, UpStored DEF LinksStored

\* A step that leaves the live volumes and their parents leaves the roots.
LEMMA RootsKept ==
  ASSUME TypeOK, Linked, Unique(Up), TypeOK', Linked',
         \A h \in Handles : live'[h] # NoDir <=> live[h] # NoDir,
         \A h \in Handles : live[h] # NoDir => live'[h].parent = live[h].parent
  PROVE  Up' = Up /\ RootOf(Up)' = RootOf(Up) /\ Unique(Up)'
<1>1. /\ Up \in [Handles -> Handles \union {NoHandle}]
      /\ \A h \in Handles : Up[h] = IF live[h] # NoDir THEN live[h].parent ELSE NoHandle
  BY UpStored DEF LinksStored
<1>2. /\ Up' \in [Handles -> Handles \union {NoHandle}]
      /\ \A h \in Handles : Up'[h] = IF live'[h] # NoDir THEN live'[h].parent ELSE NoHandle
  BY UpStoredNext DEF LinksStored
<1>3. Up' = Up
  BY <1>1, <1>2
<1> QED BY <1>3
-----------------------------------------------------------------------------
\* What is in a directory.
LEMMA DirFields ==
  ASSUME TypeOK, NEW h \in Handles
  PROVE  /\ init[h] # NoDir => init[h] \in Dir
         /\ live[h] # NoDir => live[h] \in Dir
         /\ dead[h] # NoDir => dead[h] \in Dir
BY DEF TypeOK, Dirs

\* A directory and a layer are made for a handle that has none: the driver's part
\* of NewVolume and NewSubvolume.
LEMMA MaterializeStep ==
  ASSUME OverlayInv, ~Reuse, NEW h \in Handles, Creatable(h), NEW d \in Dir, NEW content \in Values \union {Empty},
         LinkFits(d), MountFits(h, d), Materialize(h, d, content)
  PROVE  OverlayInv'
<1>1. /\ init[h] = NoDir /\ live[h] = NoDir /\ dead[h] = NoDir
      /\ layer' = [layer EXCEPT ![h] = content]
      /\ UNCHANGED <<live, dead, tearing, recovering>>
      /\ \/ init' = [init EXCEPT ![h] = d] /\ creating' = creating \union {h}
         \/ UNCHANGED <<init, creating>>
  BY DEF Creatable, Materialize
<1>2. d # NoDir /\ content # NoLayer
  BY Nulls, NullRecords
<1>3. TypeOK'
  BY <1>1 DEF OverlayInv, TypeOK, Dirs
<1>4. Placed'
  <2>1. \A g \in Handles : /\ layer'[g] = IF g = h THEN content ELSE layer[g]
                           /\ init'[g] = init[g] \/ (g = h /\ init'[g] = d)
    BY <1>1 DEF OverlayInv, TypeOK
  <2>2. \A g \in creating' : init'[g] # NoDir
    BY <1>1, <1>2 DEF OverlayInv, TypeOK, Placed
  <2> QED BY <1>1, <1>2, <2>1, <2>2 DEF OverlayInv, Placed
<1>5. Linked' /\ Mounted'
  <2>1. ASSUME NEW g \in creating' PROVE (g \in creating /\ init'[g] = init[g]) \/ (g = h /\ init'[g] = d)
    BY <1>1, <2>1 DEF OverlayInv, TypeOK
  <2>2. Up' = Up
    BY <1>1 DEF Up, HasParent, Parent
  <2>3. Linked'
    BY <1>1, <2>1 DEF OverlayInv, Linked, LinkFits
  <2>4. Mounted'
    BY <1>1, <2>1, <2>2 DEF OverlayInv, Mounted, MountFits
  <2> QED BY <2>3, <2>4
<1>6. Unique(Up)'
  BY <1>1, <1>3, <1>5, RootsKept DEF OverlayInv
<1> QED BY <1>3, <1>4, <1>5, <1>6 DEF OverlayInv

LEMMA NewVolumeStep ==
  ASSUME OverlayInv, ~Reuse, NEW h \in Handles, NewVolume(h)
  PROVE  OverlayInv'
<1> DEFINE d == [parent |-> NoHandle, mount |-> BindMount(h)]
<1>1. d \in Dir /\ LinkFits(d) /\ MountFits(h, d)
  <2>1. BindMount(h) \in Mount /\ BindMount(h).upper = h /\ BindMount(h).lower = NoHandle
    BY DEF BindMount, Mount
  <2>2. d \in Dir /\ d.parent = NoHandle /\ d.mount = BindMount(h) /\ BindMount(h) # NoMount
    BY <2>1, NullRecords DEF Dir
  <2> QED BY <2>1, <2>2 DEF LinkFits, MountFits
<1>2. Creatable(h) /\ Materialize(h, d, MkdirAll(h))
  BY DEF NewVolume
<1>3. MkdirAll(h) \in Values \union {Empty}
  BY DEF MkdirAll, OverlayInv, TypeOK
<1> QED BY <1>1, <1>2, <1>3, MaterializeStep

\* A live root that is mounted is what an overlay is put above.
LEMMA OverlayAbove ==
  ASSUME OverlayInv, NEW h \in Handles, NEW p \in Handles, live[p] # NoDir,
         RootOf(Up)[p] \notin recovering
  PROVE  OverlayMount(h, p) = [upper |-> h, lower |-> RootOf(Up)[p]]
<1> DEFINE g == RootOf(Up)[p]
<1>1. g \in Handles /\ live[g] # NoDir
  BY RootLive DEF OverlayInv
<1>2. MountFits(g, live[g])
  BY <1>1 DEF OverlayInv, Mounted
<1>3. live[g].mount # NoMount /\ live[g].mount.upper = g
  BY <1>2 DEF MountFits
<1>4. findRootParent(p) = g
  BY RootFound DEF OverlayInv
<1> QED BY <1>3, <1>4 DEF OverlayMount

LEMMA CopyLayerType ==
  ASSUME OverlayInv, NEW h \in Handles, NEW p \in Handles, live[p] # NoDir
  PROVE  CopyLayer(h, p) \in Values \union {Empty}
BY DEF OverlayInv, TypeOK, CopyLayer, MkdirAll

LEMMA NewSubvolumeStep ==
  ASSUME OverlayInv, ~Reuse, NEW h \in Handles, NEW p \in Handles, NewSubvolume(h, p)
  PROVE  OverlayInv'
<1> DEFINE m == OverlayMount(h, p)
           d == [parent |-> p, mount |-> m]
           g == RootOf(Up)[p]
<1>1. Creatable(h) /\ live[p] # NoDir /\ Materialize(h, d, CopyLayer(h, p)) /\ recovering = {}
  BY DEF NewSubvolume, Creatable, Serving
<1>2. m = [upper |-> h, lower |-> g]
  BY <1>1, OverlayAbove
<1>3. g \in Handles
  BY <1>1, RootLive DEF OverlayInv
<1>4. m \in Mount /\ m.upper = h /\ m.lower = g /\ m # NoMount
  BY <1>2, <1>3, NullRecords DEF Mount
<1> HIDE DEF m
<1>5. d \in Dir /\ d.parent = p /\ d.mount = m
  BY <1>4 DEF Dir
<1> HIDE DEF d
<1>6. LinkFits(d) /\ MountFits(h, d)
  BY <1>1, <1>4, <1>5, Nulls DEF LinkFits, MountFits
<1> QED BY <1>1, <1>5, <1>6, CopyLayerType, MaterializeStep

\* The rename to live/ puts a volume below its parent.
LEMMA InitializeStep ==
  ASSUME OverlayInv, NEW h \in Handles, Initialize(h)
  PROVE  OverlayInv' /\ \A g \in Handles : live[g] # NoDir => RootOf(Up)'[g] = RootOf(Up)[g]
<1>1. /\ h \in creating /\ live[h] = NoDir /\ init[h] # NoDir /\ init[h] \in Dir /\ recovering = {}
      /\ live' = [live EXCEPT ![h] = init[h]]
      /\ init' = [init EXCEPT ![h] = NoDir]
      /\ creating' = creating \ {h}
      /\ UNCHANGED <<dead, layer, tearing, recovering>>
  BY DirFields DEF Initialize, OverlayInv, Placed, Serving
<1>2. TypeOK'
  BY <1>1 DEF OverlayInv, TypeOK, Dirs
<1>3. /\ \A g \in Handles : live'[g] = IF g = h THEN init[h] ELSE live[g]
      /\ \A g \in Handles : init'[g] = IF g = h THEN NoDir ELSE init[g]
  BY <1>1 DEF OverlayInv, TypeOK
<1>4. Placed'
  BY <1>1, <1>3 DEF OverlayInv, Placed, TypeOK
<1>5. Linked'
  <2>1. \A g \in Handles : live[g] # NoDir => live'[g] # NoDir
    BY <1>1, <1>3
  <2>2. ASSUME NEW g \in Handles, live'[g] # NoDir PROVE LinkFits(live[g])'
    <3>1. live'[g].parent # NoHandle => live'[g].parent \in Handles /\ live[live'[g].parent] # NoDir
      BY <1>1, <1>2, <1>3, <2>2 DEF OverlayInv, Linked, LinkFits, TypeOK, Dirs, Dir
    <3> QED BY <2>1, <3>1 DEF LinkFits
  <2>3. ASSUME NEW g \in creating' PROVE LinkFits(init[g])'
    <3>1. g \in creating /\ g \in Handles /\ init'[g] = init[g] /\ init[g] \in Dir
      BY <1>1, <1>3, <2>3, DirFields DEF OverlayInv, Placed, TypeOK
    <3>2. init[g].parent # NoHandle => init[g].parent \in Handles /\ live[init[g].parent] # NoDir
      BY <3>1 DEF OverlayInv, Linked, LinkFits, Dir
    <3> QED BY <2>1, <3>1, <3>2 DEF LinkFits
  <2> QED BY <2>2, <2>3 DEF Linked
<1>6. LinksStored /\ LinksStored'
  BY <1>2, <1>5, UpStored, UpStoredNext DEF OverlayInv
<1>7. Up[h] = NoHandle /\ Leaf(Up, h)
  BY <1>1, <1>6, Nulls DEF LinksStored, Leaf, OverlayInv, Linked, LinkFits
<1>8. PICK r : RootIn(Up, r)
  BY DEF OverlayInv, Unique
<1>9. RootOf(Up) = r /\ r \in [Handles -> Handles]
  BY <1>8, RootChosen DEF RootIn
<1>10. Unique(Up)' /\ \A g \in Handles : live[g] # NoDir => RootOf(Up)'[g] = RootOf(Up)[g]
  <2>1. CASE init[h].parent = NoHandle
    <3>1. Up' = Up
      BY <1>1, <1>3, <1>6, <1>7, <2>1 DEF LinksStored
    <3> QED BY <3>1 DEF OverlayInv
  <2>2. CASE init[h].parent # NoHandle
    <3> DEFINE p == init[h].parent
    <3>1. p \in Handles \ {h}
      BY <1>1, <2>2 DEF OverlayInv, Linked, LinkFits, Dir
    <3>2. Up' = [Up EXCEPT ![h] = p]
      BY <1>1, <1>3, <1>6, <2>2 DEF LinksStored
    <3>3. RootIn(Up', [r EXCEPT ![h] = r[p]])
      BY <1>6, <1>7, <1>8, <3>1, <3>2, LinkAdded DEF LinksStored
    <3>4. RootOf(Up') = [r EXCEPT ![h] = r[p]]
      BY <3>3, RootChosen
    <3>5. Unique(Up)'
      BY <3>3 DEF Unique
    <3> QED BY <1>1, <1>9, <3>4, <3>5
  <2> QED BY <2>1, <2>2
<1>11. Mounted'
  <2>1. ASSUME NEW g \in Handles, NEW d \in Dir, LinkFits(d), MountFits(g, d)
        PROVE  /\ d.mount # NoMount
               /\ d.mount.upper = g
               /\ d.mount.lower = IF d.parent = NoHandle THEN NoHandle ELSE RootOf(Up)'[d.parent]
    <3>1. d.parent # NoHandle => d.parent \in Handles /\ live[d.parent] # NoDir
      BY <2>1 DEF LinkFits, Dir
    <3> QED BY <1>10, <2>1, <3>1 DEF MountFits
  <2>2. ASSUME NEW g \in Handles, live'[g] # NoDir PROVE MountFits(g, live[g])'
    <3>1. live'[g] \in Dir /\ LinkFits(live'[g]) /\ MountFits(g, live'[g])
      BY <1>1, <1>3, <2>2, DirFields DEF OverlayInv, Linked, Mounted
    <3> QED BY <2>1, <3>1 DEF MountFits
  <2>3. ASSUME NEW g \in creating' PROVE MountFits(g, init[g])'
    <3>1. g \in Handles /\ init'[g] \in Dir /\ LinkFits(init'[g]) /\ MountFits(g, init'[g])
      BY <1>1, <1>3, <2>3, DirFields DEF OverlayInv, Linked, Mounted, Placed, TypeOK
    <3> QED BY <2>1, <3>1 DEF MountFits
  <2> QED BY <2>2, <2>3 DEF Mounted
<1> QED BY <1>2, <1>4, <1>5, <1>10, <1>11 DEF OverlayInv

\* Destroy of a volume that does not go live: nothing that is live is touched.
LEMMA DiscardStep ==
  ASSUME OverlayInv, NEW h \in Handles, Discard(h)
  PROVE  OverlayInv' /\ UNCHANGED <<live, layer>>
<1>1. h \in creating /\ init[h] # NoDir /\ live[h] = NoDir /\ dead[h] = NoDir
  BY DEF Discard, OverlayInv, Placed
<1>2. /\ creating' = creating \ {h}
      /\ dead' = [dead EXCEPT ![h] = init[h]]
      /\ init' = [init EXCEPT ![h] = NoDir]
      /\ tearing' = tearing \union {h}
      /\ UNCHANGED <<live, layer, recovering>>
  BY <1>1 DEF Discard, OverlayInv, TypeOK
<1>3. TypeOK'
  BY <1>2 DEF OverlayInv, TypeOK, Dirs
<1>4. /\ \A g \in Handles : init'[g] = IF g = h THEN NoDir ELSE init[g]
      /\ \A g \in Handles : dead'[g] = IF g = h THEN init[h] ELSE dead[g]
  BY <1>2 DEF OverlayInv, TypeOK
<1>5. Placed'
  BY <1>1, <1>2, <1>4 DEF OverlayInv, Placed, TypeOK
<1>6. ASSUME NEW g \in creating' PROVE g \in creating /\ init'[g] = init[g]
  BY <1>2, <1>4, <1>6 DEF OverlayInv, TypeOK
<1>7. Up' = Up
  BY <1>2 DEF Up, HasParent, Parent
<1>8. Linked'
  BY <1>2, <1>6 DEF OverlayInv, Linked, LinkFits
<1>9. Mounted' /\ Unique(Up)'
  BY <1>2, <1>6, <1>7 DEF OverlayInv, Mounted, MountFits
<1> QED BY <1>2, <1>3, <1>5, <1>8, <1>9 DEF OverlayInv

\* Destroy of a live volume that has no children.
LEMMA DestroyStep ==
  ASSUME OverlayInv, NEW h \in Handles, DestroyVolume(h)
  PROVE  OverlayInv' /\ \A g \in Handles \ {h} : live[g] # NoDir => RootOf(Up)'[g] = RootOf(Up)[g]
<1>1. /\ live[h] # NoDir /\ live[h] \in Dir /\ dead[h] = NoDir /\ recovering = {}
      /\ \A c \in Handles : /\ live[c] # NoDir => live[c].parent # h
                            /\ c \in creating => init[c].parent # h
      /\ dead' = [dead EXCEPT ![h] = live[h]]
      /\ live' = [live EXCEPT ![h] = NoDir]
      /\ tearing' = tearing \union {h}
      /\ UNCHANGED <<init, layer, creating, recovering>>
  BY DirFields DEF DestroyVolume, OverlayInv, Serving, Childless
<1>2. TypeOK'
  BY <1>1 DEF OverlayInv, TypeOK, Dirs
<1>3. /\ \A g \in Handles : live'[g] = IF g = h THEN NoDir ELSE live[g]
      /\ \A g \in Handles : dead'[g] = IF g = h THEN live[h] ELSE dead[g]
  BY <1>1 DEF OverlayInv, TypeOK
<1>4. Placed'
  BY <1>1, <1>3 DEF OverlayInv, Placed, TypeOK
<1>5. ASSUME NEW d \in Dir, d.parent # h, LinkFits(d) PROVE d.parent # NoHandle => d.parent \in Handles \ {h} /\ live'[d.parent] # NoDir
  BY <1>3, <1>5 DEF LinkFits, Dir
<1>6. ASSUME NEW g \in Handles, live'[g] # NoDir
      PROVE  g # h /\ live'[g] = live[g] /\ live[g] # NoDir /\ live[g] \in Dir /\ live[g].parent # h /\ LinkFits(live[g])
  BY <1>1, <1>3, <1>6, DirFields DEF OverlayInv, Linked
<1>7. ASSUME NEW g \in creating
      PROVE  g \in Handles /\ init'[g] = init[g] /\ init[g] \in Dir /\ init[g].parent # h /\ LinkFits(init[g])
  BY <1>1, DirFields DEF OverlayInv, Linked, Placed, TypeOK
<1>8. Linked'
  <2>1. ASSUME NEW g \in Handles, live'[g] # NoDir PROVE LinkFits(live[g])'
    BY <1>5, <1>6, <2>1 DEF LinkFits
  <2>2. ASSUME NEW g \in creating' PROVE LinkFits(init[g])'
    BY <1>1, <1>5, <1>7, <2>2 DEF LinkFits
  <2> QED BY <2>1, <2>2 DEF Linked
<1>9. LinksStored /\ LinksStored'
  BY <1>2, <1>8, UpStored, UpStoredNext DEF OverlayInv
<1>10. Leaf(Up, h) /\ Up' = [Up EXCEPT ![h] = NoHandle]
  <2>1. Leaf(Up, h)
    BY <1>1, <1>9, Nulls DEF LinksStored, Leaf
  <2>2. Up' = [Up EXCEPT ![h] = NoHandle]
    BY <1>3, <1>9 DEF LinksStored
  <2> QED BY <2>1, <2>2
<1>11. PICK r : RootIn(Up, r)
  BY DEF OverlayInv, Unique
<1>12. RootIn(Up', [r EXCEPT ![h] = h])
  BY <1>9, <1>10, <1>11, LinkDropped DEF LinksStored
<1>13. RootOf(Up) = r /\ r \in [Handles -> Handles] /\ RootOf(Up') = [r EXCEPT ![h] = h]
  BY <1>11, <1>12, RootChosen DEF RootIn
<1>14. Unique(Up)' /\ \A g \in Handles \ {h} : RootOf(Up)'[g] = RootOf(Up)[g]
  BY <1>12, <1>13 DEF Unique
<1>15. Mounted'
  <2>1. ASSUME NEW g \in Handles, NEW d \in Dir, d.parent # h, LinkFits(d), MountFits(g, d)
        PROVE  /\ d.mount # NoMount
               /\ d.mount.upper = g
               /\ d.mount.lower = IF d.parent = NoHandle THEN NoHandle ELSE RootOf(Up)'[d.parent]
    BY <1>5, <1>14, <2>1 DEF MountFits
  <2>2. ASSUME NEW g \in Handles, live'[g] # NoDir PROVE MountFits(g, live[g])'
    <3>1. MountFits(g, live[g])
      BY <1>1, <1>6, <2>2 DEF OverlayInv, Mounted
    <3> QED BY <1>6, <2>1, <2>2, <3>1 DEF MountFits
  <2>3. ASSUME NEW g \in creating' PROVE MountFits(g, init[g])'
    <3>1. MountFits(g, init[g]) /\ g \in creating
      BY <1>1, <2>3 DEF OverlayInv, Mounted
    <3> QED BY <1>7, <2>1, <3>1 DEF MountFits
  <2> QED BY <2>2, <2>3 DEF Mounted
<1> QED BY <1>2, <1>4, <1>8, <1>14, <1>15 DEF OverlayInv

\* What becomes of a directory when a layer goes.
LEMMA WithoutLayer ==
  ASSUME NEW h \in Handles, NEW d \in Dirs
  PROVE  /\ Without(h, d) \in Dirs
         /\ Without(h, d) = NoDir <=> d = NoDir
         /\ d # NoDir /\ (d.mount # NoMount => d.mount.upper # h /\ d.mount.lower # h) => Without(h, d) = d
<1>1. CASE d = NoDir \/ d.mount = NoMount
  BY <1>1 DEF Without
<1>2. CASE d # NoDir /\ d.mount # NoMount
  <2>1. d \in Dir /\ d.mount \in Mount
    BY <1>2 DEF Dirs, Dir
  <2> DEFINE m == [d.mount EXCEPT !.upper = IF @ = h THEN Gone ELSE @, !.lower = IF @ = h THEN Gone ELSE @]
             e == [d EXCEPT !.mount = m]
  <2>2. Without(h, d) = e
    BY <1>2, <2>1 DEF Without, Dir, Mount
  <2>3. m \in Mount /\ (d.mount.upper # h /\ d.mount.lower # h => m = d.mount)
    BY <2>1 DEF Mount
  <2> HIDE DEF m
  <2>4. e \in Dir /\ (m = d.mount => e = d)
    BY <2>1, <2>3 DEF Dir
  <2> QED BY <1>2, <2>2, <2>3, <2>4, NullRecords DEF Dirs
<1> QED BY <1>1, <1>2

\* The layer that TearDown removes is below no volume.
LEMMA TearDownStep ==
  ASSUME OverlayInv, NEW h \in Handles, TearDown(h)
  PROVE  OverlayInv' /\ live' = live /\ \A g \in Handles \ {h} : layer'[g] = layer[g]
<1>1. PICK rest \in {NoDir} \union (IF Faults THEN {Unmount(dead[h])} ELSE {}) : RemoveLayer(h, rest)
  BY DEF TearDown
<1>2. h \in tearing /\ dead[h] # NoDir /\ dead[h] \in Dir /\ live[h] = NoDir /\ init[h] = NoDir /\ recovering = {}
      /\ tearing' = tearing \ {h} /\ UNCHANGED <<creating, recovering>>
  BY DirFields DEF TearDown, Serving, OverlayInv, Placed
<1>3. rest \in Dirs
  BY <1>1, <1>2 DEF Unmount, Dirs, Dir
<1>4. /\ layer' = [layer EXCEPT ![h] = NoLayer]
      /\ init' = [g \in Handles |-> Without(h, init[g])]
      /\ live' = [g \in Handles |-> Without(h, live[g])]
      /\ dead' = [g \in Handles |-> IF g = h THEN rest ELSE Without(h, dead[g])]
  BY <1>1 DEF RemoveLayer
<1>5. ASSUME NEW g \in Handles, NEW d \in Dir, d = live[g] \/ (g \in creating /\ d = init[g])
      PROVE  Without(h, d) = d
  <2>1. g # h /\ d # NoDir /\ d \in Dirs
    BY <1>2, <1>5, NullRecords DEF Dirs
  <2>2. MountFits(g, d) /\ LinkFits(d)
    BY <1>2, <1>5, <2>1 DEF OverlayInv, Mounted, Linked
  <2>3. d.mount.upper # h
    BY <2>1, <2>2 DEF MountFits
  <2>4. d.mount.lower # h
    <3>1. CASE d.parent = NoHandle
      BY <2>2, <3>1, Nulls DEF MountFits
    <3>2. CASE d.parent # NoHandle
      <4>1. d.parent \in Handles /\ live[d.parent] # NoDir
        BY <2>2, <3>2 DEF LinkFits, Dir
      <4>2. live[RootOf(Up)[d.parent]] # NoDir
        BY <4>1, RootLive DEF OverlayInv
      <4> QED BY <1>2, <2>2, <3>2, <4>2 DEF MountFits
    <3> QED BY <3>1, <3>2
  <2> QED BY <2>1, <2>3, <2>4, WithoutLayer
<1>6. /\ \A g \in Handles : live[g] \in Dirs /\ init[g] \in Dirs /\ dead[g] \in Dirs
      /\ live \in [Handles -> Dirs]
  BY DEF OverlayInv, TypeOK
<1>7. live' = live
  <2>1. \A g \in Handles : Without(h, live[g]) = live[g]
    BY <1>5, <1>6, WithoutLayer DEF Dirs
  <2> QED BY <1>4, <1>6, <2>1
<1>8. TypeOK'
  <2>1. init' \in [Handles -> Dirs] /\ dead' \in [Handles -> Dirs]
    BY <1>3, <1>4, <1>6, WithoutLayer
  <2> QED BY <1>2, <1>4, <1>7, <2>1 DEF OverlayInv, TypeOK
<1>9. Placed'
  <2>1. \A g \in Handles : /\ init'[g] = NoDir <=> init[g] = NoDir
                           /\ g # h => (dead'[g] = NoDir <=> dead[g] = NoDir) /\ layer'[g] = layer[g]
    BY <1>4, <1>6, WithoutLayer DEF OverlayInv, TypeOK
  <2> QED BY <1>2, <1>7, <2>1 DEF OverlayInv, Placed, TypeOK
<1>10. \A g \in creating : g \in Handles /\ init'[g] = init[g]
  <2>1. \A g \in creating : g \in Handles /\ init[g] \in Dir
    BY DirFields DEF OverlayInv, TypeOK, Placed
  <2> QED BY <1>4, <1>5, <2>1
<1>11. Up' = Up
  BY <1>7 DEF Up, HasParent, Parent
<1>12. Linked'
  BY <1>2, <1>7, <1>10 DEF OverlayInv, Linked, LinkFits
<1>13. Mounted' /\ Unique(Up)'
  BY <1>2, <1>7, <1>10, <1>11 DEF OverlayInv, Mounted, MountFits
<1>14. \A g \in Handles \ {h} : layer'[g] = layer[g]
  BY <1>4 DEF OverlayInv, TypeOK
<1> QED BY <1>7, <1>8, <1>9, <1>12, <1>13, <1>14 DEF OverlayInv

LEMMA TearDownFailsStep ==
  ASSUME OverlayInv, NEW h \in Handles, TearDownFails(h)
  PROVE  OverlayInv' /\ UNCHANGED <<live, layer>>
<1>1. h \in tearing /\ dead[h] # NoDir /\ dead[h] \in Dir
  BY DirFields DEF TearDownFails, OverlayInv, Placed
<1>2. PICK rest \in {dead[h], Unmount(dead[h])} : dead' = [dead EXCEPT ![h] = rest]
  BY DEF TearDownFails
<1>3. rest \in Dir /\ rest # NoDir
  BY <1>1, <1>2, NullRecords DEF Unmount, Dir
<1>4. tearing' = tearing \ {h} /\ UNCHANGED <<init, live, layer, creating, recovering>>
  BY DEF TearDownFails
<1>5. TypeOK'
  BY <1>2, <1>3, <1>4 DEF OverlayInv, TypeOK, Dirs
<1>6. Placed'
  <2>1. \A g \in Handles : dead'[g] = NoDir <=> dead[g] = NoDir
    BY <1>1, <1>2, <1>3 DEF OverlayInv, TypeOK
  <2> QED BY <1>4, <2>1 DEF OverlayInv, Placed, TypeOK
<1>7. Up' = Up
  BY <1>4 DEF Up, HasParent, Parent
<1>8. Linked' /\ Mounted' /\ Unique(Up)'
  BY <1>4, <1>7 DEF OverlayInv, Linked, LinkFits, Mounted, MountFits
<1> QED BY <1>4, <1>5, <1>6, <1>8 DEF OverlayInv

\* A container writes to the layer of the volume it is given.
LEMMA WriteStep ==
  ASSUME OverlayInv, NEW h \in Handles, Write(h)
  PROVE  OverlayInv' /\ UNCHANGED live /\ \A g \in Handles \ {h} : layer'[g] = layer[g]
<1>1. PICK v \in Values : WriteTo(live[h], v) \/ (h \in creating /\ WriteTo(init[h], v))
  BY DEF Write
<1>2. recovering = {}
  BY DEF Write, Serving
<1>3. layer' = [layer EXCEPT ![h] = v] /\ UNCHANGED <<init, live, dead, creating, tearing, recovering>>
  <2>1. CASE WriteTo(live[h], v)
    <3>1. live[h].mount.upper = h
      BY <1>2, <2>1 DEF WriteTo, OverlayInv, Mounted, MountFits
    <3> QED BY <2>1, <3>1 DEF WriteTo
  <2>2. CASE h \in creating /\ WriteTo(init[h], v)
    <3>1. init[h].mount.upper = h
      BY <2>2 DEF OverlayInv, Mounted, MountFits
    <3> QED BY <2>2, <3>1 DEF WriteTo
  <2> QED BY <1>1, <2>1, <2>2
<1>4. TypeOK'
  BY <1>3 DEF OverlayInv, TypeOK
<1>5. v # NoLayer /\ \A g \in Handles : layer'[g] = IF g = h THEN v ELSE layer[g]
  BY <1>3, Nulls DEF OverlayInv, TypeOK
<1>6. Placed'
  BY <1>3, <1>5 DEF OverlayInv, Placed
<1>7. Up' = Up
  BY <1>3 DEF Up, HasParent, Parent
<1>8. Linked' /\ Mounted' /\ Unique(Up)'
  BY <1>3, <1>7 DEF OverlayInv, Linked, LinkFits, Mounted, MountFits
<1> QED BY <1>3, <1>4, <1>5, <1>6, <1>8 DEF OverlayInv

\* After a reboot no volume is mounted, and Recover has them all to do.
LEMMA RebootStep ==
  ASSUME OverlayInv, Reboot
  PROVE  /\ OverlayInv'
         /\ Up' = Up /\ RootOf(Up)' = RootOf(Up) /\ layer' = layer
         /\ \A g \in Handles : live[g] # NoDir => live'[g].parent = live[g].parent
<1>1. /\ init' = Unmounted(init) /\ live' = Unmounted(live) /\ dead' = Unmounted(dead)
      /\ creating' = {} /\ tearing' = {}
      /\ recovering' = {h \in Handles : live[h] # NoDir}
      /\ UNCHANGED layer
  BY DEF Reboot
<1>2. ASSUME NEW d \in Dir PROVE Unmount(d) \in Dir /\ Unmount(d) # NoDir /\ Unmount(d).parent = d.parent
  BY NullRecords DEF Unmount, Dir
<1>3. \A h \in Handles : /\ init'[h] \in Dirs /\ (init'[h] = NoDir <=> init[h] = NoDir)
                         /\ live'[h] \in Dirs /\ (live'[h] = NoDir <=> live[h] = NoDir)
                         /\ dead'[h] \in Dirs /\ (dead'[h] = NoDir <=> dead[h] = NoDir)
  BY <1>1, <1>2, DirFields DEF Unmounted, Dirs, OverlayInv
<1>4. \A h \in Handles : live[h] # NoDir => live'[h].parent = live[h].parent
  BY <1>1, <1>2, DirFields DEF Unmounted, OverlayInv
<1>5. TypeOK'
  <2>1. init' \in [Handles -> Dirs] /\ live' \in [Handles -> Dirs] /\ dead' \in [Handles -> Dirs]
    BY <1>1, <1>3 DEF Unmounted
  <2> QED BY <1>1, <2>1 DEF OverlayInv, TypeOK
<1>6. Placed'
  BY <1>1, <1>3 DEF OverlayInv, Placed
<1>7. Linked'
  <2>1. ASSUME NEW h \in Handles, live'[h] # NoDir PROVE LinkFits(live[h])'
    <3>1. live[h] \in Dir /\ live'[h].parent = live[h].parent /\ LinkFits(live[h])
      BY <1>3, <1>4, <2>1, DirFields DEF OverlayInv, Linked
    <3> QED BY <1>3, <3>1 DEF LinkFits, Dir
  <2> QED BY <1>1, <2>1 DEF Linked
<1>8. Mounted'
  <2>1. ASSUME NEW h \in Handles, live'[h] # NoDir PROVE h \in recovering'
    BY <1>1, <1>3, <2>1
  <2> QED BY <1>1, <2>1 DEF Mounted
<1>9. Up' = Up /\ RootOf(Up)' = RootOf(Up) /\ Unique(Up)'
  BY <1>3, <1>4, <1>5, <1>7, RootsKept DEF OverlayInv
<1> QED BY <1>1, <1>4, <1>5, <1>6, <1>7, <1>8, <1>9 DEF OverlayInv

\* One volume is mounted as it should be.
LEMMA RemountStep ==
  ASSUME OverlayInv, NEW h \in recovering, NEW mount \in Mount, NEW content \in Values \union {Empty},
         mount.upper = h,
         mount.lower = IF live[h].parent = NoHandle THEN NoHandle ELSE RootOf(Up)[live[h].parent],
         Remount(h, mount, content)
  PROVE  /\ OverlayInv'
         /\ Up' = Up /\ RootOf(Up)' = RootOf(Up)
         /\ \A g \in Handles : live[g] # NoDir => live'[g].parent = live[g].parent
         /\ \A g \in Handles : layer'[g] = IF g = h THEN content ELSE layer[g]
<1>1. /\ h \in Handles /\ live[h] # NoDir /\ live[h] \in Dir
      /\ live' = [live EXCEPT ![h].mount = mount]
      /\ layer' = [layer EXCEPT ![h] = content]
      /\ recovering' = recovering \ {h}
      /\ UNCHANGED <<init, dead, creating, tearing>>
  BY DirFields DEF Remount, OverlayInv, Placed, TypeOK
<1> DEFINE d == [live[h] EXCEPT !.mount = mount]
<1>2. d \in Dir /\ d # NoDir /\ d.parent = live[h].parent /\ d.mount = mount
  BY <1>1, NullRecords DEF Dir
<1>3. live' = [live EXCEPT ![h] = d]
  BY <1>1
<1> HIDE DEF d
<1>4. \A g \in Handles : /\ live'[g] = IF g = h THEN d ELSE live[g]
                         /\ layer'[g] = IF g = h THEN content ELSE layer[g]
  BY <1>1, <1>3 DEF OverlayInv, TypeOK
<1>5. /\ \A g \in Handles : live'[g] # NoDir <=> live[g] # NoDir
      /\ \A g \in Handles : live[g] # NoDir => live'[g].parent = live[g].parent
  BY <1>1, <1>2, <1>4
<1>6. TypeOK'
  BY <1>1, <1>2, <1>3 DEF OverlayInv, TypeOK, Dirs
<1>7. Placed'
  BY <1>1, <1>4, <1>5, Nulls DEF OverlayInv, Placed, TypeOK
<1>8. Linked'
  <2>1. ASSUME NEW e \in Dir, LinkFits(e) PROVE e.parent # NoHandle => live'[e.parent] # NoDir
    BY <1>5, <2>1 DEF LinkFits, Dir
  <2>2. ASSUME NEW g \in Handles, live'[g] # NoDir PROVE LinkFits(live[g])'
    <3>1. live[g] \in Dir /\ LinkFits(live[g]) /\ live'[g].parent = live[g].parent
      BY <1>5, <2>2, DirFields DEF OverlayInv, Linked
    <3> QED BY <2>1, <3>1 DEF LinkFits
  <2>3. ASSUME NEW g \in creating' PROVE LinkFits(init[g])'
    <3>1. init'[g] = init[g] /\ init[g] \in Dir /\ LinkFits(init[g])
      BY <1>1, <2>3, DirFields DEF OverlayInv, Linked, Placed, TypeOK
    <3> QED BY <2>1, <3>1 DEF LinkFits
  <2> QED BY <2>2, <2>3 DEF Linked
<1>9. Up' = Up /\ RootOf(Up)' = RootOf(Up) /\ Unique(Up)'
  BY <1>5, <1>6, <1>8, RootsKept DEF OverlayInv
<1>10. Mounted'
  <2>1. ASSUME NEW g \in Handles, live'[g] # NoDir, g \notin recovering' PROVE MountFits(g, live[g])'
    <3>1. CASE g = h
      <4>1. live'[g] = d /\ mount # NoMount
        BY <1>4, <3>1, NullRecords
      <4> QED BY <1>2, <1>9, <3>1, <4>1 DEF MountFits
    <3>2. CASE g # h
      <4>1. live'[g] = live[g] /\ MountFits(g, live[g])
        BY <1>1, <1>4, <2>1, <3>2 DEF OverlayInv, Mounted
      <4> QED BY <1>9, <4>1 DEF MountFits
    <3> QED BY <3>1, <3>2
  <2>2. ASSUME NEW g \in creating' PROVE MountFits(g, init[g])'
    BY <1>1, <1>9, <2>2 DEF OverlayInv, Mounted, MountFits
  <2> QED BY <2>1, <2>2 DEF Mounted
<1> QED BY <1>4, <1>5, <1>6, <1>7, <1>8, <1>9, <1>10 DEF OverlayInv

\* Recover of a volume without parent, with what it leaves in the layers.
LEMMA RecoverBindStep ==
  ASSUME OverlayInv, NEW h \in Handles, RecoverBind(h)
  PROVE  /\ OverlayInv'
         /\ Up' = Up /\ RootOf(Up)' = RootOf(Up)
         /\ \A g \in Handles : live[g] # NoDir => live'[g].parent = live[g].parent
         /\ \A g \in Handles : layer'[g] = layer[g]
<1>1. h \in recovering /\ live[h] # NoDir /\ live[h].parent = NoHandle
  BY UpStored DEF RecoverBind, OverlayInv, Placed, LinksStored
<1>2. MkdirAll(h) = layer[h] /\ layer[h] \in Values \union {Empty}
  BY <1>1 DEF MkdirAll, OverlayInv, Placed, TypeOK
<1>3. BindMount(h) \in Mount /\ BindMount(h).upper = h /\ BindMount(h).lower = NoHandle
  BY DEF BindMount, Mount
<1>4. Remount(h, BindMount(h), layer[h])
  BY <1>2 DEF RecoverBind
<1>5. BindMount(h).lower = IF live[h].parent = NoHandle THEN NoHandle ELSE RootOf(Up)[live[h].parent]
  BY <1>1, <1>3
<1>6. \A g \in Handles : layer'[g] = IF g = h THEN layer[h] ELSE layer[g]
  BY <1>1, <1>2, <1>3, <1>4, <1>5, RemountStep
<1> QED BY <1>1, <1>2, <1>3, <1>4, <1>5, <1>6, RemountStep

\* Recover of a volume with parent: the root is mounted by then.
LEMMA RecoverOverlayStep ==
  ASSUME OverlayInv, NEW h \in Handles, RecoverOverlay(h)
  PROVE  /\ OverlayInv'
         /\ Up' = Up /\ RootOf(Up)' = RootOf(Up)
         /\ \A g \in Handles : live[g] # NoDir => live'[g].parent = live[g].parent
         /\ live[h] # NoDir /\ live[h].parent \in Handles /\ live[live[h].parent] # NoDir
         /\ \A g \in Handles : layer'[g] = IF g = h THEN CopyLayer(h, live[h].parent) ELSE layer[g]
<1> DEFINE p == live[h].parent
           c == CopyLayer(h, p)
           m == [upper |-> h, lower |-> RootOf(Up)[p]]
<1>1. /\ h \in recovering /\ live[h] # NoDir /\ live[h] \in Dir /\ Parent(live[h]) = p /\ p # NoHandle
      /\ \A g \in recovering : live[g].parent # NoHandle
  BY UpStored DEF RecoverOverlay, OverlayInv, Placed, LinksStored, TypeOK
<1>2. p \in Handles /\ live[p] # NoDir
  BY <1>1 DEF OverlayInv, Linked, LinkFits, Dir
<1>3. /\ RootOf(Up)[p] \in Handles /\ RootOf(Up)[p] \notin recovering
  BY <1>1, <1>2, RootLive DEF OverlayInv
<1>4. OverlayMount(h, p) = m
  BY <1>2, <1>3, OverlayAbove
<1>5. Remount(h, m, c)
  BY <1>1, <1>4 DEF RecoverOverlay
<1>6. m \in Mount /\ m.upper = h /\ m.lower = RootOf(Up)[p]
  BY <1>3 DEF Mount
<1>7. c \in Values \union {Empty}
  BY <1>2, CopyLayerType
<1> HIDE DEF m, c
<1>8. m.lower = IF p = NoHandle THEN NoHandle ELSE RootOf(Up)[p]
  BY <1>1, <1>6
<1>9. /\ OverlayInv' /\ Up' = Up /\ RootOf(Up)' = RootOf(Up)
      /\ \A g \in Handles : live[g] # NoDir => live'[g].parent = live[g].parent
      /\ \A g \in Handles : layer'[g] = IF g = h THEN c ELSE layer[g]
  BY <1>1, <1>5, <1>6, <1>7, <1>8, RemountStep
<1> QED BY <1>1, <1>2, <1>9 DEF c

\* OverlayInv is an inductive invariant.
LEMMA InvInit == Init => OverlayInv
<1> SUFFICES ASSUME Init PROVE OverlayInv
  OBVIOUS
<1>1. TypeOK /\ Placed /\ Linked /\ Mounted
  BY DEF Init, TypeOK, Placed, Linked, Mounted, Dirs
<1>2. LinksStored
  BY <1>1, UpStored
<1>3. RootIn(Up, [h \in Handles |-> h])
  BY <1>2, NoLinks DEF LinksStored, Init
<1> QED BY <1>1, <1>3 DEF OverlayInv, Unique

LEMMA InvStep ==
  ASSUME OverlayInv, ~Reuse, [Next]_vars
  PROVE  OverlayInv'
<1>1. ASSUME NEW h \in Handles, Write(h) PROVE OverlayInv'
  BY <1>1, WriteStep
<1>2. CASE Create
  BY <1>2, NewVolumeStep, NewSubvolumeStep, InitializeStep DEF Create
<1>3. CASE Destroy
  BY <1>3, DiscardStep, DestroyStep, TearDownStep, TearDownFailsStep DEF Destroy
<1>4. CASE Recover
  BY <1>4, RecoverBindStep, RecoverOverlayStep DEF Recover
<1>5. CASE Reboot
  BY <1>5, RebootStep
<1>6. CASE UNCHANGED vars
  <2>1. UNCHANGED <<init, live, dead, layer, creating, tearing, recovering>>
    BY <1>6 DEF vars
  <2>2. Up' = Up
    BY <2>1 DEF Up, HasParent, Parent
  <2>3. TypeOK' /\ Placed'
    BY <2>1 DEF OverlayInv, TypeOK, Placed
  <2>4. Linked' /\ Mounted' /\ Unique(Up)'
    BY <2>1, <2>2 DEF OverlayInv, Linked, LinkFits, Mounted, MountFits
  <2> QED BY <2>3, <2>4 DEF OverlayInv
<1> QED BY <1>1, <1>2, <1>3, <1>4, <1>5, <1>6 DEF Next

\* While requests are served every live volume shows its own layer, above that of
\* its oldest ancestor: created, destroyed, torn down, recovered after a reboot,
\* with mounts and stores that fail, at any depth of nesting; for handles that are
\* not used again while something is left of them.
THEOREM MountsRightHolds ==
  ASSUME ~Reuse
  PROVE  Spec => []MountsRight
<1>1. OverlayInv => MountsRight
  <2> SUFFICES ASSUME OverlayInv, Serving, NEW h \in Handles, live[h] # NoDir
               PROVE  /\ live[h].mount # NoMount
                      /\ live[h].mount.upper = h
                      /\ layer[h] # NoLayer
                      /\ live[h].mount.lower =
                            IF live[h].parent = NoHandle THEN NoHandle
                            ELSE IF live[live[h].parent].parent = NoHandle THEN live[h].parent
                            ELSE live[live[h].parent].mount.lower
    BY DEF MountsRight
  <2>1. MountFits(h, live[h]) /\ layer[h] # NoLayer
    BY DEF OverlayInv, Mounted, Placed, Serving
  <2>2. CASE live[h].parent = NoHandle
    BY <2>1, <2>2 DEF MountFits
  <2>3. CASE live[h].parent # NoHandle
    <3> DEFINE p == live[h].parent
    <3>1. p \in Handles /\ live[p] # NoDir
      BY <2>3, DirFields DEF OverlayInv, Linked, LinkFits, Dir
    <3>2. MountFits(p, live[p])
      BY <3>1 DEF OverlayInv, Mounted, Serving
    <3>3. RootOf(Up)[p] = IF live[p].parent = NoHandle THEN p ELSE RootOf(Up)[live[p].parent]
      BY <3>1, RootLive DEF OverlayInv
    <3> QED BY <2>1, <2>3, <3>2, <3>3 DEF MountFits
  <2> QED BY <2>2, <2>3
<1>2. OverlayInv /\ [Next]_vars => OverlayInv'
  BY InvStep
<1> QED BY <1>1, <1>2, InvInit, PTL DEF Spec
-----------------------------------------------------------------------------
\* What a volume shows, by the root of its links.
Look(h, d) == IF layer[h] \in Values \/ d.parent = NoHandle THEN layer[h] ELSE layer[RootOf(Up)[d.parent]]

ShownByRoot == /\ \A h \in Handles : live[h] # NoDir => Shown(h, live[h]) = Look(h, live[h])
               /\ \A h \in creating : Shown(h, init[h]) = Look(h, init[h])
               /\ \A h \in Handles : findRootParent(h) = RootOf(Up)[h]

LEMMA ShownFound == OverlayInv => ShownByRoot
<1> SUFFICES ASSUME OverlayInv PROVE ShownByRoot
  OBVIOUS
<1>1. \A h \in Handles : findRootParent(h) = RootOf(Up)[h]
  BY RootFound DEF OverlayInv
<1>2. ASSUME NEW h \in Handles, NEW d \in Dir PROVE Shown(h, d) = Look(h, d)
  BY <1>1 DEF Shown, Look, Dir
<1>3. \A h \in creating : h \in Handles /\ init[h] \in Dir
  BY DirFields DEF OverlayInv, Placed, TypeOK
<1> QED BY <1>1, <1>2, <1>3, DirFields DEF ShownByRoot, OverlayInv

\* The same after a step.
LEMMA ShownFoundNext == OverlayInv' => ShownByRoot'
BY ShownFound, PTL

\* A copy-on-write volume begins with the data of its parent, at any depth of
\* nesting.
THEOREM StartsAsParentHolds ==
  ASSUME ~Reuse
  PROVE  Spec => StartsAsParent
<1> DEFINE A == \A h, p \in Handles : NewSubvolume(h, p) /\ init'[h] # NoDir => Shown(h, init[h])' = Shown(p, live[p])
<1>1. ASSUME OverlayInv, [Next]_vars PROVE [A]_vars
  <2> SUFFICES ASSUME NEW h \in Handles, NEW p \in Handles, NewSubvolume(h, p), init'[h] # NoDir
               PROVE  Shown(h, init[h])' = Shown(p, live[p])
    OBVIOUS
  <2>1. ShownByRoot /\ ShownByRoot'
    BY <1>1, InvStep, ShownFound, ShownFoundNext
  <2>2. /\ init[h] = NoDir /\ live[h] = NoDir /\ layer[h] = NoLayer /\ live[p] # NoDir /\ live' = live
        /\ layer' = [layer EXCEPT ![h] = CopyLayer(h, p)]
        /\ h \in creating' /\ init'[h].parent = p /\ p # NoHandle
    BY <1>1, Nulls DEF NewSubvolume, Creatable, Materialize, OverlayInv, TypeOK
  <2>3. Up' = Up
    BY <2>2 DEF Up, HasParent, Parent
  <2>4. Shown(p, live[p]) = Look(p, live[p]) /\ Shown(h, init[h])' = Look(h, init[h])'
    BY <2>1, <2>2 DEF ShownByRoot
  <2>5. /\ RootOf(Up)[p] \in Handles /\ live[RootOf(Up)[p]] # NoDir
        /\ RootOf(Up)[p] = IF live[p].parent = NoHandle THEN p ELSE RootOf(Up)[live[p].parent]
    BY <1>1, <2>2, RootLive DEF OverlayInv
  <2>6. /\ layer'[h] = CopyLayer(h, p) /\ layer'[RootOf(Up)[p]] = layer[RootOf(Up)[p]]
    BY <1>1, <2>2, <2>5 DEF OverlayInv, TypeOK
  <2>7. CopyLayer(h, p) = IF live[p].parent # NoHandle /\ layer[p] \in Values THEN layer[p] ELSE Empty
    <3>1. (HasParent(live[p]) <=> live[p].parent # NoHandle) /\ layer[p] \in Values \union {NoLayer, Empty}
      BY <1>1, <2>2, UpStored DEF OverlayInv, LinksStored, TypeOK
    <3> QED BY <2>2, <3>1, Nulls DEF CopyLayer, MkdirAll
  <2>8. Look(h, init[h])' = IF CopyLayer(h, p) \in Values THEN CopyLayer(h, p) ELSE layer[RootOf(Up)[p]]
    BY <2>2, <2>3, <2>6 DEF Look
  <2> QED BY <2>4, <2>5, <2>7, <2>8, Nulls DEF Look
<1>2. OverlayInv /\ [Next]_vars => OverlayInv'
  BY InvStep
<1> QED BY <1>1, <1>2, InvInit, PTL DEF Spec, StartsAsParent

\* The data of a live volume is changed by who writes to it or to the volume it is
\* built on, and by Recover if its parent has a parent; by no other request, by no
\* failure and by no reboot.
THEOREM DataKeptHolds ==
  ASSUME ~Reuse
  PROVE  Spec => DataKept
<1> DEFINE Cause(h) == \/ \E g \in {h, findRootParent(h)} : Write(g)
                       \/ RecoverOverlay(h) /\ HasParent(live[live[h].parent])
           A == \A h \in Handles : Changes(h) => Cause(h)
<1>1. ASSUME OverlayInv, [Next]_vars PROVE [A]_vars
  <2> SUFFICES ASSUME NEW h \in Handles, Changes(h), Next PROVE Cause(h)
    BY <1>1
  <2> DEFINE r == RootOf(Up)[h]
  <2>1. ShownByRoot /\ ShownByRoot' /\ OverlayInv'
    BY <1>1, InvStep, ShownFound, ShownFoundNext
  <2>2. live[h] # NoDir /\ live'[h] # NoDir /\ Look(h, live[h])' # Look(h, live[h]) /\ findRootParent(h) = r
    BY <2>1 DEF Changes, ShownByRoot
  <2>3. /\ r \in Handles /\ live[r] # NoDir /\ live[r].parent = NoHandle
        /\ r = IF live[h].parent = NoHandle THEN h ELSE RootOf(Up)[live[h].parent]
        /\ live[h].parent # NoHandle => live[h].parent \in Handles /\ live[live[h].parent] # NoDir
    BY <1>1, <2>2, RootLive, DirFields DEF OverlayInv, Linked, LinkFits, Dir
  <2>4. Look(h, live[h]) = IF layer[h] \in Values \/ live[h].parent = NoHandle THEN layer[h] ELSE layer[r]
    BY <2>3 DEF Look
  <2>5. ASSUME live'[h].parent = live[h].parent,
               live[h].parent # NoHandle => RootOf(Up)'[live[h].parent] = RootOf(Up)[live[h].parent]
        PROVE  layer'[h] # layer[h] \/ layer'[r] # layer[r]
    <3>1. Look(h, live[h])' = IF layer'[h] \in Values \/ live[h].parent = NoHandle THEN layer'[h] ELSE layer'[r]
      BY <2>3, <2>5 DEF Look
    <3> QED BY <2>2, <2>4, <3>1
  <2>6. ASSUME live' = live PROVE layer'[h] # layer[h] \/ layer'[r] # layer[r]
    <3>1. Up' = Up
      BY <2>6 DEF Up, HasParent, Parent
    <3> QED BY <2>5, <2>6, <3>1
  <2> HIDE DEF r
  <2>7. ASSUME NEW g \in Handles, NewVolume(g) \/ (\E p \in Handles : NewSubvolume(g, p)) PROVE FALSE
    <3>1. live' = live /\ live[g] = NoDir /\ \A x \in Handles \ {g} : layer'[x] = layer[x]
      BY <1>1, <2>7 DEF NewVolume, NewSubvolume, Creatable, Materialize, OverlayInv, TypeOK
    <3> QED BY <2>2, <2>3, <2>6, <3>1
  <2>8. ASSUME NEW g \in Handles, Initialize(g) PROVE FALSE
    <3>1. live'[h] = live[h] /\ layer' = layer
      BY <1>1, <2>2, <2>8 DEF Initialize, OverlayInv, TypeOK
    <3>2. live[h].parent # NoHandle => RootOf(Up)'[live[h].parent] = RootOf(Up)[live[h].parent]
      BY <1>1, <2>3, <2>8, InitializeStep
    <3> QED BY <2>5, <3>1, <3>2
  <2>9. ASSUME NEW g \in Handles, DestroyVolume(g) PROVE FALSE
    <3>1. live'[h] = live[h] /\ layer' = layer /\ live[h].parent # g
      BY <1>1, <2>2, <2>9 DEF DestroyVolume, Childless, OverlayInv, TypeOK
    <3>2. live[h].parent # NoHandle => RootOf(Up)'[live[h].parent] = RootOf(Up)[live[h].parent]
      BY <1>1, <2>3, <2>9, <3>1, DestroyStep
    <3> QED BY <2>5, <3>1, <3>2
  <2>10. ASSUME NEW g \in Handles, Discard(g) \/ TearDownFails(g) PROVE FALSE
    <3>1. live' = live /\ layer' = layer
      BY <1>1, <2>10, DiscardStep, TearDownFailsStep
    <3> QED BY <2>6, <3>1
  <2>11. ASSUME NEW g \in Handles, TearDown(g) PROVE FALSE
    <3>1. live' = live /\ live[g] = NoDir /\ \A x \in Handles \ {g} : layer'[x] = layer[x]
      BY <1>1, <2>11, TearDownStep DEF TearDown, OverlayInv, Placed
    <3> QED BY <2>2, <2>3, <2>6, <3>1
  <2>12. ASSUME NEW g \in Handles, Write(g) PROVE Cause(h)
    <3>1. live' = live /\ \A x \in Handles \ {g} : layer'[x] = layer[x]
      BY <1>1, <2>12, WriteStep
    <3>2. g = h \/ g = r
      BY <2>3, <2>6, <3>1
    <3> QED BY <2>2, <2>12, <3>2
  <2>13. CASE Reboot
    <3>1. /\ Up' = Up /\ RootOf(Up)' = RootOf(Up) /\ layer' = layer
          /\ live'[h].parent = live[h].parent
      BY <1>1, <2>2, <2>13, RebootStep
    <3> QED BY <2>5, <3>1
  <2>14. ASSUME NEW g \in Handles, RecoverBind(g) PROVE FALSE
    <3>1. /\ RootOf(Up)' = RootOf(Up) /\ (\A x \in Handles : layer'[x] = layer[x])
          /\ live'[h].parent = live[h].parent
      BY <1>1, <2>2, <2>14, RecoverBindStep
    <3> QED BY <2>3, <2>5, <3>1
  <2>15. ASSUME NEW g \in Handles, RecoverOverlay(g) PROVE Cause(h)
    <3> DEFINE p == live[g].parent
    <3>1. /\ RootOf(Up)' = RootOf(Up)
          /\ live'[h].parent = live[h].parent
          /\ live[g] # NoDir /\ p \in Handles /\ live[p] # NoDir
          /\ \A x \in Handles : layer'[x] = IF x = g THEN CopyLayer(g, p) ELSE layer[x]
      BY <1>1, <2>2, <2>15, RecoverOverlayStep
    <3>2. g # r
      BY <2>3, <3>1, Nulls
    <3>3. g = h /\ CopyLayer(g, p) # layer[g]
      BY <2>3, <2>5, <3>1, <3>2
    <3>4. MkdirAll(g) = layer[g]
      BY <1>1, <3>1 DEF MkdirAll, OverlayInv, Placed
    <3>5. HasParent(live[p])
      BY <3>3, <3>4 DEF CopyLayer
    <3> QED BY <2>15, <3>3, <3>5
  <2>16. CASE Create
    BY <2>7, <2>8, <2>16 DEF Create
  <2>17. CASE Destroy
    BY <2>9, <2>10, <2>11, <2>17 DEF Destroy
  <2>18. CASE Recover
    BY <2>14, <2>15, <2>18 DEF Recover
  <2> QED BY <2>12, <2>13, <2>16, <2>17, <2>18 DEF Next
<1>2. OverlayInv /\ [Next]_vars => OverlayInv'
  BY InvStep
<1> QED BY <1>1, <1>2, InvInit, PTL DEF Spec, DataKept
=============================================================================
