----------------------- MODULE VolumeRepositoryProofs -----------------------
(***************************************************************************)
(* The invariants of the volume repository for any number of requests,     *)
(* handles and properties, with or without I/O errors and crashes, and its *)
(* refinement of VolumeStore.                                              *)
(***************************************************************************)
EXTENDS VolumeRepository, TLAPS

\* Namespacing leaves data there and its owner known.
LEMMA NamespaceType ==
  ASSUME NEW data \in Owners \union {Missing}, NEW b, NEW d \in NamespacePath(data, b)
  PROVE  d \in Owners \union {Missing}
BY DEF NamespacePath, Owner, Owners

LEMMA AddFilesType ==
  ASSUME NEW data \in Owners \union {Missing}, NEW o \in Owners
  PROVE  AddFiles(data, o) \in Owners
BY DEF AddFiles, Owners

\* The driver copies data whose owner is known.
LEMMA DriverDataType ==
  ASSUME TypeOK, RequestServed, NEW p \in Actors, pc[p] = "driver"
  PROVE  DriverData(p) \in Owners \union {Missing}
BY DEF TypeOK, DriverData, RequestServed, WellFormed, Request, Dir, Owners

\* Every step keeps the types; the steps of CreateVolume need the directory
\* init/h they write to, and a COW request the handle of its parent.
LEMMA TypeStep == TypeOK /\ InitOwned /\ RequestServed /\ [Next]_vars => TypeOK'
<1> SUFFICES ASSUME TypeOK, InitOwned, RequestServed, [Next]_vars PROVE TypeOK'
  OBVIOUS
<1> USE DEF TypeOK, Steps, Move, Return, Handle, fs
<1>n. Nothing \in Metadata
  BY DEF Nothing, Metadata
<1>h. ASSUME NEW p \in Actors, pc[p] # "idle"
      PROVE  /\ req[p] \in Request /\ req[p].h \in Handles /\ req[p].priv \in BOOLEAN
             /\ req[p].props \in SUBSET Names /\ req[p].parent \in Handles \union {NoHandle}
  BY <1>h DEF Request
<1>i. ASSUME NEW p \in Actors, Initializing(p) PROVE init[req[p].h] \in Dir
  BY <1>i, <1>h DEF InitOwned, Initializing
<1>d. \A ps \in (SUBSET Names) \union {Missing} : NewDir(ps) \in Dir
  BY DEF NewDir, Dir
<1>m. ASSUME NEW p \in Actors, NEW from, NEW to \in Steps, NEW b, pc[p] # "idle",
             NamespaceVolume(p, from, to, b)
      PROVE  live' \in [Handles -> Dir \union {NoDir}]
  <2>1. CASE live[req[p].h] = NoDir
    BY <1>m, <2>1 DEF NamespaceVolume
  <2>2. CASE live[req[p].h] # NoDir
    <3>1. PICK d \in NamespacePath(live[req[p].h].data, b) : live' = [live EXCEPT ![req[p].h].data = d]
      BY <1>m, <2>2 DEF NamespaceVolume
    <3>2. live[req[p].h] \in Dir
      BY <1>m, <1>h, <2>2
    <3>3. d \in Owners \union {Missing}
      BY <3>2, NamespaceType DEF Dir
    <3> QED BY <3>1, <3>2, <3>3 DEF Dir
  <2> QED BY <2>1, <2>2
<1>1. ASSUME NEW p \in Actors, Start(p) PROVE TypeOK'
  BY <1>1 DEF Start, FirstStep
<1>2. ASSUME NEW p \in Actors, Lock(p) PROVE TypeOK'
  BY <1>2, <1>h DEF Lock
<1>3. ASSUME NEW p \in Actors, LookupParent(p) PROVE TypeOK'
  BY <1>3, <1>n DEF LookupParent
<1>4. ASSUME NEW p \in Actors, MakeInitDir(p) PROVE TypeOK'
  BY <1>4, <1>h, <1>n, <1>d DEF MakeInitDir
<1>5. ASSUME NEW p \in Actors, DriverCreate(p) PROVE TypeOK'
  <2>1. DriverData(p) \in Owners \union {Missing}
    BY <1>5, DriverDataType DEF DriverCreate
  <2>2. init[req[p].h] \in Dir
    BY <1>5, <1>i DEF DriverCreate, Initializing
  <2>3. init' \in [Handles -> Dir \union {NoDir}]
    BY <1>5, <1>h, <2>1, <2>2 DEF DriverCreate, Dir
  <2> QED BY <1>5, <1>h, <1>n, <2>3 DEF DriverCreate, AfterDriver
<1>6. ASSUME NEW p \in Actors, LinkParent(p) PROVE TypeOK'
  BY <1>6, <1>h, <1>i DEF Initializing, LinkParent, Dir
<1>7. ASSUME NEW p \in Actors, Import(p) PROVE TypeOK'
  BY <1>7, <1>n DEF Import
<1>8. ASSUME NEW p \in Actors, Describe(p) PROVE TypeOK'
  <2>1. init[req[p].h] \in Dir
    BY <1>8, <1>i DEF Describe, Initializing
  <2>2. CASE pc'[p] = "initialize"
    <3>1. PICK d \in NamespacePath(init[req[p].h].data, req[p].priv) :
             init' = [init EXCEPT ![req[p].h] =
                        [[[init[req[p].h] EXCEPT !.props = req[p].props] EXCEPT !.priv = req[p].priv]
                             EXCEPT !.data = d]]
      BY <1>8, <2>2 DEF Describe
    <3>2. d \in Owners \union {Missing}
      BY <2>1, NamespaceType DEF Dir
    <3>3. init' \in [Handles -> Dir \union {NoDir}]
      BY <1>8, <1>h, <2>1, <3>1, <3>2 DEF Describe, Dir
    <3> QED BY <1>8, <3>3 DEF Describe
  <2>3. CASE pc'[p] = "discard"
    <3>1. [init[req[p].h] EXCEPT !.props = req[p].props] \in Dir
      BY <1>8, <1>h, <2>1 DEF Describe, Dir
    <3>0. PICK partial \in {init[req[p].h], [init[req[p].h] EXCEPT !.props = req[p].props]} :
             init' = [init EXCEPT ![req[p].h] = partial]
      BY <1>8, <2>3 DEF Describe
    <3>2. init' \in [Handles -> Dir \union {NoDir}]
      BY <2>1, <3>0, <3>1
    <3> QED BY <1>8, <3>2 DEF Describe
  <2> QED BY <1>8, <2>2, <2>3 DEF Describe
<1>9. ASSUME NEW p \in Actors, Initialize(p) PROVE TypeOK'
  BY <1>9, <1>h, <1>n DEF Initialize
<1>10. ASSUME NEW p \in Actors, Discard(p) PROVE TypeOK'
  BY <1>10, <1>h, <1>n DEF Discard
<1>11. ASSUME NEW p \in Actors, DriverDestroy(p) PROVE TypeOK'
  BY <1>11, <1>n DEF DriverDestroy, Finish
<1>12. ASSUME NEW p \in Actors, Cleanup(p) PROVE TypeOK'
  BY <1>12, <1>n DEF Cleanup, Finish
<1>13. ASSUME NEW p \in Actors, LookupVolume(p) PROVE TypeOK'
  BY <1>13 DEF LookupVolume, AfterLookup
<1>14. ASSUME NEW p \in Actors, Bury(p) PROVE TypeOK'
  BY <1>14, <1>h DEF Bury
<1>15. ASSUME NEW p \in Actors, LoadProperties(p) PROVE TypeOK'
  <2>1. CASE pc'[p] = "unlock"
    BY <1>15, <2>1 DEF LoadProperties
  <2>2. CASE pc'[p] # "unlock"
    <3>1. PropsAt(req[p].h) # Missing /\ got' = [got EXCEPT ![p].props = PropsAt(req[p].h)]
      BY <1>15, <2>2 DEF LoadProperties
    <3>2. PropsAt(req[p].h) \in SUBSET Names
      BY <1>15, <1>h, <3>1 DEF LoadProperties, PropsAt, Dir
    <3>3. got' \in [Actors -> Metadata] /\ got'[p].props \in SUBSET Names
      BY <3>1, <3>2 DEF Metadata
    <3> QED BY <1>15, <3>3 DEF LoadProperties
  <2> QED BY <2>1, <2>2
<1>s. ASSUME NEW dir \in Dir, NEW file \in Files PROVE Tear(dir, file) \in Dir
  BY <1>s DEF Tear, Dir, Files
<1>o. ASSUME NEW p \in Actors, NEW from \in Steps \ {"idle"}, NEW to \in Steps, NEW file \in Files,
             Overwrite(p, from, to, file)
      PROVE  live' \in [Handles -> Dir \union {NoDir}]
  BY <1>o, <1>h, <1>s DEF Overwrite
<1>e. ASSUME NEW p \in Actors, NEW from \in Steps \ {"idle"}, NEW written,
             live[req[p].h] \in Dir => written \in Dir, Encode(p, from, written)
      PROVE  live' \in [Handles -> Dir \union {NoDir}]
  BY <1>e, <1>h DEF Encode
<1>16. ASSUME NEW p \in Actors, StoreProperties(p) \/ StorePrivileged(p) PROVE TypeOK'
  <2>1. live' \in [Handles -> Dir \union {NoDir}]
    BY <1>16, <1>o DEF StoreProperties, StorePrivileged, Files
  <2> QED BY <1>16, <2>1 DEF StoreProperties, StorePrivileged, Overwrite
<1>28. ASSUME NEW p \in Actors, EncodeProperties(p) PROVE TypeOK'
  <2>1. live[req[p].h] \in Dir =>
          [live[req[p].h] EXCEPT !.props = got[p].props \union req[p].props, !.torn = @ \ {"props"}] \in Dir
    BY <1>28, <1>h DEF EncodeProperties, Encode, Dir
  <2>2. live' \in [Handles -> Dir \union {NoDir}]
    BY <1>28, <1>e, <2>1 DEF EncodeProperties
  <2> QED BY <1>28, <2>2 DEF EncodeProperties, Encode
<1>17. ASSUME NEW p \in Actors, NamespaceContents(p) PROVE TypeOK'
  <2>1. live' \in [Handles -> Dir \union {NoDir}]
    BY <1>17, <1>m DEF NamespaceContents, NamespaceVolume
  <2> QED BY <1>17, <2>1 DEF NamespaceContents, NamespaceVolume
<1>18. ASSUME NEW p \in Actors, EncodePrivileged(p) PROVE TypeOK'
  <2>1. live[req[p].h] \in Dir =>
          [live[req[p].h] EXCEPT !.priv = req[p].priv, !.torn = @ \ {"priv"}] \in Dir
    BY <1>18, <1>h DEF EncodePrivileged, Encode, Dir
  <2>2. live' \in [Handles -> Dir \union {NoDir}]
    BY <1>18, <1>e, <2>1 DEF EncodePrivileged
  <2> QED BY <1>18, <2>2 DEF EncodePrivileged, Encode
<1>19. ASSUME NEW p \in Actors, LoadPrivileged(p) PROVE TypeOK'
  BY <1>19 DEF LoadPrivileged
<1>20. ASSUME NEW p \in Actors, Unlock(p) PROVE TypeOK'
  BY <1>20, <1>h, <1>n DEF Unlock
<1>21. ASSUME NEW p \in Actors, LookupTarget(p) PROVE TypeOK'
  BY <1>21, <1>n DEF LookupTarget
<1>22. ASSUME NEW p \in Actors, MakeTarget(p) PROVE TypeOK'
  <2>1. live' \in [Handles -> Dir \union {NoDir}]
    <3>1. CASE live[req[p].h] = NoDir
      <4>1. [NewDir(Missing) EXCEPT !.data = "host"] \in Dir
        BY DEF NewDir, Dir, Owners
      <4> QED BY <1>22, <3>1, <4>1 DEF MakeTarget
    <3>2. CASE live[req[p].h] # NoDir
      <4>1. live[req[p].h] \in Dir
        BY <1>22, <1>h, <3>2 DEF MakeTarget
      <4>2. AddFiles(live[req[p].h].data, "host") \in Owners
        BY <4>1, AddFilesType DEF Dir, Owners
      <4>3. CASE UNCHANGED live
        BY <4>3
      <4>4. CASE ~UNCHANGED live
        <5>1. PICK d \in Owners : live' = [live EXCEPT ![req[p].h].data = d]
          BY <1>22, <3>2, <4>1, <4>2, <4>4 DEF MakeTarget, Dir
        <5> QED BY <4>1, <5>1 DEF Dir
      <4> QED BY <4>3, <4>4
    <3> QED BY <3>1, <3>2
  <2> QED BY <1>22, <1>n, <2>1 DEF MakeTarget
<1>23. ASSUME NEW p \in Actors, LoadFlag(p) PROVE TypeOK'
  <2>1. CASE pc'[p] = "idle"
    BY <1>23, <1>n, <2>1 DEF LoadFlag
  <2>2. CASE pc'[p] # "idle"
    <3>1. PrivAt(req[p].h) \in BOOLEAN
      BY <1>23, <1>h, <2>2 DEF LoadFlag, PrivAt, Dir
    <3>2. got' = [got EXCEPT ![p].priv = PrivAt(req[p].h)]
      BY <1>23, <2>2 DEF LoadFlag
    <3>3. got' \in [Actors -> Metadata] /\ got'[p].priv \in BOOLEAN
      BY <3>1, <3>2 DEF Metadata
    <3> QED BY <1>23, <2>2, <3>3 DEF LoadFlag
  <2> QED BY <2>1, <2>2
<1>24. ASSUME NEW p \in Actors, NamespaceTarget(p) PROVE TypeOK'
  <2>1. live' \in [Handles -> Dir \union {NoDir}]
    BY <1>24, <1>m DEF NamespaceTarget, NamespaceVolume
  <2> QED BY <1>24, <2>1 DEF NamespaceTarget, NamespaceVolume
<1>25. ASSUME NEW p \in Actors, Extract(p) PROVE TypeOK'
  BY <1>25, <1>h, <1>n, AddFilesType DEF Extract, Owner, Owners, Dir
<1>26. ASSUME Crash PROVE TypeOK'
  BY <1>26, <1>n DEF Crash
<1>27. ASSUME UNCHANGED vars PROVE TypeOK'
  BY <1>27 DEF vars
<1> QED
  BY <1>1, <1>2, <1>3, <1>4, <1>5, <1>6, <1>7, <1>8, <1>9, <1>10, <1>11, <1>12, <1>13, <1>14,
     <1>15, <1>16, <1>17, <1>18, <1>19, <1>20, <1>21, <1>22, <1>23, <1>24, <1>25, <1>26, <1>27,
     <1>28 DEF Next, Progress, CreateVolume, DestroyDead, LockedStep, StreamIn

\* A request runs the steps of its operation.
LEMMA RequestStep == TypeOK /\ RequestServed /\ [Next]_vars => RequestServed'
<1> SUFFICES ASSUME TypeOK, RequestServed, [Next]_vars PROVE RequestServed'
  OBVIOUS
<1> USE DEF TypeOK, Steps, Move, Return, Finish, Handle, RequestServed
<1>1. ASSUME NEW p \in Actors, Start(p) PROVE RequestServed'
  <2>1. PICK r \in Request : /\ WellFormed(r)
                             /\ req' = [req EXCEPT ![p] = r]
                             /\ pc' = [pc EXCEPT ![p] = FirstStep(r.op)]
    BY <1>1 DEF Start
  <2>2. /\ FirstStep(r.op) = "lock" => r.op \in LockingOps
        /\ FirstStep(r.op) \notin {"load", "store", "encode", "mkdirAll", "loadFlag", "namespaceTarget", "extract"}
        /\ FirstStep(r.op) = "lookupTarget" => r.op = "StreamIn"
    BY DEF FirstStep
  <2>3. \A q \in Actors \ {p} : pc'[q] = pc[q] /\ req'[q] = req[q]
    BY <2>1
  <2>4. pc'[p] = FirstStep(r.op) /\ req'[p] = r
    BY <2>1
  <2>5. \A x : WellFormed(x)' <=> WellFormed(x)
    BY DEF WellFormed
  <2> QED BY <2>1, <2>2, <2>3, <2>4, <2>5
<1>2. ASSUME NEW p \in Actors, pc[p] # "idle", req' = req, pc' = [pc EXCEPT ![p] = pc'[p]],
             pc'[p] # "lock",
             pc'[p] \in {"load", "store", "encode"} => req[p].op = "SetProperty",
             pc'[p] \in {"lookupTarget", "mkdirAll", "loadFlag", "namespaceTarget", "extract"}
                => req[p].op = "StreamIn"
      PROVE  RequestServed'
  BY <1>2 DEF WellFormed
<1>3. ASSUME NEW p \in Actors, Return(p) PROVE RequestServed'
  BY <1>3 DEF WellFormed
<1>4. ASSUME NEW p \in Actors, Lock(p) \/ LookupParent(p) \/ MakeInitDir(p) \/ LinkParent(p)
      PROVE  RequestServed'
  BY <1>2, <1>3, <1>4 DEF Lock, LookupParent, MakeInitDir, LinkParent
<1>10. ASSUME NEW p \in Actors, Import(p) \/ Describe(p) \/ Initialize(p) \/ Discard(p)
      PROVE  RequestServed'
  BY <1>2, <1>3, <1>10 DEF Import, Describe, Initialize, Discard
<1>5. ASSUME NEW p \in Actors, DriverCreate(p) \/ DriverDestroy(p) \/ Cleanup(p) \/ LookupVolume(p)
      PROVE  RequestServed'
  BY <1>2, <1>3, <1>5 DEF DriverCreate, AfterDriver, DriverDestroy, Cleanup, LookupVolume, AfterLookup
<1>6. ASSUME NEW p \in Actors, Bury(p) \/ LoadProperties(p) \/ StoreProperties(p)
             \/ EncodeProperties(p) \/ NamespaceContents(p) \/ StorePrivileged(p)
             \/ EncodePrivileged(p) \/ LoadPrivileged(p) \/ Unlock(p)
      PROVE  RequestServed'
  BY <1>2, <1>3, <1>6 DEF Bury, LoadProperties, StoreProperties, NamespaceContents, NamespaceVolume,
     EncodeProperties, StorePrivileged, EncodePrivileged, Overwrite, Encode,
     LoadPrivileged, Unlock
<1>7. ASSUME NEW p \in Actors, LookupTarget(p) \/ MakeTarget(p) \/ LoadFlag(p)
             \/ NamespaceTarget(p) \/ Extract(p)
      PROVE  RequestServed'
  BY <1>2, <1>3, <1>7 DEF LookupTarget, MakeTarget, LoadFlag, NamespaceTarget, NamespaceVolume, Extract
<1>8. CASE Crash
  BY <1>8 DEF Crash
<1>9. CASE UNCHANGED vars
  BY <1>9 DEF vars, WellFormed
<1> QED BY <1>1, <1>4, <1>5, <1>6, <1>7, <1>8, <1>9, <1>10
     DEF Next, Progress, CreateVolume, DestroyDead, LockedStep, StreamIn

\* What a step of p leaves alone in the other requests.
LEMMA Others ==
  ASSUME TypeOK, NEW p \in Actors, Start(p) \/ Lock(p) \/ Progress(p)
  PROVE  \A q \in Actors \ {p} : pc'[q] = pc[q] /\ req'[q] = req[q] /\ got'[q] = got[q]
<1> USE DEF TypeOK, Move, Return, Finish
<1>1. CASE Start(p) \/ Lock(p)
  BY <1>1 DEF Start, Lock
<1>2. CASE CreateVolume(p)
  BY <1>2 DEF CreateVolume, LookupParent, MakeInitDir, DriverCreate, LinkParent, Import, Describe,
     Initialize, Discard
<1>3. CASE DestroyDead(p)
  BY <1>3 DEF DestroyDead, DriverDestroy, Cleanup
<1>4. CASE LockedStep(p)
  BY <1>4 DEF LockedStep, LookupVolume, Bury, LoadProperties, StoreProperties, NamespaceContents,
     NamespaceVolume, EncodeProperties, StorePrivileged, EncodePrivileged, Overwrite, Encode,
     LoadPrivileged, Unlock
<1>5. CASE StreamIn(p)
  BY <1>5 DEF StreamIn, LookupTarget, MakeTarget, LoadFlag, NamespaceTarget, NamespaceVolume, Extract
<1> QED BY <1>1, <1>2, <1>3, <1>4, <1>5 DEF Progress

\* init/h belongs to one request from Mkdir until it is renamed or removed.
LEMMA InitOwnedStep == TypeOK /\ RequestServed /\ InitOwned /\ [Next]_vars => InitOwned'
<1> SUFFICES ASSUME TypeOK, RequestServed, InitOwned, [Next]_vars PROVE InitOwned'
  OBVIOUS
<1> USE DEF TypeOK, Move, Return, Finish, Handle
<1>i. ASSUME NEW p \in Actors, Initializing(p) PROVE init[req[p].h] \in Dir /\ req[p].h \in Handles
  BY <1>i DEF InitOwned, Initializing, Request
<1>1. ASSUME \A q \in Actors : Initializing(q)' => /\ Initializing(q) /\ req'[q] = req[q]
                                                   /\ init'[req[q].h] # NoDir
      PROVE  InitOwned'
  BY <1>1 DEF InitOwned
<1>2. ASSUME NEW p \in Actors, Start(p) \/ Lock(p) \/ Progress(p),
             init' = init, Initializing(p)' => Initializing(p) /\ req'[p] = req[p]
      PROVE  InitOwned'
  BY <1>1, <1>2, Others DEF InitOwned, Initializing
<1>3. ASSUME NEW p \in Actors, Progress(p), Initializing(p), ~Initializing(p)',
             NEW d, init' = [init EXCEPT ![req[p].h] = d]
      PROVE  InitOwned'
  <2>1. \A q \in Actors \ {p} : Initializing(q)' <=> Initializing(q)
    BY <1>3, Others DEF Initializing
  <2>2. \A q \in Actors \ {p} : Initializing(q) => req[q].h # req[p].h /\ req[q].h \in Handles
    BY <1>3 DEF InitOwned, Initializing, Request
  <2> QED BY <1>1, <1>3, <2>1, <2>2, Others DEF InitOwned
<1>4. ASSUME NEW p \in Actors, Progress(p), Initializing(p), req'[p] = req[p],
             NEW d \in Dir, init' = [init EXCEPT ![req[p].h] = d]
      PROVE  InitOwned'
  <2>1. \A q \in Actors \ {p} : Initializing(q)' => Initializing(q) /\ req'[q] = req[q]
    BY <1>4, Others DEF Initializing
  <2>2. \A q \in Actors : Initializing(q) => init'[req[q].h] # NoDir
    BY <1>4, NullDir DEF InitOwned, Initializing, Request
  <2> QED BY <1>1, <1>4, <2>1, <2>2
<1>5. ASSUME NEW p \in Actors, MakeInitDir(p) PROVE InitOwned'
  <2>1. CASE pc'[p] = "driver"
    <3>1. /\ init[req[p].h] = NoDir /\ req' = req /\ req[p].h \in Handles
          /\ init' = [init EXCEPT ![req[p].h] = NewDir({})]
      BY <1>5, <2>1 DEF MakeInitDir, Request
    <3>2. NewDir({}) # NoDir
      BY NullDir DEF NewDir, Dir
    <3>3. \A q \in Actors \ {p} : Initializing(q)' <=> Initializing(q)
      BY <1>5 DEF MakeInitDir, Initializing
    <3>4. \A q \in Actors \ {p} : Initializing(q) => req[q].h # req[p].h /\ init[req[q].h] # NoDir /\ req[q].h \in Handles
      BY <3>1 DEF InitOwned, Initializing, Request
    <3>5. \A q \in Actors : Initializing(q)' => init'[req'[q].h] # NoDir
      BY <3>1, <3>2, <3>3, <3>4
    <3> QED BY <3>1, <3>3, <3>4, <3>5 DEF InitOwned
  <2>2. CASE pc'[p] # "driver"
    <3>1. CASE init[req[p].h] = NoDir
      <4>1. \A q \in Actors : Initializing(q)' => q # p /\ Initializing(q)
        BY <1>5, <2>2 DEF MakeInitDir, Initializing
      <4>2. \A q \in Actors : Initializing(q) => req[q].h # req[p].h /\ req[q].h \in Handles
        BY <3>1 DEF InitOwned, Initializing, Request
      <4>3. \A q \in Actors : Initializing(q) => init'[req[q].h] = init[req[q].h]
        BY <1>5, <2>2, <4>2 DEF MakeInitDir
      <4> QED BY <1>1, <1>5, <4>1, <4>3, Others DEF Progress, CreateVolume, InitOwned
    <3>2. CASE init[req[p].h] # NoDir
      BY <1>2, <1>5, <2>2, <3>2 DEF MakeInitDir, Initializing, Progress, CreateVolume
    <3> QED BY <3>1, <3>2
  <2> QED BY <2>1, <2>2
<1>6. ASSUME NEW p \in Actors, DriverCreate(p) PROVE InitOwned'
  <2>3. CASE init' = init /\ pc'[p] = "idle"
    BY <1>2, <1>6, <2>3 DEF DriverCreate, Initializing, Progress, CreateVolume
  <2>1. CASE init' # init /\ pc'[p] = "idle"
    BY <1>3, <1>6, <2>1 DEF DriverCreate, Initializing, Progress, CreateVolume, AfterDriver
  <2>2. CASE pc'[p] # "idle"
    <3> DEFINE d == [init[req[p].h] EXCEPT !.data = DriverData(p)]
    <3>1. init' = [init EXCEPT ![req[p].h] = d] /\ req' = req
      BY <1>6, <2>2 DEF DriverCreate
    <3>2. d \in Dir
      BY <1>6, <1>i, DriverDataType DEF DriverCreate, Initializing, Dir
    <3> QED BY <1>4, <1>6, <3>1, <3>2 DEF DriverCreate, Initializing, Progress, CreateVolume
  <2> QED BY <2>1, <2>2, <2>3
<1>7. ASSUME NEW p \in Actors, LinkParent(p) PROVE InitOwned'
  <2>1. CASE init' = init
    BY <1>2, <1>7, <2>1 DEF LinkParent, Initializing, Progress, CreateVolume
  <2>2. CASE init' # init
    <3> DEFINE d == [init[req[p].h] EXCEPT !.parent = req[p].parent]
    <3>1. init' = [init EXCEPT ![req[p].h] = d] /\ req' = req
      BY <1>7, <2>2 DEF LinkParent
    <3>2. d \in Dir
      BY <1>7, <1>i DEF LinkParent, Initializing, Dir, Request
    <3> QED BY <1>4, <1>7, <3>1, <3>2 DEF LinkParent, Initializing, Progress, CreateVolume
  <2> QED BY <2>1, <2>2
<1>8. ASSUME NEW p \in Actors, Describe(p) PROVE InitOwned'
  <2>1. PICK d : init' = [init EXCEPT ![req[p].h] = d]
    BY <1>8 DEF Describe
  <2>2. d \in Dir
    <3>1. init'[req[p].h] = d
      BY <1>8, <1>i, <2>1 DEF Describe, Request
    <3>2. init[req[p].h] \in Dir /\ req[p].h \in Handles /\ req[p].props \in SUBSET Names /\ req[p].priv \in BOOLEAN
      BY <1>8, <1>i DEF Describe, Initializing, Request
    <3>3. CASE pc'[p] = "initialize"
      <4>1. PICK o \in NamespacePath(init[req[p].h].data, req[p].priv) :
               init' = [init EXCEPT ![req[p].h] =
                          [[[init[req[p].h] EXCEPT !.props = req[p].props] EXCEPT !.priv = req[p].priv]
                               EXCEPT !.data = o]]
        BY <1>8, <3>3 DEF Describe
      <4>2. o \in Owners \union {Missing}
        BY <3>2, NamespaceType DEF Dir
      <4> QED BY <3>1, <3>2, <4>1, <4>2 DEF Dir
    <3>4. CASE pc'[p] = "discard"
      <4>1. PICK partial \in {init[req[p].h], [init[req[p].h] EXCEPT !.props = req[p].props]} :
               init' = [init EXCEPT ![req[p].h] = partial]
        BY <1>8, <3>4 DEF Describe
      <4>2. [init[req[p].h] EXCEPT !.props = req[p].props] \in Dir
        BY <3>2 DEF Dir
      <4> QED BY <3>1, <3>2, <4>1, <4>2
    <3> QED BY <1>8, <3>3, <3>4 DEF Describe
  <2> QED BY <1>4, <1>8, <2>1, <2>2 DEF Describe, Initializing, Progress, CreateVolume
<1>9. ASSUME NEW p \in Actors, Initialize(p) \/ Discard(p) PROVE InitOwned'
  <2>1. CASE init' = init
    BY <1>2, <1>9, <2>1 DEF Initialize, Discard, Initializing, Progress, CreateVolume
  <2>2. CASE init' # init
    BY <1>3, <1>9, <2>2 DEF Initialize, Discard, Initializing, Progress, CreateVolume
  <2> QED BY <2>1, <2>2
<1>10. ASSUME NEW p \in Actors, Start(p) PROVE InitOwned'
  BY <1>2, <1>10 DEF Start, FirstStep, Initializing
<1>11. ASSUME NEW p \in Actors, Lock(p) \/ LookupParent(p) \/ Import(p) PROVE InitOwned'
  BY <1>2, <1>11 DEF Lock, LookupParent, Import, Initializing, Progress, CreateVolume
<1>12. ASSUME NEW p \in Actors, DestroyDead(p) PROVE InitOwned'
  BY <1>2, <1>12 DEF DestroyDead, DriverDestroy, Cleanup, Initializing, Progress
<1>13. ASSUME NEW p \in Actors, LockedStep(p) PROVE InitOwned'
  BY <1>2, <1>13 DEF LockedStep, LookupVolume, AfterLookup, Bury, LoadProperties, StoreProperties,
     NamespaceContents, NamespaceVolume, EncodeProperties, StorePrivileged, EncodePrivileged, Overwrite, Encode,
     LoadPrivileged, Unlock, fs, Initializing,
     Progress
<1>14. ASSUME NEW p \in Actors, StreamIn(p) PROVE InitOwned'
  BY <1>2, <1>14 DEF StreamIn, LookupTarget, MakeTarget, LoadFlag, NamespaceTarget, NamespaceVolume,
     Extract, Initializing, Progress
<1>15. CASE Crash
  BY <1>15 DEF Crash, InitOwned, Initializing
<1>16. CASE UNCHANGED vars
  BY <1>16 DEF vars, InitOwned, Initializing
<1> QED BY <1>5, <1>6, <1>7, <1>8, <1>9, <1>10, <1>11, <1>12, <1>13, <1>14, <1>15, <1>16
     DEF Next, Progress, CreateVolume

\* dead/h belongs to one request from the rename until it is removed.
LEMMA DeadOwnedStep == TypeOK /\ DeadOwned /\ [Next]_vars => DeadOwned'
<1> SUFFICES ASSUME TypeOK, DeadOwned, [Next]_vars PROVE DeadOwned'
  OBVIOUS
<1> USE DEF TypeOK, Move, Return, Finish, Handle
<1>1. ASSUME NEW p \in Actors, Start(p) \/ Lock(p) \/ Progress(p),
             dead' = dead, TearingDown(p)' => TearingDown(p) /\ req'[p] = req[p]
      PROVE  DeadOwned'
  BY <1>1, Others DEF DeadOwned, TearingDown
<1>2. ASSUME NEW p \in Actors, Progress(p), req[p].h \notin dead, req'[p] = req[p],
             dead' = dead \union {req[p].h}
      PROVE  DeadOwned'
  BY <1>2, Others DEF DeadOwned, TearingDown
<1>3. ASSUME NEW p \in Actors, Progress(p), TearingDown(p), ~TearingDown(p)', dead' = dead \ {req[p].h}
      PROVE  DeadOwned'
  BY <1>3, Others DEF DeadOwned, TearingDown
<1>4. ASSUME NEW p \in Actors, Start(p) \/ Lock(p) PROVE DeadOwned'
  BY <1>1, <1>4 DEF Start, FirstStep, Lock, TearingDown
<1>5. ASSUME NEW p \in Actors, Discard(p) PROVE DeadOwned'
  <2>1. CASE dead' = dead
    BY <1>1, <1>5, <2>1 DEF Discard, Progress, CreateVolume, TearingDown
  <2>2. CASE dead' # dead
    BY <1>2, <1>5, <2>2 DEF Discard, Progress, CreateVolume
  <2> QED BY <2>1, <2>2
<1>6. ASSUME NEW p \in Actors, Bury(p) PROVE DeadOwned'
  <2>1. CASE dead' = dead
    BY <1>1, <1>6, <2>1 DEF Bury, Progress, LockedStep, TearingDown
  <2>2. CASE dead' # dead
    BY <1>2, <1>6, <2>2 DEF Bury, Progress, LockedStep
  <2> QED BY <2>1, <2>2
<1>7. ASSUME NEW p \in Actors, DriverDestroy(p) PROVE DeadOwned'
  BY <1>1, <1>7 DEF DriverDestroy, Progress, DestroyDead, TearingDown
<1>8. ASSUME NEW p \in Actors, Cleanup(p) PROVE DeadOwned'
  <2>1. TearingDown(p) /\ ~TearingDown(p)' /\ Progress(p)
    BY <1>8 DEF Cleanup, Progress, DestroyDead, TearingDown
  <2>2. CASE dead' = dead
    BY <1>1, <2>1, <2>2
  <2>3. CASE dead' # dead
    BY <1>3, <1>8, <2>1, <2>3 DEF Cleanup
  <2> QED BY <2>2, <2>3
<1>9. ASSUME NEW p \in Actors, CreateVolume(p), ~Discard(p) PROVE DeadOwned'
  BY <1>1, <1>9 DEF CreateVolume, LookupParent, MakeInitDir, DriverCreate, AfterDriver, LinkParent,
     Import, Describe, Initialize, TearingDown, Progress
<1>10. ASSUME NEW p \in Actors, LockedStep(p), ~Bury(p) PROVE DeadOwned'
  BY <1>1, <1>10 DEF LockedStep, LookupVolume, AfterLookup, LoadProperties, StoreProperties,
     NamespaceContents, NamespaceVolume, EncodeProperties, StorePrivileged, EncodePrivileged, Overwrite, Encode,
     LoadPrivileged, Unlock, fs, TearingDown,
     Progress
<1>11. ASSUME NEW p \in Actors, StreamIn(p) PROVE DeadOwned'
  BY <1>1, <1>11 DEF StreamIn, LookupTarget, MakeTarget, LoadFlag, NamespaceTarget, NamespaceVolume,
     Extract, TearingDown, Progress
<1>12. CASE Crash
  BY <1>12 DEF Crash, DeadOwned, TearingDown
<1>13. CASE UNCHANGED vars
  BY <1>13 DEF vars, DeadOwned, TearingDown
<1> QED BY <1>4, <1>5, <1>6, <1>7, <1>8, <1>9, <1>10, <1>11, <1>12, <1>13
     DEF Next, Progress, DestroyDead

\* The lock of a handle belongs to the request that runs its locked steps.
LEMMA LockOwnedStep == TypeOK /\ RequestServed /\ LockOwned /\ [Next]_vars => LockOwned'
<1> SUFFICES ASSUME TypeOK, RequestServed, LockOwned, [Next]_vars PROVE LockOwned'
  OBVIOUS
<1> USE DEF TypeOK, Move, Return, Finish, Handle
<1>1. ASSUME NEW p \in Actors, Start(p) \/ Lock(p) \/ Progress(p), locked' = locked,
             HoldsLock(p)' => HoldsLock(p) /\ req'[p] = req[p],
             Found(p)' \/ pc'[p] \in {"lookup", "unlock"} => HoldsLock(p)'
      PROVE  LockOwned'
  BY <1>1, Others DEF LockOwned, HoldsLock, Found
<1>2. ASSUME NEW p \in Actors, Start(p) PROVE LockOwned'
  <2>1. PICK r \in Request : /\ req' = [req EXCEPT ![p] = r]
                             /\ pc' = [pc EXCEPT ![p] = FirstStep(r.op)]
    BY <1>2 DEF Start
  <2>2. /\ r.op \in LockingOps => FirstStep(r.op) = "lock"
        /\ FirstStep(r.op) \in {"lock", "lookupParent", "lookupTarget", "mkdir"}
    BY DEF FirstStep, LockingOps
  <2>3. ~HoldsLock(p)' /\ ~Found(p)' /\ pc'[p] \notin {"lookup", "unlock"}
    BY <2>1, <2>2 DEF HoldsLock, Found
  <2> QED BY <1>1, <1>2, <2>3 DEF Start
<1>3. ASSUME NEW p \in Actors, Lock(p) PROVE LockOwned'
  <2>0. req[p].op \in LockingOps
    BY <1>3 DEF Lock, RequestServed
  <2>1. \A q \in Actors \ {p} : HoldsLock(q) => req[q].h # req[p].h /\ req[q].h \in Handles
    BY <1>3, NullActor DEF Lock, LockOwned, HoldsLock, Request
  <2>2. \A q \in Actors \ {p} : (HoldsLock(q)' <=> HoldsLock(q)) /\ (Found(q)' <=> Found(q))
    BY <1>3 DEF Lock, HoldsLock, Found
  <2>3. HoldsLock(p)' /\ locked'[req'[p].h] = p
    BY <1>3, <2>0 DEF Lock, HoldsLock, Request
  <2> QED BY <1>3, <2>1, <2>2, <2>3 DEF Lock, LockOwned
<1>4. ASSUME NEW p \in Actors, Unlock(p) PROVE LockOwned'
  <2>1. HoldsLock(p) /\ locked[req[p].h] = p
    BY <1>4 DEF Unlock, LockOwned
  <2>2. \A q \in Actors \ {p} : HoldsLock(q) => req[q].h # req[p].h /\ req[q].h \in Handles
    BY <2>1 DEF LockOwned, HoldsLock, Request
  <2>3. \A q \in Actors \ {p} : (HoldsLock(q)' <=> HoldsLock(q)) /\ (Found(q)' <=> Found(q))
    BY <1>4 DEF Unlock, HoldsLock, Found
  <2>4. ~HoldsLock(p)' /\ ~Found(p)'
    BY <1>4 DEF Unlock, HoldsLock, Found
  <2> QED BY <1>4, <2>2, <2>3, <2>4 DEF Unlock, LockOwned
<1>5. ASSUME NEW p \in Actors, CreateVolume(p) PROVE LockOwned'
  BY <1>1, <1>5 DEF CreateVolume, LookupParent, MakeInitDir, DriverCreate, AfterDriver, LinkParent,
     Import, Describe, Initialize, Discard, Progress, HoldsLock, Found
<1>6. ASSUME NEW p \in Actors, DestroyDead(p) PROVE LockOwned'
  BY <1>1, <1>6 DEF DestroyDead, DriverDestroy, Cleanup, Progress, HoldsLock, Found
<1>7. ASSUME NEW p \in Actors, LockedStep(p), ~Unlock(p) PROVE LockOwned'
  <2>1. HoldsLock(p) /\ locked' = locked /\ req' = req /\ pc'[p] \notin {"idle", "lock"}
    BY <1>7 DEF LockedStep, LookupVolume, AfterLookup, Bury, LoadProperties, StoreProperties,
       NamespaceContents, NamespaceVolume, EncodeProperties, StorePrivileged, EncodePrivileged, Overwrite, Encode,
     LoadPrivileged, LockOwned, Found
  <2>2. HoldsLock(p)'
    BY <2>1 DEF HoldsLock
  <2> QED BY <1>1, <1>7, <2>1, <2>2 DEF Progress
<1>8. ASSUME NEW p \in Actors, StreamIn(p) PROVE LockOwned'
  BY <1>1, <1>8 DEF StreamIn, LookupTarget, MakeTarget, LoadFlag, NamespaceTarget, NamespaceVolume,
     Extract, Progress, HoldsLock, Found
<1>9. CASE Crash
  BY <1>9 DEF Crash, LockOwned, HoldsLock, Found
<1>10. CASE UNCHANGED vars
  BY <1>10 DEF vars, LockOwned, HoldsLock, Found
<1> QED BY <1>2, <1>3, <1>4, <1>5, <1>6, <1>7, <1>8, <1>9, <1>10
     DEF Next, Progress

\* What was looked up under the lock stays: only the holder of the lock renames
\* live/h or rewrites its properties.
LEMMA LookupStableStep ==
  TypeOK /\ RequestServed /\ LockOwned /\ LookupStable /\ [Next]_vars => LookupStable'
<1> SUFFICES ASSUME TypeOK, RequestServed, LockOwned, LookupStable, [Next]_vars PROVE LookupStable'
  OBVIOUS
<1> USE DEF TypeOK, Move, Return, Finish, Handle
<1>u. ASSUME NEW p \in Actors, NEW q \in Actors, p # q, HoldsLock(p), Found(q)
      PROVE  req[q].h # req[p].h
  BY <1>u DEF LockOwned
<1>h. ASSUME NEW q \in Actors, Found(q) PROVE req[q].h \in Handles
  BY <1>h DEF Found, Request
<1>1. ASSUME NEW p \in Actors, Start(p) \/ Lock(p) \/ Progress(p), ~Found(p)',
             \A q \in Actors \ {p} : Found(q) =>
                /\ live'[req[q].h] # NoDir
                /\ live'[req[q].h].props = live[req[q].h].props
                /\ live'[req[q].h].torn = live[req[q].h].torn
      PROVE  LookupStable'
  BY <1>1, Others DEF LookupStable, PropsAt, Found
<1>2. ASSUME NEW p \in Actors, Start(p) \/ Lock(p) \/ Progress(p), ~Found(p)', live' = live
      PROVE  LookupStable'
  BY <1>1, <1>2 DEF LookupStable
<1>3. ASSUME NEW p \in Actors, Progress(p), ~Found(p)', live[req[p].h] = NoDir, NEW d,
             live' = [live EXCEPT ![req[p].h] = d]
      PROVE  LookupStable'
  BY <1>1, <1>3, <1>h DEF LookupStable
<1>4. ASSUME NEW p \in Actors, Progress(p), HoldsLock(p), ~Found(p)', NEW d,
             live' = [live EXCEPT ![req[p].h] = d]
      PROVE  LookupStable'
  BY <1>1, <1>4, <1>u, <1>h DEF LookupStable
<1>5. ASSUME NEW p \in Actors, Progress(p), ~Found(p)', live[req[p].h] # NoDir, req[p].h \in Handles,
             NEW o \in Owners \union {Missing}, live' = [live EXCEPT ![req[p].h].data = o]
      PROVE  LookupStable'
  <2>1. live[req[p].h] \in Dir /\ live'[req[p].h] = [live[req[p].h] EXCEPT !.data = o]
    BY <1>5
  <2>2. /\ live'[req[p].h] \in Dir /\ live'[req[p].h].props = live[req[p].h].props
        /\ live'[req[p].h].torn = live[req[p].h].torn
    BY <2>1 DEF Dir
  <2> QED BY <1>1, <1>5, <1>h, <2>2, NullDir DEF LookupStable
<1>6. ASSUME NEW p \in Actors, Start(p) \/ Lock(p) PROVE LookupStable'
  BY <1>2, <1>6 DEF Start, FirstStep, Lock, Found
<1>7. ASSUME NEW p \in Actors, CreateVolume(p) PROVE LookupStable'
  <2>1. ~Found(p)' /\ Progress(p)
    BY <1>7 DEF CreateVolume, LookupParent, MakeInitDir, DriverCreate, AfterDriver, LinkParent,
       Import, Describe, Initialize, Discard, Found, Progress
  <2>2. CASE live' = live
    BY <1>2, <2>1, <2>2
  <2>3. CASE live' # live
    BY <1>3, <1>7, <2>1, <2>3 DEF CreateVolume, LookupParent, MakeInitDir, DriverCreate, LinkParent,
       Import, Describe, Initialize, Discard
  <2> QED BY <2>2, <2>3
<1>8. ASSUME NEW p \in Actors, DestroyDead(p) PROVE LookupStable'
  BY <1>2, <1>8 DEF DestroyDead, DriverDestroy, Cleanup, Found, Progress
<1>9. ASSUME NEW p \in Actors, LookupVolume(p) PROVE LookupStable'
  <2>1. AfterLookup(req[p].op) \notin {"store", "encode", "encodePrivileged"}
    BY DEF AfterLookup
  <2>2. /\ live' = live /\ req' = req /\ got' = got
        /\ Found(p)' => live[req[p].h] # NoDir /\ pc'[p] \notin {"store", "encode", "encodePrivileged"}
    BY <1>9, <2>1 DEF LookupVolume, Found
  <2>3. \A q \in Actors \ {p} : pc'[q] = pc[q]
    BY <1>9, Others DEF Progress, LockedStep
  <2> QED BY <2>2, <2>3 DEF LookupStable, PropsAt, Found
<1>10. ASSUME NEW p \in Actors, Bury(p) \/ EncodePrivileged(p) \/ EncodeProperties(p) PROVE LookupStable'
  <2>1. HoldsLock(p) /\ ~Found(p)' /\ Progress(p) /\ req[p].h \in Handles
    BY <1>10 DEF Bury, EncodePrivileged, EncodeProperties, Encode, LockOwned, Found, Progress, LockedStep,
       Request
  <2>2. CASE live' = live
    BY <1>2, <2>1, <2>2
  <2>3. CASE live' # live
    <3>1. PICK d : live' = [live EXCEPT ![req[p].h] = d]
      BY <1>10, <2>3 DEF Bury, EncodePrivileged, EncodeProperties, Encode
    <3> QED BY <1>4, <2>1, <3>1
  <2> QED BY <2>2, <2>3
<1>20. ASSUME NEW p \in Actors, StoreProperties(p) \/ StorePrivileged(p) PROVE LookupStable'
  <2>1. /\ HoldsLock(p) /\ Progress(p) /\ req[p].h \in Handles /\ req' = req /\ got' = got
        /\ live[req[p].h] \in Dir /\ live[req[p].h] # NoDir
        /\ pc[p] = "store" => "props" \notin live[req[p].h].torn /\ got[p].props = live[req[p].h].props
    <3>1. Found(p) /\ req[p] \in Request
      BY <1>20 DEF StoreProperties, StorePrivileged, Overwrite, Found
    <3>2. live[req[p].h] \in Dir /\ live[req[p].h] # NoDir /\ req[p].h \in Handles /\ HoldsLock(p)
      BY <3>1 DEF LookupStable, LockOwned, Request
    <3>3. pc[p] = "store" => "props" \notin live[req[p].h].torn /\ got[p].props = live[req[p].h].props
      BY <3>1, <3>2, NullValue DEF LookupStable, PropsAt
    <3> QED BY <1>20, <3>2, <3>3 DEF StoreProperties, StorePrivileged, Overwrite, Progress, LockedStep
  <2>2. CASE pc'[p] = "unlock"
    BY <1>2, <1>20, <2>1, <2>2 DEF StoreProperties, StorePrivileged, Overwrite, Found
  <2>3. CASE pc'[p] # "unlock"
    <3>1. PICK file \in Files :
             /\ live' = [live EXCEPT ![req[p].h] = Tear(live[req[p].h], file)]
             /\ \/ pc[p] = "store" /\ pc'[p] = "encode" /\ file = "props"
                \/ pc[p] = "storePrivileged" /\ pc'[p] = "encodePrivileged" /\ file = "priv"
      BY <1>20, <2>3 DEF StoreProperties, StorePrivileged, Overwrite, Files
    <3>2. /\ live'[req[p].h] # NoDir /\ live'[req[p].h].props = live[req[p].h].props
          /\ file \in live'[req[p].h].torn
      <4>1. Tear(live[req[p].h], file) \in Dir
        BY <2>1 DEF Tear, Dir, Files
      <4>2. live'[req[p].h] = Tear(live[req[p].h], file)
        BY <2>1, <3>1
      <4> QED BY <2>1, <4>1, <4>2, NullDir DEF Tear, Dir
    <3>3. \A q \in Actors \ {p} : pc'[q] = pc[q]
      BY <1>20, Others DEF Progress, LockedStep
    <3>4. \A q \in Actors \ {p} : Found(q) => live'[req[q].h] = live[req[q].h]
      BY <2>1, <3>1, <1>u, <1>h
    <3>5. pc[p] = "store" => got[p].props = live'[req[p].h].props
      BY <2>1, <3>2
    <3> QED BY <2>1, <3>1, <3>2, <3>3, <3>4, <3>5 DEF LookupStable, PropsAt, Found
  <2> QED BY <2>2, <2>3
<1>11. ASSUME NEW p \in Actors, LoadProperties(p) PROVE LookupStable'
  <2>1. live' = live /\ req' = req /\ live[req[p].h] # NoDir /\ req[p].h \in Handles
    BY <1>11 DEF LoadProperties, LookupStable, Found, Request
  <2>2. pc'[p] \in {"store", "unlock"} /\ (pc'[p] = "store" => got'[p].props = PropsAt(req[p].h))
    BY <1>11, <2>1 DEF LoadProperties, Metadata
  <2>3. \A q \in Actors \ {p} : pc'[q] = pc[q] /\ got'[q] = got[q]
    BY <1>11, Others DEF Progress, LockedStep
  <2> QED BY <2>1, <2>2, <2>3 DEF LookupStable, PropsAt, Found
<1>12. ASSUME NEW p \in Actors, NamespaceContents(p) PROVE LookupStable'
  <2>1. /\ HoldsLock(p) /\ live[req[p].h] # NoDir /\ live[req[p].h] \in Dir /\ req[p].h \in Handles
        /\ req' = req /\ got' = got /\ pc'[p] = "storePrivileged"
    BY <1>12 DEF NamespaceContents, NamespaceVolume, LockOwned, LookupStable, Found, Request
  <2>2. PICK o \in NamespacePath(live[req[p].h].data, req[p].priv) :
           live' = [live EXCEPT ![req[p].h].data = o]
    BY <1>12, <2>1 DEF NamespaceContents, NamespaceVolume
  <2>3. o \in Owners \union {Missing}
    BY <2>1, NamespaceType DEF Dir
  <2>4. live'[req[p].h] \in Dir
    BY <2>1, <2>2, <2>3 DEF Dir
  <2>5. \A q \in Actors \ {p} : pc'[q] = pc[q]
    BY <1>12, Others DEF Progress, LockedStep
  <2>6. \A q \in Actors \ {p} : Found(q) => live'[req[q].h] = live[req[q].h]
    BY <2>1, <2>2, <1>u, <1>h
  <2> QED BY <2>1, <2>4, <2>5, <2>6, NullDir DEF LookupStable, PropsAt, Found
<1>13. ASSUME NEW p \in Actors, LoadPrivileged(p) \/ Unlock(p) PROVE LookupStable'
  BY <1>2, <1>13 DEF LoadPrivileged, Unlock, fs, Found, Progress, LockedStep
<1>14. ASSUME NEW p \in Actors, LookupTarget(p) \/ LoadFlag(p) PROVE LookupStable'
  BY <1>2, <1>14 DEF LookupTarget, LoadFlag, Found, Progress, StreamIn
<1>15. ASSUME NEW p \in Actors, MakeTarget(p) PROVE LookupStable'
  <2>1. ~Found(p)' /\ Progress(p) /\ req[p].h \in Handles
    BY <1>15 DEF MakeTarget, Found, Progress, StreamIn, Request
  <2>2. CASE live' = live
    BY <1>2, <2>1, <2>2
  <2>3. CASE live' # live /\ live[req[p].h] = NoDir
    BY <1>3, <1>15, <2>1, <2>3 DEF MakeTarget
  <2>4. CASE live' # live /\ live[req[p].h] # NoDir
    <3>1. live[req[p].h] \in Dir
      BY <2>1, <2>4
    <3>2. AddFiles(live[req[p].h].data, "host") \in Owners
      BY <3>1, AddFilesType DEF Dir, Owners
    <3>3. PICK o \in Owners : live' = [live EXCEPT ![req[p].h].data = o]
      BY <1>15, <2>4, <3>1, <3>2 DEF MakeTarget, Dir
    <3> QED BY <1>5, <2>1, <2>4, <3>3
  <2> QED BY <2>2, <2>3, <2>4
<1>16. ASSUME NEW p \in Actors, NamespaceTarget(p) PROVE LookupStable'
  <2>1. ~Found(p)' /\ Progress(p) /\ req[p].h \in Handles
    BY <1>16 DEF NamespaceTarget, NamespaceVolume, Found, Progress, StreamIn, Request
  <2>2. CASE live[req[p].h] = NoDir
    BY <1>2, <1>16, <2>1, <2>2 DEF NamespaceTarget, NamespaceVolume
  <2>3. CASE live[req[p].h] # NoDir
    <3>1. PICK o \in NamespacePath(live[req[p].h].data, got[p].priv) :
             live' = [live EXCEPT ![req[p].h].data = o]
      BY <1>16, <2>3 DEF NamespaceTarget, NamespaceVolume
    <3>2. o \in Owners \union {Missing}
      BY <2>1, <2>3, NamespaceType DEF Dir
    <3> QED BY <1>5, <2>1, <2>3, <3>1, <3>2
  <2> QED BY <2>2, <2>3
<1>17. ASSUME NEW p \in Actors, Extract(p) PROVE LookupStable'
  <2>1. ~Found(p)' /\ Progress(p) /\ req[p].h \in Handles
    BY <1>17 DEF Extract, Found, Progress, StreamIn, Request
  <2>2. CASE live' = live
    BY <1>2, <2>1, <2>2
  <2>3. CASE live' # live
    <3>1. live[req[p].h] \in Dir /\ live[req[p].h] # NoDir
      BY <1>17, <2>1, <2>3 DEF Extract
    <3>2. AddFiles(live[req[p].h].data, Owner(got[p].priv)) \in Owners
      BY <3>1, AddFilesType DEF Dir, Owner, Owners
    <3> QED BY <1>5, <1>17, <2>1, <2>3, <3>1, <3>2 DEF Extract
  <2> QED BY <2>2, <2>3
<1>18. CASE Crash
  BY <1>18 DEF Crash, LookupStable, PropsAt, Found
<1>19. CASE UNCHANGED vars
  BY <1>19 DEF vars, LookupStable, PropsAt, Found
<1> QED
  BY <1>6, <1>7, <1>8, <1>9, <1>10, <1>11, <1>12, <1>13, <1>14, <1>15, <1>16, <1>17, <1>18, <1>19,
     <1>20 DEF Next, Progress, LockedStep, StreamIn

Inv == TypeOK /\ RequestServed /\ InitOwned /\ DeadOwned /\ LockOwned /\ LookupStable

\* The invariants of the repository are inductive together.
THEOREM Invariance == Spec => []Inv
<1>1. Init => Inv
  BY DEF Init, Inv, TypeOK, Steps, Nothing, Metadata, RequestServed, InitOwned, Initializing, DeadOwned,
     TearingDown, LockOwned, HoldsLock, LookupStable, Found
<1>2. Inv /\ [Next]_vars => Inv'
  BY TypeStep, RequestStep, InitOwnedStep, DeadOwnedStep, LockOwnedStep, LookupStableStep DEF Inv
<1> QED BY <1>1, <1>2, PTL DEF Spec

\* The directories, locks and requests keep their types.
THEOREM TypeCorrect == Spec => []TypeOK
BY Invariance, PTL DEF Inv

\* Mkdir makes CreateVolume the only user of init/h.
THEOREM InitOwnedHolds == Spec => []InitOwned
BY Invariance, PTL DEF Inv

\* Failed creations and destroyers never tear down the same dead/h.
THEOREM DeadOwnedHolds == Spec => []DeadOwned
BY Invariance, PTL DEF Inv

\* What a locking operation looked up and read stays true until it unlocks.
THEOREM LookupStableHolds == Spec => []LookupStable
BY Invariance, PTL DEF Inv

\* The directory that Initialize renames has the metadata of the request.
LEMMA InitDescribedStep == Inv /\ InitDescribed /\ [Next]_vars => InitDescribed'
<1> SUFFICES ASSUME Inv, InitDescribed, [Next]_vars PROVE InitDescribed'
  OBVIOUS
<1> USE DEF Inv, TypeOK, Move, Return, Finish, Handle
<1>1. ASSUME NEW p \in Actors, Start(p) \/ Lock(p) \/ Progress(p), pc'[p] # "initialize", init' = init
      PROVE  InitDescribed'
  BY <1>1, Others DEF InitDescribed
<1>2. ASSUME NEW p \in Actors, Progress(p), pc'[p] # "initialize", NEW d,
             Initializing(p) \/ init[req[p].h] = NoDir, init' = [init EXCEPT ![req[p].h] = d]
      PROVE  InitDescribed'
  <2>1. \A q \in Actors \ {p} : pc[q] = "initialize" => req[q].h # req[p].h /\ req[q].h \in Handles
    BY <1>2 DEF InitOwned, Initializing, Request
  <2>2. \A q \in Actors \ {p} : pc[q] = "initialize" => init'[req[q].h] = init[req[q].h]
    BY <1>2, <2>1
  <2> QED BY <1>2, <2>2, Others DEF InitDescribed
<1>3. ASSUME NEW p \in Actors, MakeInitDir(p) \/ DriverCreate(p) \/ LinkParent(p) \/ Initialize(p) \/ Discard(p)
      PROVE  InitDescribed'
  <2>1. pc'[p] # "initialize" /\ Progress(p)
    BY <1>3 DEF MakeInitDir, DriverCreate, AfterDriver, LinkParent, Initialize, Discard, Progress, CreateVolume
  <2>2. CASE init' = init
    BY <1>1, <2>1, <2>2
  <2>3. CASE init' # init
    <3>1. Initializing(p) \/ init[req[p].h] = NoDir
      BY <1>3, <2>3 DEF MakeInitDir, DriverCreate, LinkParent, Initialize, Discard, Initializing
    <3>2. PICK d : init' = [init EXCEPT ![req[p].h] = d]
      BY <1>3, <2>3 DEF MakeInitDir, DriverCreate, LinkParent, Initialize, Discard
    <3> QED BY <1>2, <2>1, <3>1, <3>2
  <2> QED BY <2>2, <2>3
<1>4. ASSUME NEW p \in Actors, Describe(p) PROVE InitDescribed'
  <2>1. Initializing(p) /\ req[p].h \in Handles /\ init[req[p].h] \in Dir /\ req' = req
    BY <1>4 DEF Describe, Initializing, InitOwned, Request
  <2>2. CASE pc'[p] = "discard"
    <3>1. PICK d : init' = [init EXCEPT ![req[p].h] = d]
      BY <1>4, <2>2 DEF Describe
    <3> QED BY <1>2, <1>4, <2>1, <2>2, <3>1 DEF Progress, CreateVolume
  <2>3. CASE pc'[p] = "initialize"
    <3>1. PICK o : init' = [init EXCEPT ![req[p].h] =
                       [[[init[req[p].h] EXCEPT !.props = req[p].props] EXCEPT !.priv = req[p].priv]
                            EXCEPT !.data = o]]
      BY <1>4, <2>3 DEF Describe
    <3>2. init'[req[p].h].props = req[p].props /\ init'[req[p].h].priv = req[p].priv
      BY <2>1, <3>1 DEF Dir
    <3>3. \A q \in Actors \ {p} : pc[q] = "initialize" => req[q].h # req[p].h /\ req[q].h \in Handles
      BY <2>1 DEF InitOwned, Initializing, Request
    <3>4. \A q \in Actors \ {p} : pc'[q] = pc[q]
      BY <1>4, Others DEF Progress, CreateVolume
    <3>5. \A q \in Actors \ {p} : pc[q] = "initialize" => init'[req[q].h] = init[req[q].h]
      BY <3>1, <3>3
    <3> QED BY <2>1, <3>2, <3>4, <3>5 DEF InitDescribed
  <2> QED BY <1>4, <2>2, <2>3 DEF Describe
<1>5. ASSUME NEW p \in Actors, Start(p) \/ Lock(p) \/ LookupParent(p) \/ Import(p) PROVE InitDescribed'
  BY <1>1, <1>5 DEF Start, FirstStep, Lock, LookupParent, Import, Progress, CreateVolume
<1>6. ASSUME NEW p \in Actors, DestroyDead(p) PROVE InitDescribed'
  BY <1>1, <1>6 DEF DestroyDead, DriverDestroy, Cleanup, Progress
<1>7. ASSUME NEW p \in Actors, LockedStep(p) PROVE InitDescribed'
  BY <1>1, <1>7 DEF LockedStep, LookupVolume, AfterLookup, Bury, LoadProperties, StoreProperties,
     NamespaceContents, NamespaceVolume, EncodeProperties, StorePrivileged, EncodePrivileged, Overwrite, Encode,
     LoadPrivileged, Unlock, fs, Progress
<1>8. ASSUME NEW p \in Actors, StreamIn(p) PROVE InitDescribed'
  BY <1>1, <1>8 DEF StreamIn, LookupTarget, MakeTarget, LoadFlag, NamespaceTarget, NamespaceVolume,
     Extract, Progress
<1>9. CASE Crash
  BY <1>9 DEF Crash, InitDescribed
<1>10. CASE UNCHANGED vars
  BY <1>10 DEF vars, InitDescribed
<1> QED BY <1>3, <1>4, <1>5, <1>6, <1>7, <1>8, <1>9, <1>10 DEF Next, Progress, CreateVolume

\* A step of one request leaves the init/h of another as it is.
LEMMA InitFrame ==
  ASSUME Inv, NEW p \in Actors, Start(p) \/ Lock(p) \/ Progress(p),
         NEW q \in Actors \ {p}, Initializing(q)
  PROVE  /\ pc'[q] = pc[q] /\ req'[q] = req[q]
         /\ req[q].h \in Handles /\ init'[req[q].h] = init[req[q].h]
<1> USE DEF Inv, TypeOK, Move, Return, Finish, Handle
<1>1. pc'[q] = pc[q] /\ req'[q] = req[q]
  BY Others
<1>2. req[q].h \in Handles /\ init[req[q].h] # NoDir
  BY DEF InitOwned, Initializing, Request
<1>3. ASSUME NEW d, init' = [init EXCEPT ![req[p].h] = d], Initializing(p) \/ init[req[p].h] = NoDir
      PROVE  init'[req[q].h] = init[req[q].h]
  <2>1. req[q].h # req[p].h
    BY <1>2, <1>3 DEF InitOwned
  <2> QED BY <1>2, <1>3, <2>1
<1>4. ASSUME CreateVolume(p) PROVE init'[req[q].h] = init[req[q].h]
  <2>1. CASE LookupParent(p) \/ Import(p)
    BY <2>1 DEF LookupParent, Import
  <2>2. CASE MakeInitDir(p)
    BY <1>3, <2>2 DEF MakeInitDir
  <2>3. CASE DriverCreate(p) \/ LinkParent(p)
    BY <1>3, <2>3 DEF DriverCreate, LinkParent, Initializing
  <2>4. CASE Describe(p)
    BY <1>3, <2>4 DEF Describe, Initializing
  <2>5. CASE Initialize(p) \/ Discard(p)
    BY <1>3, <2>5 DEF Initialize, Discard, Initializing
  <2> QED BY <1>4, <2>1, <2>2, <2>3, <2>4, <2>5 DEF CreateVolume
<1>5. ASSUME Start(p) \/ Lock(p) \/ DestroyDead(p) PROVE init' = init
  BY <1>5 DEF Start, Lock, DestroyDead, DriverDestroy, Cleanup
<1>6. ASSUME LockedStep(p) PROVE init' = init
  BY <1>6 DEF LockedStep, LookupVolume, Bury, LoadProperties, StoreProperties, NamespaceContents,
     NamespaceVolume, EncodeProperties, StorePrivileged, EncodePrivileged, Overwrite, Encode,
     LoadPrivileged, Unlock, fs
<1>7. ASSUME StreamIn(p) PROVE init' = init
  BY <1>7 DEF StreamIn, LookupTarget, MakeTarget, LoadFlag, NamespaceTarget, NamespaceVolume, Extract
<1> QED BY <1>1, <1>2, <1>4, <1>5, <1>6, <1>7 DEF Progress

\* A request gives up on its init/h when a store there fails.
InitReadable == \A p \in Actors :
    pc[p] \in {"driver", "symlink", "import", "describe", "initialize"} => init[Handle(p)].torn = {}

LEMMA InitReadableStep == Inv /\ InitReadable /\ [Next]_vars => InitReadable'
<1> SUFFICES ASSUME Inv, InitReadable, [Next]_vars PROVE InitReadable'
  OBVIOUS
<1> USE DEF Inv, TypeOK, Move, Return, Finish, Handle
<1> DEFINE filling == {"driver", "symlink", "import", "describe", "initialize"}
<1>1. ASSUME NEW p \in Actors, Start(p) \/ Lock(p) \/ Progress(p),
             pc'[p] \in filling => req'[p] = req[p] /\ init'[req[p].h].torn = {}
      PROVE  InitReadable'
  <2>1. \A q \in Actors \ {p} : pc'[q] \in filling => init'[req'[q].h].torn = {}
    <3> SUFFICES ASSUME NEW q \in Actors \ {p}, pc'[q] \in filling PROVE init'[req'[q].h].torn = {}
      OBVIOUS
    <3>1. pc'[q] = pc[q]
      BY <1>1, Others
    <3>2. Initializing(q)
      BY <3>1 DEF Initializing
    <3> QED BY <1>1, <3>1, <3>2, InitFrame DEF InitReadable
  <2> QED BY <1>1, <2>1 DEF InitReadable
<1>2. ASSUME NEW p \in Actors, Initializing(p) PROVE req[p].h \in Handles /\ init[req[p].h] \in Dir
  BY <1>2 DEF InitOwned, Initializing, Request
<1>3. ASSUME NEW p \in Actors, MakeInitDir(p) PROVE InitReadable'
  <2>1. CASE pc'[p] \in filling
    <3>1. init' = [init EXCEPT ![req[p].h] = NewDir({})] /\ req' = req /\ req[p].h \in Handles
      BY <1>3, <2>1 DEF MakeInitDir, Request
    <3>2. init'[req[p].h].torn = {}
      BY <3>1 DEF NewDir
    <3> QED BY <1>1, <1>3, <3>1, <3>2 DEF Progress, CreateVolume
  <2> QED BY <1>1, <1>3, <2>1 DEF Progress, CreateVolume
<1>4. ASSUME NEW p \in Actors, DriverCreate(p) \/ LinkParent(p) \/ Describe(p) PROVE InitReadable'
  <2>1. Initializing(p) /\ Progress(p) /\ init[req[p].h].torn = {}
    BY <1>4 DEF DriverCreate, LinkParent, Describe, Initializing, Progress, CreateVolume, InitReadable
  <2>2. req[p].h \in Handles /\ init[req[p].h] \in Dir
    BY <1>2, <2>1
  <2>3. CASE pc'[p] \in filling
    <3>1. CASE DriverCreate(p)
      <4>1. init' = [init EXCEPT ![req[p].h] = [init[req[p].h] EXCEPT !.data = DriverData(p)]] /\ req' = req
        BY <2>3, <3>1 DEF DriverCreate
      <4>2. init'[req[p].h].torn = {}
        BY <2>1, <2>2, <4>1 DEF Dir
      <4> QED BY <1>1, <2>1, <4>1, <4>2
    <3>2. CASE LinkParent(p)
      <4>1. init' = [init EXCEPT ![req[p].h] = [init[req[p].h] EXCEPT !.parent = req[p].parent]] /\ req' = req
        BY <2>3, <3>2 DEF LinkParent
      <4>2. init'[req[p].h].torn = {}
        BY <2>1, <2>2, <4>1 DEF Dir
      <4> QED BY <1>1, <2>1, <4>1, <4>2
    <3>3. CASE Describe(p)
      <4>1. PICK d : init' = [init EXCEPT ![req[p].h] =
                         [[[init[req[p].h] EXCEPT !.props = req[p].props] EXCEPT !.priv = req[p].priv]
                              EXCEPT !.data = d]]
        BY <2>3, <3>3 DEF Describe
      <4>2. init'[req[p].h].torn = {}
        BY <2>1, <2>2, <4>1 DEF Dir
      <4> QED BY <1>1, <2>1, <3>3, <4>2 DEF Describe
    <3> QED BY <1>4, <3>1, <3>2, <3>3
  <2> QED BY <1>1, <2>1, <2>3
<1>5. ASSUME NEW p \in Actors, Import(p) PROVE InitReadable'
  <2>1. Progress(p) /\ init' = init /\ init[req[p].h].torn = {}
    BY <1>5 DEF Import, Progress, CreateVolume, InitReadable
  <2>2. pc'[p] \in filling => req'[p] = req[p]
    BY <1>5 DEF Import
  <2> QED BY <1>1, <2>1, <2>2
<1>6. ASSUME NEW p \in Actors, LookupParent(p) \/ Initialize(p) \/ Discard(p) PROVE InitReadable'
  BY <1>1, <1>6 DEF LookupParent, Initialize, Discard, Progress, CreateVolume
<1>7. ASSUME NEW p \in Actors, Start(p) \/ Lock(p) \/ DestroyDead(p) PROVE InitReadable'
  BY <1>1, <1>7 DEF Start, FirstStep, Lock, DestroyDead, DriverDestroy, Cleanup, Progress
<1>8. ASSUME NEW p \in Actors, LockedStep(p) PROVE InitReadable'
  <2>1. pc'[p] \notin filling
    BY <1>8 DEF LockedStep, LookupVolume, AfterLookup, Bury, LoadProperties, StoreProperties,
       NamespaceContents, NamespaceVolume, EncodeProperties, StorePrivileged, EncodePrivileged, Overwrite,
       Encode, LoadPrivileged, Unlock
  <2> QED BY <1>1, <1>8, <2>1 DEF Progress
<1>9. ASSUME NEW p \in Actors, StreamIn(p) PROVE InitReadable'
  <2>1. pc'[p] \notin filling
    BY <1>9 DEF StreamIn, LookupTarget, MakeTarget, LoadFlag, NamespaceTarget, NamespaceVolume, Extract
  <2> QED BY <1>1, <1>9, <2>1 DEF Progress
<1>10. CASE Crash
  BY <1>10 DEF Crash, InitReadable
<1>11. CASE UNCHANGED vars
  BY <1>11 DEF vars, InitReadable
<1> QED BY <1>3, <1>4, <1>5, <1>6, <1>7, <1>8, <1>9, <1>10, <1>11 DEF Next, Progress, CreateVolume

\* The volume that clients see of a directory in live/.
LEMMA Visible ==
  ASSUME TypeOK, NEW h \in Handles, live[h] # NoDir
  PROVE  LiveVolumes[h] = Seen(live[h]) /\ LiveVolumes[h] # NoDir
BY NullDir DEF LiveVolumes, TypeOK

\* A step that leaves the metadata in live/ alone is invisible to clients.
LEMMA Invisible ==
  ASSUME TypeOK, NEW h \in Handles, live[h] \in Dir, NEW o \in Owners \union {Missing},
         live' = [live EXCEPT ![h].data = o]
  PROVE  UNCHANGED LiveVolumes
<1>1. live'[h] = [live[h] EXCEPT !.data = o] /\ \A g \in Handles \ {h} : live'[g] = live[g]
  BY DEF TypeOK
<1>2. /\ live'[h] \in Dir /\ live'[h].props = live[h].props /\ live'[h].priv = live[h].priv
      /\ live'[h].torn = live[h].torn
  BY <1>1 DEF Dir
<1> QED BY <1>1, <1>2, NullDir DEF LiveVolumes, Seen

\* Replacing a directory in live/ replaces what clients see of it.
LEMMA Replaced ==
  ASSUME TypeOK, NEW h \in Handles, NEW d \in Dir, live' = [live EXCEPT ![h] = d]
  PROVE  LiveVolumes' = [LiveVolumes EXCEPT ![h] = Seen(d)]
<1>1. live'[h] = d /\ d # NoDir /\ \A g \in Handles \ {h} : live'[g] = live[g]
  BY NullDir DEF TypeOK
<1>2. LiveVolumes' = [g \in Handles |-> IF g = h THEN Seen(d) ELSE LiveVolumes[g]]
  BY <1>1 DEF LiveVolumes
<1> QED BY <1>2 DEF LiveVolumes

LEMMA SeenChanges ==
  ASSUME NEW d \in Dir, NEW file \in Files, NEW ps \in SUBSET Names, NEW b \in BOOLEAN
  PROVE  /\ Tear(d, file) \in Dir /\ Seen(Tear(d, file)) = [Seen(d) EXCEPT !.torn = @ \union {file}]
         /\ [d EXCEPT !.props = ps, !.torn = @ \ {"props"}] \in Dir
         /\ Seen([d EXCEPT !.props = ps, !.torn = @ \ {"props"}])
              = [Seen(d) EXCEPT !.props = ps, !.torn = @ \ {"props"}]
         /\ [d EXCEPT !.priv = b, !.torn = @ \ {"priv"}] \in Dir
         /\ Seen([d EXCEPT !.priv = b, !.torn = @ \ {"priv"}])
              = [Seen(d) EXCEPT !.priv = b, !.torn = @ \ {"priv"}]
<1>2. Tear(d, file) \in Dir /\ Seen(Tear(d, file)) = [Seen(d) EXCEPT !.torn = @ \union {file}]
  BY DEF Tear, Seen, Dir
<1>3. /\ [d EXCEPT !.props = ps, !.torn = @ \ {"props"}] \in Dir
      /\ Seen([d EXCEPT !.props = ps, !.torn = @ \ {"props"}])
           = [Seen(d) EXCEPT !.props = ps, !.torn = @ \ {"props"}]
  <2>1. PICK e : e = [d EXCEPT !.props = ps, !.torn = @ \ {"props"}]
    OBVIOUS
  <2>2. e \in Dir
    BY <2>1 DEF Dir
  <2>3. e.props = ps /\ e.priv = d.priv /\ e.torn = d.torn \ {"props"}
    BY <2>1 DEF Dir
  <2>4. PICK s : s = Seen(d)
    OBVIOUS
  <2>5. s = [props |-> d.props, priv |-> d.priv, torn |-> d.torn]
    BY <2>4 DEF Seen
  <2>7. PICK left : left = d.torn \ {"props"}
    OBVIOUS
  <2>8. PICK r : r = [s EXCEPT !.props = ps, !.torn = left]
    OBVIOUS
  <2>9. s \in [props : {d.props, ps}, priv : {d.priv, b}, torn : {d.torn, left}]
    BY <2>5
  <2>10. r \in [props : {d.props, ps}, priv : {d.priv, b}, torn : {d.torn, left}]
    BY <2>8, <2>9
  <2>11. r.props = e.props /\ r.priv = e.priv /\ r.torn = e.torn
    BY <2>3, <2>5, <2>7, <2>8, <2>9
  <2>12. r = [props |-> e.props, priv |-> e.priv, torn |-> e.torn]
    BY <2>10, <2>11
  <2>13. s.torn \ {"props"} = left
    BY <2>5, <2>7
  <2>6. [s EXCEPT !.props = ps, !.torn = @ \ {"props"}] = [props |-> e.props, priv |-> e.priv, torn |-> e.torn]
    BY <2>8, <2>12, <2>13
  <2> QED BY <2>1, <2>2, <2>4, <2>6 DEF Seen
<1>4. /\ [d EXCEPT !.priv = b, !.torn = @ \ {"priv"}] \in Dir
      /\ Seen([d EXCEPT !.priv = b, !.torn = @ \ {"priv"}])
           = [Seen(d) EXCEPT !.priv = b, !.torn = @ \ {"priv"}]
  <2>1. PICK e : e = [d EXCEPT !.priv = b, !.torn = @ \ {"priv"}]
    OBVIOUS
  <2>2. e \in Dir
    BY <2>1 DEF Dir
  <2>3. e.props = d.props /\ e.priv = b /\ e.torn = d.torn \ {"priv"}
    BY <2>1 DEF Dir
  <2>4. PICK s : s = Seen(d)
    OBVIOUS
  <2>5. s = [props |-> d.props, priv |-> d.priv, torn |-> d.torn]
    BY <2>4 DEF Seen
  <2>7. PICK left : left = d.torn \ {"priv"}
    OBVIOUS
  <2>8. PICK r : r = [s EXCEPT !.priv = b, !.torn = left]
    OBVIOUS
  <2>9. s \in [props : {d.props, ps}, priv : {d.priv, b}, torn : {d.torn, left}]
    BY <2>5
  <2>10. r \in [props : {d.props, ps}, priv : {d.priv, b}, torn : {d.torn, left}]
    BY <2>8, <2>9
  <2>11. r.props = e.props /\ r.priv = e.priv /\ r.torn = e.torn
    BY <2>3, <2>5, <2>7, <2>8, <2>9
  <2>12. r = [props |-> e.props, priv |-> e.priv, torn |-> e.torn]
    BY <2>10, <2>11
  <2>13. s.torn \ {"priv"} = left
    BY <2>5, <2>7
  <2>6. [s EXCEPT !.priv = b, !.torn = @ \ {"priv"}] = [props |-> e.props, priv |-> e.priv, torn |-> e.torn]
    BY <2>8, <2>12, <2>13
  <2> QED BY <2>1, <2>2, <2>4, <2>6 DEF Seen
<1> QED BY <1>2, <1>3, <1>4

\* Without StreamIn, the clients of the repository see the volume store: a volume
\* appears complete and goes at once, no update of a property is lost, and a store
\* that fails or is killed leaves at worst a torn file.
THEOREM Refinement ==
  ASSUME "StreamIn" \notin Ops
  PROVE  Spec => ImplementsVolumeStore
<1>1. Init => VS!Init
  BY DEF Init, VS!Init, LiveVolumes
<1>2. Inv /\ InitDescribed /\ InitReadable /\ [Next]_vars => [VS!Next]_LiveVolumes
  <2> SUFFICES ASSUME Inv, InitDescribed, InitReadable, [Next]_vars PROVE [VS!Next]_LiveVolumes
    OBVIOUS
  <2> USE DEF Inv, TypeOK, Move, Return, Finish, Handle
  <2>1. ASSUME live' = live PROVE UNCHANGED LiveVolumes
    BY <2>1 DEF LiveVolumes
  <2>2. ASSUME NEW p \in Actors, Initialize(p), live' # live PROVE VS!Next
    <3> DEFINE h == req[p].h
    <3>1. /\ h \in Handles /\ live[h] = NoDir /\ live' = [live EXCEPT ![h] = init[h]]
          /\ init[h].props \in SUBSET Names /\ init[h].priv \in BOOLEAN /\ init[h] \in Dir
          /\ init[h].torn = {}
      BY <2>2 DEF Initialize, Request, InitDescribed, InitReadable, InitOwned, Initializing
    <3>2. LiveVolumes[h] = NoDir
      BY <3>1 DEF LiveVolumes
    <3>3. LiveVolumes' = [LiveVolumes EXCEPT ![h] = Seen(init[h])]
      BY <3>1, Replaced
    <3>4. Seen(init[h]) = [props |-> init[h].props, priv |-> init[h].priv, torn |-> {}]
      BY <3>1 DEF Seen
    <3>5. VS!CreateVolume(h, init[h].props, init[h].priv)
      BY <3>2, <3>3, <3>4 DEF VS!CreateVolume
    <3> QED BY <3>1, <3>5 DEF VS!Next
  <2>3. ASSUME NEW p \in Actors, Bury(p), live' # live PROVE VS!Next
    <3> DEFINE h == req[p].h
    <3>1. h \in Handles /\ live[h] # NoDir /\ live' = [live EXCEPT ![h] = NoDir]
      BY <2>3 DEF Bury, Request
    <3>2. LiveVolumes[h] # NoDir
      BY <3>1, Visible
    <3>3. VS!DestroyVolume(h)
      BY <3>1, <3>2 DEF VS!DestroyVolume, LiveVolumes
    <3> QED BY <3>1, <3>3 DEF VS!Next
  <2>11. ASSUME NEW p \in Actors, StoreProperties(p) \/ StorePrivileged(p), live' # live PROVE VS!Next
    <3> DEFINE h == req[p].h
    <3>1. PICK file \in Files : live' = [live EXCEPT ![h] = Tear(live[h], file)]
      BY <2>11 DEF StoreProperties, StorePrivileged, Overwrite, Files
    <3>2. h \in Handles /\ live[h] # NoDir /\ live[h] \in Dir
      BY <2>11 DEF StoreProperties, StorePrivileged, Overwrite, Request, LookupStable, Found
    <3>3. Tear(live[h], file) \in Dir /\ Seen(Tear(live[h], file)) = [Seen(live[h]) EXCEPT !.torn = @ \union {file}]
      BY <3>2, SeenChanges
    <3>4. LiveVolumes[h] = Seen(live[h]) /\ LiveVolumes[h] # NoDir
      BY <3>2, Visible
    <3>5. LiveVolumes' = [LiveVolumes EXCEPT ![h] = Seen(Tear(live[h], file))]
      BY <3>1, <3>2, <3>3, Replaced
    <3>6. LiveVolumes' = [LiveVolumes EXCEPT ![h].torn = @ \union {file}]
      BY <3>3, <3>4, <3>5
    <3>7. VS!Overwrite(h, file)
      BY <3>4, <3>6 DEF VS!Overwrite
    <3>8. file \in VS!Files
      BY DEF VS!Files, Files
    <3> QED BY <3>2, <3>7, <3>8 DEF VS!Next
  <2>4. ASSUME NEW p \in Actors, EncodeProperties(p), live' # live PROVE VS!Next
    <3> DEFINE h == req[p].h
    <3>1. /\ h \in Handles /\ live[h] # NoDir /\ live[h] \in Dir /\ got[p].props = live[h].props
          /\ got[p].props \in SUBSET Names /\ req[p].props \in SUBSET Names /\ "props" \in live[h].torn
      BY <2>4 DEF EncodeProperties, Encode, Request, LookupStable, Found
    <3>2. PICK n \in Names : req[p].props = {n}
      BY <2>4 DEF EncodeProperties, Encode, RequestServed, WellFormed
    <3>3. live' = [live EXCEPT ![h] = [live[h] EXCEPT !.props = live[h].props \union {n}, !.torn = @ \ {"props"}]]
      BY <2>4, <3>1, <3>2 DEF EncodeProperties, Encode
    <3>4. PICK ps \in SUBSET Names : ps = live[h].props \union {n}
      BY <3>1, <3>2
    <3>5. PICK d \in Dir : /\ d = [live[h] EXCEPT !.props = ps, !.torn = @ \ {"props"}]
                           /\ Seen(d) = [Seen(live[h]) EXCEPT !.props = ps, !.torn = @ \ {"props"}]
      BY <3>1, SeenChanges DEF Files
    <3>6. LiveVolumes[h] = Seen(live[h]) /\ LiveVolumes[h] # NoDir
      BY <3>1, Visible
    <3>7. LiveVolumes' = [LiveVolumes EXCEPT ![h] = Seen(d)]
      BY <3>1, <3>3, <3>4, <3>5, Replaced
    <3>8. LiveVolumes[h].props = live[h].props /\ LiveVolumes[h].torn = live[h].torn
      BY <3>6 DEF Seen
    <3>9. LiveVolumes' = [LiveVolumes EXCEPT ![h].props = @ \union {n}, ![h].torn = @ \ {"props"}]
      <4>1. [LiveVolumes EXCEPT ![h].props = @ \union {n}, ![h].torn = @ \ {"props"}]
              = [LiveVolumes EXCEPT ![h] = [LiveVolumes[h] EXCEPT !.props = @ \union {n}, !.torn = @ \ {"props"}]]
        BY <3>1 DEF LiveVolumes
      <4> QED BY <3>4, <3>5, <3>6, <3>7, <3>8, <4>1
    <3>10. VS!SetProperty(h, {n})
      BY <3>1, <3>6, <3>8, <3>9 DEF VS!SetProperty
    <3> QED BY <3>1, <3>10 DEF VS!Next
  <2>5. ASSUME NEW p \in Actors, EncodePrivileged(p), live' # live PROVE VS!Next
    <3> DEFINE h == req[p].h
    <3>1. /\ h \in Handles /\ live[h] # NoDir /\ live[h] \in Dir /\ req[p].priv \in BOOLEAN
          /\ "priv" \in live[h].torn
      BY <2>5 DEF EncodePrivileged, Encode, Request, LookupStable, Found
    <3>2. PICK d \in Dir :
             /\ d = [live[h] EXCEPT !.priv = req[p].priv, !.torn = @ \ {"priv"}]
             /\ Seen(d) = [Seen(live[h]) EXCEPT !.priv = req[p].priv, !.torn = @ \ {"priv"}]
      BY <3>1, SeenChanges DEF Files
    <3>3. live' = [live EXCEPT ![h] = d]
      BY <2>5, <3>1, <3>2 DEF EncodePrivileged, Encode
    <3>4. LiveVolumes[h] = Seen(live[h]) /\ LiveVolumes[h] # NoDir
      BY <3>1, Visible
    <3>5. LiveVolumes' = [LiveVolumes EXCEPT ![h] = Seen(d)]
      BY <3>1, <3>3, Replaced
    <3>6. LiveVolumes[h].torn = live[h].torn
      BY <3>4 DEF Seen
    <3>7. LiveVolumes' = [LiveVolumes EXCEPT ![h].priv = req[p].priv, ![h].torn = @ \ {"priv"}]
      <4>1. [LiveVolumes EXCEPT ![h].priv = req[p].priv, ![h].torn = @ \ {"priv"}]
              = [LiveVolumes EXCEPT ![h] = [LiveVolumes[h] EXCEPT !.priv = req[p].priv, !.torn = @ \ {"priv"}]]
        BY <3>1 DEF LiveVolumes
      <4> QED BY <3>2, <3>4, <3>5, <4>1
    <3>8. VS!SetPrivileged(h, req[p].priv)
      BY <3>1, <3>4, <3>6, <3>7 DEF VS!SetPrivileged
    <3> QED BY <3>1, <3>8 DEF VS!Next
  <2>6. ASSUME NEW p \in Actors, NamespaceContents(p) PROVE UNCHANGED LiveVolumes
    <3>1. CASE live' = live
      BY <2>1, <3>1
    <3>2. CASE live' # live
      <4>1. /\ req[p].h \in Handles /\ live[req[p].h] \in Dir /\ req[p].priv \in BOOLEAN
            /\ \E o \in NamespacePath(live[req[p].h].data, req[p].priv) :
                  live' = [live EXCEPT ![req[p].h].data = o]
        BY <2>6, <3>2 DEF NamespaceContents, NamespaceVolume, Request
      <4>2. live[req[p].h].data \in Owners \union {Missing}
        BY <4>1 DEF Dir
      <4>3. PICK o \in Owners \union {Missing} : live' = [live EXCEPT ![req[p].h].data = o]
        BY <4>1, <4>2, NamespaceType
      <4> QED BY <4>1, <4>3, Invisible
    <3> QED BY <3>1, <3>2
  <2>7. ASSUME NEW p \in Actors, StreamIn(p) PROVE FALSE
    <3>1. pc[p] \in {"lookupTarget", "mkdirAll", "loadFlag", "namespaceTarget", "extract"}
      BY <2>7 DEF StreamIn, LookupTarget, MakeTarget, LoadFlag, NamespaceTarget, NamespaceVolume, Extract
    <3> QED BY <3>1 DEF RequestServed, WellFormed
  <2>8. ASSUME NEW p \in Actors,
               \/ Start(p) \/ Lock(p) \/ DestroyDead(p)
               \/ CreateVolume(p) /\ ~Initialize(p)
               \/ LookupVolume(p) \/ LoadProperties(p) \/ LoadPrivileged(p) \/ Unlock(p)
        PROVE  live' = live
    BY <2>8 DEF Start, Lock, DestroyDead, DriverDestroy, Cleanup, CreateVolume, LookupParent, MakeInitDir,
       DriverCreate, LinkParent, Import, Describe, Discard, LookupVolume, LoadProperties, LoadPrivileged,
       Unlock, fs
  <2>9. CASE Crash \/ UNCHANGED vars
    BY <2>1, <2>9 DEF Crash, fs, vars
  <2>10. ASSUME NEW p \in Actors, Start(p) \/ Lock(p) \/ Progress(p), live' # live
         PROVE  VS!Next \/ UNCHANGED LiveVolumes
    BY <2>2, <2>3, <2>4, <2>5, <2>6, <2>7, <2>8, <2>10,
      <2>11 DEF Progress, LockedStep
  <2> QED BY <2>1, <2>9, <2>10 DEF Next
<1>3. Init => InitDescribed /\ InitReadable
  BY DEF Init, InitDescribed, InitReadable
<1> QED BY <1>1, <1>2, <1>3, InitDescribedStep, InitReadableStep, Invariance, PTL DEF Spec, ImplementsVolumeStore, VS!Spec

(***************************************************************************)
(* Volumes are complete, if nothing is streamed in.                        *)
(***************************************************************************)
\* The driver has made the data directory of an init/h that is past it.
InitFilled == \A p \in Actors :
    pc[p] \in {"symlink", "import", "describe", "initialize"} => init[Handle(p)].data # Missing

\* Namespacing does not remove a data directory.
LEMMA NamespaceKeeps ==
  ASSUME NEW data \in Owners, NEW b, NEW d \in NamespacePath(data, b)
  PROVE  d \in Owners
BY NullValue DEF NamespacePath, Owner, Owners

LEMMA InitFilledStep == Inv /\ InitFilled /\ [Next]_vars => InitFilled'
<1> SUFFICES ASSUME Inv, InitFilled, [Next]_vars PROVE InitFilled'
  OBVIOUS
<1> USE DEF Inv, TypeOK, Move, Return, Finish, Handle
<1> DEFINE past == {"symlink", "import", "describe", "initialize"}
<1>1. ASSUME NEW p \in Actors, Start(p) \/ Lock(p) \/ Progress(p),
             pc'[p] \in past => req'[p] = req[p] /\ init'[req[p].h].data # Missing
      PROVE  InitFilled'
  <2>1. \A q \in Actors \ {p} : pc'[q] \in past => init'[req'[q].h].data # Missing
    <3> SUFFICES ASSUME NEW q \in Actors \ {p}, pc'[q] \in past PROVE init'[req'[q].h].data # Missing
      OBVIOUS
    <3>1. pc'[q] = pc[q]
      BY <1>1, Others
    <3>2. Initializing(q)
      BY <3>1 DEF Initializing
    <3> QED BY <1>1, <3>1, <3>2, InitFrame DEF InitFilled
  <2> QED BY <1>1, <2>1 DEF InitFilled
<1>2. ASSUME NEW p \in Actors, Initializing(p) PROVE req[p].h \in Handles /\ init[req[p].h] \in Dir
  BY <1>2 DEF InitOwned, Initializing, Request
<1>3. ASSUME NEW p \in Actors, DriverCreate(p) PROVE InitFilled'
  <2>1. Initializing(p) /\ Progress(p)
    BY <1>3 DEF DriverCreate, Initializing, Progress, CreateVolume
  <2>2. CASE pc'[p] \in past
    <3>1. DriverData(p) # Missing /\ init' = [init EXCEPT ![req[p].h].data = DriverData(p)] /\ req' = req
      BY <1>3, <2>2 DEF DriverCreate
    <3>2. init'[req[p].h].data # Missing
      BY <1>2, <2>1, <3>1 DEF Dir
    <3> QED BY <1>1, <2>1, <3>1, <3>2
  <2> QED BY <1>1, <2>1, <2>2
<1>4. ASSUME NEW p \in Actors, LinkParent(p) PROVE InitFilled'
  <2>1. Initializing(p) /\ Progress(p) /\ req' = req /\ init[req[p].h].data # Missing
    BY <1>4 DEF LinkParent, Initializing, Progress, CreateVolume, InitFilled
  <2>2. CASE pc'[p] \in past
    <3>1. init' = [init EXCEPT ![req[p].h].parent = req[p].parent]
      BY <1>4, <2>2 DEF LinkParent
    <3>2. init'[req[p].h].data # Missing
      BY <1>2, <2>1, <3>1 DEF Dir
    <3> QED BY <1>1, <2>1, <3>2
  <2> QED BY <1>1, <2>1, <2>2
<1>5. ASSUME NEW p \in Actors, Describe(p) PROVE InitFilled'
  <2>1. Initializing(p) /\ Progress(p) /\ req' = req /\ init[req[p].h].data # Missing
    BY <1>5 DEF Describe, Initializing, Progress, CreateVolume, InitFilled
  <2>2. CASE pc'[p] \in past
    <3>1. PICK d \in NamespacePath(init[req[p].h].data, req[p].priv) :
             init' = [init EXCEPT ![req[p].h] =
                        [[[init[req[p].h] EXCEPT !.props = req[p].props] EXCEPT !.priv = req[p].priv]
                             EXCEPT !.data = d]]
      BY <1>5, <2>2 DEF Describe
    <3>2. d # Missing
      <4>1. init[req[p].h].data \in Owners
        BY <1>2, <2>1 DEF Dir
      <4> QED BY <4>1, NamespaceKeeps, NullValue
    <3>3. init'[req[p].h].data = d
      BY <1>2, <2>1, <3>1 DEF Dir
    <3> QED BY <1>1, <2>1, <3>2, <3>3
  <2> QED BY <1>1, <2>1, <2>2
<1>6. ASSUME NEW p \in Actors, Import(p) PROVE InitFilled'
  <2>1. pc[p] = "import" /\ Progress(p) /\ init' = init
    BY <1>6 DEF Import, Progress, CreateVolume
  <2>2. init[req[p].h].data # Missing
    BY <2>1 DEF InitFilled
  <2>3. pc'[p] \in past => req'[p] = req[p]
    BY <1>6 DEF Import
  <2> QED BY <1>1, <2>1, <2>2, <2>3
<1>7. ASSUME NEW p \in Actors, LookupParent(p) \/ MakeInitDir(p) \/ Initialize(p) \/ Discard(p) PROVE InitFilled'
  BY <1>1, <1>7 DEF LookupParent, MakeInitDir, Initialize, Discard, Progress, CreateVolume
<1>8. ASSUME NEW p \in Actors, Start(p) \/ Lock(p) \/ DestroyDead(p) PROVE InitFilled'
  BY <1>1, <1>8 DEF Start, FirstStep, Lock, DestroyDead, DriverDestroy, Cleanup, Progress
<1>9. ASSUME NEW p \in Actors, LockedStep(p) PROVE InitFilled'
  <2>1. pc'[p] \notin past
    BY <1>9 DEF LockedStep, LookupVolume, AfterLookup, Bury, LoadProperties, StoreProperties,
       NamespaceContents, NamespaceVolume, EncodeProperties, StorePrivileged, EncodePrivileged, Overwrite, Encode,
     LoadPrivileged, Unlock
  <2> QED BY <1>1, <1>9, <2>1 DEF Progress
<1>10. ASSUME NEW p \in Actors, StreamIn(p) PROVE InitFilled'
  <2>1. pc'[p] \notin past
    BY <1>10 DEF StreamIn, LookupTarget, MakeTarget, LoadFlag, NamespaceTarget, NamespaceVolume, Extract
  <2> QED BY <1>1, <1>10, <2>1 DEF Progress
<1>11. CASE Crash
  BY <1>11 DEF Crash, InitFilled
<1>12. CASE UNCHANGED vars
  BY <1>12 DEF vars, InitFilled
<1> QED BY <1>3, <1>4, <1>5, <1>6, <1>7, <1>8, <1>9, <1>10, <1>11, <1>12 DEF Next, Progress, CreateVolume
\* The steps that store metadata.
Storing(p) == StoreProperties(p) \/ EncodeProperties(p) \/ StorePrivileged(p) \/ EncodePrivileged(p)

\* What a step of a request that streams nothing in does to live/: a directory
\* comes or goes, or one of its fields changes.
LEMMA LiveStep ==
  ASSUME Inv, NEW p \in Actors, Start(p) \/ Lock(p) \/ Progress(p), "StreamIn" \notin Ops, live' # live
  PROVE  /\ req[p].h \in Handles
         /\ \/ Initialize(p) /\ live[req[p].h] = NoDir /\ live' = [live EXCEPT ![req[p].h] = init[req[p].h]]
            \/ Bury(p) /\ live[req[p].h] # NoDir /\ live' = [live EXCEPT ![req[p].h] = NoDir]
            \/ /\ NamespaceContents(p) /\ live[req[p].h] \in Dir
               /\ \E d \in NamespacePath(live[req[p].h].data, req[p].priv) :
                     live' = [live EXCEPT ![req[p].h].data = d]
            \/ /\ Storing(p) /\ live[req[p].h] \in Dir
               /\ \E d \in Dir :
                     /\ live' = [live EXCEPT ![req[p].h] = d]
                     /\ d.data = live[req[p].h].data
                     /\ d.props = live[req[p].h].props \/ d.props \in SUBSET Names
                     /\ d.priv = IF EncodePrivileged(p) THEN req[p].priv ELSE live[req[p].h].priv
<1> USE DEF Inv, TypeOK, Move, Return, Finish, Handle
<1>1. ASSUME Start(p) \/ Lock(p) \/ DestroyDead(p) PROVE FALSE
  BY <1>1 DEF Start, Lock, DestroyDead, DriverDestroy, Cleanup
<1>2. ASSUME CreateVolume(p), ~Initialize(p) PROVE FALSE
  BY <1>2 DEF CreateVolume, LookupParent, MakeInitDir, DriverCreate, LinkParent, Import, Describe, Discard
<1>3. ASSUME LookupVolume(p) \/ LoadProperties(p) \/ LoadPrivileged(p) \/ Unlock(p) PROVE FALSE
  BY <1>3 DEF LookupVolume, LoadProperties, LoadPrivileged, Unlock, fs
<1>4. ASSUME StreamIn(p) PROVE FALSE
  <2>1. pc[p] \in {"lookupTarget", "mkdirAll", "loadFlag", "namespaceTarget", "extract"}
    BY <1>4 DEF StreamIn, LookupTarget, MakeTarget, LoadFlag, NamespaceTarget, NamespaceVolume, Extract
  <2> QED BY <2>1 DEF RequestServed, WellFormed
<1>5. CASE Initialize(p)
  BY <1>5 DEF Initialize, Request
<1>6. CASE Bury(p)
  BY <1>6 DEF Bury, Request
<1>7. CASE Storing(p)
  <2> DEFINE h == req[p].h
  <2>1. h \in Handles /\ live[h] # NoDir /\ live[h] \in Dir
    BY <1>7 DEF Storing, StoreProperties, EncodeProperties, StorePrivileged, EncodePrivileged, Overwrite, Encode,
       Request, LookupStable, Found
  <2>2. CASE StoreProperties(p) \/ StorePrivileged(p)
    <3>1. PICK file \in Files : live' = [live EXCEPT ![h] = Tear(live[h], file)]
      BY <2>2 DEF StoreProperties, StorePrivileged, Overwrite, Files
    <3>4. PICK d : d = Tear(live[h], file)
      OBVIOUS
    <3>2. /\ d \in Dir /\ d.data = live[h].data /\ d.props = live[h].props /\ d.priv = live[h].priv
          /\ live' = [live EXCEPT ![h] = d]
      BY <2>1, <3>1, <3>4 DEF Tear, Dir
    <3>3. ~EncodePrivileged(p)
      BY <2>2 DEF StoreProperties, StorePrivileged, Overwrite, EncodePrivileged, Encode
    <3> QED BY <1>7, <2>1, <3>2, <3>3
  <2>3. CASE EncodeProperties(p)
    <3>1. pc[p] = "encode" /\ got[p].props \in SUBSET Names /\ req[p].props \in SUBSET Names
      BY <2>3 DEF EncodeProperties, Encode, Request
    <3>2. PICK ps \in SUBSET Names : ps = got[p].props \union req[p].props
      BY <3>1
    <3>3. live' = [live EXCEPT ![h] = [live[h] EXCEPT !.props = ps, !.torn = @ \ {"props"}]]
      BY <2>1, <2>3, <3>2 DEF EncodeProperties, Encode
    <3>6. PICK d : d = [live[h] EXCEPT !.props = ps, !.torn = @ \ {"props"}]
      OBVIOUS
    <3>4. /\ d \in Dir /\ d.data = live[h].data /\ d.props = ps /\ d.priv = live[h].priv
          /\ live' = [live EXCEPT ![h] = d]
      BY <2>1, <3>3, <3>6 DEF Dir
    <3>5. ~EncodePrivileged(p)
      BY <3>1 DEF EncodePrivileged, Encode
    <3> QED BY <1>7, <2>1, <3>4, <3>5
  <2>4. CASE EncodePrivileged(p)
    <3>1. req[p].priv \in BOOLEAN
      BY <2>4 DEF EncodePrivileged, Encode, Request
    <3>2. live' = [live EXCEPT ![h] = [live[h] EXCEPT !.priv = req[p].priv, !.torn = @ \ {"priv"}]]
      BY <2>1, <2>4 DEF EncodePrivileged, Encode
    <3>4. PICK d : d = [live[h] EXCEPT !.priv = req[p].priv, !.torn = @ \ {"priv"}]
      OBVIOUS
    <3>3. /\ d \in Dir /\ d.data = live[h].data /\ d.props = live[h].props /\ d.priv = req[p].priv
          /\ live' = [live EXCEPT ![h] = d]
      BY <2>1, <3>1, <3>2, <3>4 DEF Dir
    <3> QED BY <1>7, <2>1, <2>4, <3>3
  <2> QED BY <1>7, <2>2, <2>3, <2>4 DEF Storing
<1>8. CASE NamespaceContents(p)
  BY <1>8 DEF NamespaceContents, NamespaceVolume, Request
<1> QED BY <1>1, <1>2, <1>3, <1>4, <1>5, <1>6, <1>7, <1>8 DEF Progress, LockedStep, Storing

\* A directory goes live with everything in it and loses nothing there.
LEMMA LiveCompleteStep ==
  ASSUME "StreamIn" \notin Ops
  PROVE  Inv /\ InitDescribed /\ InitFilled /\ LiveComplete /\ [Next]_vars => LiveComplete'
<1> SUFFICES ASSUME Inv, InitDescribed, InitFilled, LiveComplete, [Next]_vars PROVE LiveComplete'
  OBVIOUS
<1> USE DEF Inv, TypeOK, Handle
<1>1. CASE live' = live
  BY <1>1 DEF LiveComplete
<1>2. ASSUME NEW p \in Actors, Start(p) \/ Lock(p) \/ Progress(p), live' # live PROVE LiveComplete'
  <2> DEFINE h == req[p].h
  <2>1. h \in Handles /\ pc[p] # "idle" /\ req[p].priv \in BOOLEAN /\ req[p].props \in SUBSET Names
    BY <1>2, LiveStep DEF Initialize, Bury, NamespaceContents, NamespaceVolume, Storing, StoreProperties,
       EncodeProperties, StorePrivileged, EncodePrivileged, Overwrite, Encode, Request
  <2>2. ASSUME NEW d \in Dir, live' = [live EXCEPT ![h] = d],
               d.props # Missing /\ d.priv # Missing /\ d.data # Missing
        PROVE  LiveComplete'
    BY <2>1, <2>2 DEF LiveComplete
  <2>3. CASE Initialize(p) /\ live' = [live EXCEPT ![h] = init[h]]
    <3>1. pc[p] = "initialize"
      BY <2>3 DEF Initialize
    <3>2. init[h] \in Dir /\ init[h].props = req[p].props /\ init[h].priv = req[p].priv /\ init[h].data # Missing
      BY <2>1, <3>1 DEF InitDescribed, InitFilled, InitOwned, Initializing
    <3> QED BY <2>1, <2>2, <2>3, <3>2, NullValue
  <2>4. CASE live' = [live EXCEPT ![h] = NoDir]
    BY <2>1, <2>4 DEF LiveComplete
  <2>5. CASE /\ live[h] \in Dir
             /\ \E d \in Dir :
                   /\ live' = [live EXCEPT ![h] = d] /\ d.data = live[h].data
                   /\ d.props = live[h].props \/ d.props \in SUBSET Names
                   /\ d.priv = IF EncodePrivileged(p) THEN req[p].priv ELSE live[h].priv
    <3>1. live[h].props # Missing /\ live[h].priv # Missing /\ live[h].data # Missing
      BY <2>1, <2>5, NullDir DEF LiveComplete
    <3> QED BY <2>1, <2>2, <2>5, <3>1, NullValue
  <2>6. CASE live[h] \in Dir /\ \E o \in NamespacePath(live[h].data, req[p].priv) :
                live' = [live EXCEPT ![h].data = o]
    <3>1. PICK o \in NamespacePath(live[h].data, req[p].priv) : live' = [live EXCEPT ![h].data = o]
      BY <2>6
    <3>2. live[h].props # Missing /\ live[h].priv # Missing /\ live[h].data \in Owners
      BY <2>1, <2>6, NullDir DEF LiveComplete, Dir
    <3>3. o \in Owners
      BY <3>2, NamespaceKeeps
    <3> DEFINE d == [live[h] EXCEPT !.data = o]
    <3>4. d \in Dir /\ d.props = live[h].props /\ d.priv = live[h].priv /\ d.data = o
      BY <2>6, <3>3 DEF Dir
    <3> QED BY <2>2, <3>1, <3>2, <3>3, <3>4, NullValue
  <2> QED BY <1>2, LiveStep, <2>3, <2>4, <2>5, <2>6
<1> QED BY <1>1, <1>2 DEF Next, Crash, fs, vars

\* As long as nothing is streamed in, whatever is in live/ has both metadata
\* files and its data, whatever fails and whenever the process is killed.
THEOREM LiveCompleteHolds ==
  ASSUME "StreamIn" \notin Ops
  PROVE  Spec => []LiveComplete
<1>1. Init => InitDescribed /\ InitFilled /\ LiveComplete
  BY DEF Init, InitDescribed, InitFilled, LiveComplete
<1>2. Inv /\ InitDescribed /\ InitFilled /\ LiveComplete /\ [Next]_vars
        => (InitDescribed /\ InitFilled /\ LiveComplete)'
  BY InitDescribedStep, InitFilledStep, LiveCompleteStep
<1> QED BY <1>1, <1>2, Invariance, PTL DEF Spec

(***************************************************************************)
(* If nothing fails, dead/ is emptied and files have the right owner.      *)
(***************************************************************************)
\* A directory comes to dead/ with a request that tears it down, and that
\* request does not stop before it has removed it.
LEMMA DeadNotLeakedStep ==
  ASSUME ~Faults, ~Crashes
  PROVE  Inv /\ DeadNotLeaked /\ [Next]_vars => DeadNotLeaked'
<1> SUFFICES ASSUME Inv, DeadNotLeaked, [Next]_vars PROVE DeadNotLeaked'
  OBVIOUS
<1> USE DEF Inv, TypeOK, Move, Return, Finish, Handle
<1>1. ASSUME NEW p \in Actors, Start(p) \/ Lock(p) \/ Progress(p),
             \A h \in dead' : \/ h \in dead /\ ~(TearingDown(p) /\ req[p].h = h)
                              \/ TearingDown(p)' /\ req'[p].h = h
      PROVE  DeadNotLeaked'
  <2> SUFFICES ASSUME NEW h \in dead', ~(TearingDown(p)' /\ req'[p].h = h)
               PROVE  \E q \in Actors : TearingDown(q)' /\ req'[q].h = h
    BY DEF DeadNotLeaked
  <2>1. PICK q \in Actors : TearingDown(q) /\ req[q].h = h
    BY <1>1 DEF DeadNotLeaked
  <2>2. q # p
    BY <1>1, <2>1
  <2> QED BY <1>1, <2>1, <2>2, Others DEF TearingDown
<1>2. ASSUME NEW p \in Actors, DriverDestroy(p) PROVE DeadNotLeaked'
  <2>1. dead' = dead /\ TearingDown(p)' /\ req' = req
    BY <1>2 DEF DriverDestroy, TearingDown
  <2> QED BY <1>1, <1>2, <2>1 DEF Progress, DestroyDead
<1>3. ASSUME NEW p \in Actors, Cleanup(p) PROVE DeadNotLeaked'
  <2>1. dead' = dead \ {req[p].h}
    BY <1>3 DEF Cleanup
  <2> QED BY <1>1, <1>3, <2>1 DEF Progress, DestroyDead
<1>4. ASSUME NEW p \in Actors, Discard(p) PROVE DeadNotLeaked'
  <2>1. ~TearingDown(p)
    BY <1>4 DEF Discard, TearingDown
  <2>2. \/ dead' = dead
        \/ dead' = dead \union {req[p].h} /\ TearingDown(p)' /\ req' = req
    BY <1>4 DEF Discard, TearingDown
  <2> QED BY <1>1, <1>4, <2>1, <2>2 DEF Progress, CreateVolume
<1>5. ASSUME NEW p \in Actors, Bury(p) PROVE DeadNotLeaked'
  <2>1. ~TearingDown(p)
    BY <1>5 DEF Bury, TearingDown
  <2>2. \/ dead' = dead
        \/ dead' = dead \union {req[p].h} /\ TearingDown(p)' /\ req' = req
    BY <1>5 DEF Bury, TearingDown
  <2> QED BY <1>1, <1>5, <2>1, <2>2 DEF Progress, LockedStep
<1>6. ASSUME NEW p \in Actors, Start(p) \/ Lock(p) \/ Progress(p), dead' = dead, ~TearingDown(p)
      PROVE  DeadNotLeaked'
  BY <1>1, <1>6
<1>7. ASSUME NEW p \in Actors, Start(p) \/ Lock(p) PROVE DeadNotLeaked'
  BY <1>6, <1>7 DEF Start, Lock, TearingDown
<1>8. ASSUME NEW p \in Actors, CreateVolume(p), ~Discard(p) PROVE DeadNotLeaked'
  <2>1. dead' = dead /\ ~TearingDown(p)
    BY <1>8 DEF CreateVolume, LookupParent, MakeInitDir, DriverCreate, LinkParent, Import, Describe, Initialize,
       TearingDown
  <2> QED BY <1>6, <1>8, <2>1 DEF Progress
<1>9. ASSUME NEW p \in Actors, LockedStep(p), ~Bury(p) PROVE DeadNotLeaked'
  <2>1. dead' = dead /\ ~TearingDown(p)
    BY <1>9 DEF LockedStep, LookupVolume, LoadProperties, StoreProperties, NamespaceContents, NamespaceVolume,
       EncodeProperties, StorePrivileged, EncodePrivileged, Overwrite, Encode,
     LoadPrivileged, Unlock, fs, TearingDown
  <2> QED BY <1>6, <1>9, <2>1 DEF Progress
<1>10. ASSUME NEW p \in Actors, StreamIn(p) PROVE DeadNotLeaked'
  <2>1. dead' = dead /\ ~TearingDown(p)
    BY <1>10 DEF StreamIn, LookupTarget, MakeTarget, LoadFlag, NamespaceTarget, NamespaceVolume, Extract, TearingDown
  <2> QED BY <1>6, <1>10, <2>1 DEF Progress
<1>11. CASE UNCHANGED vars
  BY <1>11 DEF vars, DeadNotLeaked, TearingDown
<1> QED BY <1>2, <1>3, <1>4, <1>5, <1>7, <1>8, <1>9, <1>10, <1>11 DEF Next, Crash, Progress, DestroyDead
\* If nothing fails or crashes, every directory in dead/ is being torn down: no
\* DestroyVolume is blocked by what an earlier one has left.
THEOREM DeadNotLeakedHolds ==
  ASSUME ~Faults, ~Crashes
  PROVE  Spec => []DeadNotLeaked
<1>1. Init => DeadNotLeaked
  BY DEF Init, DeadNotLeaked
<1> QED BY <1>1, DeadNotLeakedStep, Invariance, PTL DEF Spec

\* Where the owner of the files is right: in a directory that is about to go
\* live; in live/, unless SetPrivileged has changed the files and not the flag;
\* and then the owner is the one that SetPrivileged is about to store.
Flagging(p) == pc[p] \in {"storePrivileged", "encodePrivileged"}

OwnerInit == \A p \in Actors : pc[p] = "initialize" =>
    init[Handle(p)].data = Owner(init[Handle(p)].priv)
OwnerLive == \A h \in Handles : live[h] # NoDir =>
    \/ \E p \in Actors : Flagging(p) /\ Handle(p) = h
    \/ live[h].data = Owner(live[h].priv)
OwnerChanging == \A p \in Actors : Flagging(p) =>
    live[Handle(p)].data = Owner(req[p].priv)

\* NamespacePath without errors.
LEMMA NamespaceAll ==
  ASSUME ~Faults, NEW data, data # Missing, NEW b
  PROVE  NamespacePath(data, b) = {Owner(b)}
BY DEF NamespacePath

LEMMA OwnerInitStep ==
  ASSUME ~Faults
  PROVE  Inv /\ InitFilled /\ OwnerInit /\ [Next]_vars => OwnerInit'
<1> SUFFICES ASSUME Inv, InitFilled, OwnerInit, [Next]_vars PROVE OwnerInit'
  OBVIOUS
<1> USE DEF Inv, TypeOK, Move, Return, Finish, Handle
<1>1. ASSUME NEW p \in Actors, Start(p) \/ Lock(p) \/ Progress(p), NEW q \in Actors \ {p}, pc'[q] = "initialize"
      PROVE  init'[req'[q].h].data = Owner(init'[req'[q].h].priv)
  <2>1. pc[q] = "initialize" /\ Initializing(q)
    BY <1>1, Others DEF Initializing
  <2> QED BY <1>1, <2>1, InitFrame DEF OwnerInit
<1>2. ASSUME NEW p \in Actors, Start(p) \/ Lock(p) \/ Progress(p), ~Describe(p) PROVE pc'[p] # "initialize"
  <2>1. CASE Start(p) \/ Lock(p) \/ DestroyDead(p)
    BY <2>1 DEF Start, FirstStep, Lock, DestroyDead, DriverDestroy, Cleanup
  <2>2. CASE CreateVolume(p)
    BY <1>2, <2>2 DEF CreateVolume, LookupParent, MakeInitDir, DriverCreate, AfterDriver, LinkParent, Import,
       Initialize, Discard
  <2>3. CASE LockedStep(p)
    BY <2>3 DEF LockedStep, LookupVolume, AfterLookup, Bury, LoadProperties, StoreProperties,
       NamespaceContents, NamespaceVolume, EncodeProperties, StorePrivileged, EncodePrivileged, Overwrite, Encode,
     LoadPrivileged, Unlock
  <2>4. CASE StreamIn(p)
    BY <2>4 DEF StreamIn, LookupTarget, MakeTarget, LoadFlag, NamespaceTarget, NamespaceVolume, Extract
  <2> QED BY <1>2, <2>1, <2>2, <2>3, <2>4 DEF Progress
<1>3. ASSUME NEW p \in Actors, Describe(p) PROVE OwnerInit'
  <2>1. /\ req[p].h \in Handles /\ init[req[p].h] \in Dir /\ req' = req /\ Progress(p)
        /\ init[req[p].h].data # Missing
    BY <1>3 DEF Describe, InitOwned, Initializing, Request, InitFilled, Progress, CreateVolume
  <2>2. init' = [init EXCEPT ![req[p].h] =
                    [[[init[req[p].h] EXCEPT !.props = req[p].props] EXCEPT !.priv = req[p].priv]
                         EXCEPT !.data = Owner(req[p].priv)]]
    <3>1. NamespacePath(init[req[p].h].data, req[p].priv) = {Owner(req[p].priv)}
      BY <2>1, NamespaceAll
    <3>2. PICK d \in NamespacePath(init[req[p].h].data, req[p].priv) :
             init' = [init EXCEPT ![req[p].h] =
                         [[[init[req[p].h] EXCEPT !.props = req[p].props] EXCEPT !.priv = req[p].priv]
                              EXCEPT !.data = d]]
      BY <1>3 DEF Describe
    <3>3. d = Owner(req[p].priv)
      BY <3>1, <3>2
    <3> QED BY <3>2, <3>3
  <2>3. init'[req[p].h].data = Owner(req[p].priv) /\ init'[req[p].h].priv = req[p].priv
    BY <2>1, <2>2 DEF Dir
  <2> QED BY <1>1, <2>1, <2>3 DEF OwnerInit
<1>4. CASE UNCHANGED vars
  BY <1>4 DEF vars, OwnerInit
<1>5. CASE Crash
  BY <1>5 DEF Crash, OwnerInit
<1> QED BY <1>1, <1>2, <1>3, <1>4, <1>5 DEF Next, OwnerInit

\* The lock keeps others from the volume while SetPrivileged is between its two
\* steps.
LEMMA OwnerLiveStep ==
  ASSUME ~Faults, ~Crashes, "StreamIn" \notin Ops
  PROVE  Inv /\ LiveComplete /\ OwnerInit /\ OwnerLive /\ OwnerChanging /\ [Next]_vars
           => OwnerLive' /\ OwnerChanging'
<1> SUFFICES ASSUME Inv, LiveComplete, OwnerInit, OwnerLive, OwnerChanging, [Next]_vars
             PROVE  OwnerLive' /\ OwnerChanging'
  OBVIOUS
<1> USE DEF Inv, TypeOK, Move, Return, Finish, Handle
<1>1. ASSUME NEW p \in Actors, Flagging(p)
      PROVE  /\ req[p].h \in Handles /\ live[req[p].h] \in Dir /\ live[req[p].h] # NoDir
             /\ locked[req[p].h] = p
  BY <1>1 DEF LookupStable, LockOwned, Found, Flagging, Request
<1>2. ASSUME NEW p \in Actors, Start(p) \/ Lock(p) \/ Progress(p), live' = live,
             ~Flagging(p), ~Flagging(p)'
      PROVE  OwnerLive' /\ OwnerChanging'
  <2>1. \A q \in Actors : /\ Flagging(q) <=> Flagging(q)'
                          /\ Flagging(q) => req'[q] = req[q]
    BY <1>2, Others DEF Flagging
  <2> QED BY <1>2, <2>1 DEF OwnerLive, OwnerChanging
<1>3. ASSUME NEW p \in Actors, Start(p) \/ Lock(p) \/ Progress(p), req[p].h \in Handles,
             ~Flagging(p), ~Flagging(p)',
             NEW d, live' = [live EXCEPT ![req[p].h] = d], d = NoDir \/ d.data = Owner(d.priv),
             \A q \in Actors \ {p} : Flagging(q) => req[q].h # req[p].h
      PROVE  OwnerLive' /\ OwnerChanging'
  <2>1. \A q \in Actors : /\ Flagging(q) <=> Flagging(q)'
                          /\ Flagging(q) => req'[q] = req[q]
    BY <1>3, Others DEF Flagging
  <2>2. \A q \in Actors : Flagging(q) => live'[req[q].h] = live[req[q].h]
    BY <1>1, <1>3
  <2>3. OwnerChanging'
    BY <2>1, <2>2 DEF OwnerChanging
  <2>4. \A h \in Handles : live'[h] = IF h = req[p].h THEN d ELSE live[h]
    BY <1>3
  <2>5. OwnerLive'
    BY <1>3, <2>1, <2>4 DEF OwnerLive
  <2> QED BY <2>3, <2>5
<1>4. ASSUME NEW p \in Actors, Start(p) \/ Lock(p) \/ Progress(p), ~NamespaceContents(p), ~StorePrivileged(p)
      PROVE  ~Flagging(p)'
  <2>1. CASE Start(p) \/ Lock(p) \/ DestroyDead(p)
    BY <2>1 DEF Start, FirstStep, Lock, DestroyDead, DriverDestroy, Cleanup, Flagging
  <2>2. CASE CreateVolume(p)
    BY <2>2 DEF CreateVolume, LookupParent, MakeInitDir, DriverCreate, AfterDriver, LinkParent, Import, Describe,
       Initialize, Discard, Flagging
  <2>3. CASE LockedStep(p)
    BY <1>4, <2>3 DEF LockedStep, LookupVolume, AfterLookup, Bury, LoadProperties, StoreProperties, Flagging,
       EncodeProperties, StorePrivileged, EncodePrivileged, Overwrite, Encode,
     LoadPrivileged, Unlock
  <2>4. CASE StreamIn(p)
    BY <2>4 DEF StreamIn, LookupTarget, MakeTarget, LoadFlag, NamespaceTarget, NamespaceVolume, Extract, Flagging
  <2> QED BY <1>4, <2>1, <2>2, <2>3, <2>4 DEF Progress
<1>5. ASSUME NEW p \in Actors, Found(p), NEW q \in Actors \ {p}, Flagging(q)
      PROVE  req[q].h # req[p].h
  BY <1>1, <1>5 DEF LockOwned
<1>6. ASSUME NEW p \in Actors, NamespaceContents(p) PROVE OwnerLive' /\ OwnerChanging'
  <2> DEFINE h == req[p].h
  <2>1. /\ h \in Handles /\ live[h] \in Dir /\ live[h] # NoDir /\ Found(p) /\ req' = req /\ Progress(p)
        /\ pc' = [pc EXCEPT ![p] = "storePrivileged"] /\ Flagging(p)'
        /\ \A q \in Actors \ {p} : Flagging(q)' <=> Flagging(q)
    BY <1>6 DEF NamespaceContents, NamespaceVolume, LookupStable, Found, Flagging, Request, Progress, LockedStep
  <2>2. live' = [live EXCEPT ![h].data = Owner(req[p].priv)]
    <3>1. live[h].data # Missing
      BY <2>1 DEF LiveComplete
    <3>2. NamespacePath(live[h].data, req[p].priv) = {Owner(req[p].priv)}
      BY <3>1, NamespaceAll
    <3>3. PICK d \in NamespacePath(live[h].data, req[p].priv) : live' = [live EXCEPT ![h].data = d]
      BY <1>6, <2>1 DEF NamespaceContents, NamespaceVolume
    <3>4. d = Owner(req[p].priv)
      BY <3>2, <3>3
    <3> QED BY <3>3, <3>4
  <2>3. live'[h].data = Owner(req[p].priv) /\ \A g \in Handles \ {h} : live'[g] = live[g]
    BY <2>1, <2>2 DEF Dir
  <2>4. \A q \in Actors \ {p} : Flagging(q) => req[q].h # h /\ req[q].h \in Handles
    BY <1>1, <1>5, <2>1
  <2>5. OwnerChanging'
    BY <2>1, <2>3, <2>4 DEF OwnerChanging
  <2>6. OwnerLive'
    BY <2>1, <2>3 DEF OwnerLive
  <2> QED BY <2>5, <2>6
<1>7. ASSUME NEW p \in Actors, StorePrivileged(p) \/ EncodePrivileged(p) PROVE OwnerLive' /\ OwnerChanging'
  <2> DEFINE h == req[p].h
  <2>1. /\ h \in Handles /\ live[h] \in Dir /\ live[h] # NoDir /\ Found(p) /\ req' = req /\ Progress(p)
        /\ live[h].data = Owner(req[p].priv)
    BY <1>1, <1>7 DEF StorePrivileged, EncodePrivileged, Overwrite, Encode, Found, Flagging, OwnerChanging,
       Progress, LockedStep
  <2>4. \A q \in Actors \ {p} : Flagging(q) => req[q].h # h /\ req[q].h \in Handles
    BY <1>1, <1>5, <2>1
  <2>7. \A q \in Actors \ {p} : Flagging(q)' <=> Flagging(q)
    BY <1>7, Others DEF Flagging, Progress, LockedStep
  <2>8. CASE StorePrivileged(p)
    <3>1. Flagging(p)' /\ live' = [live EXCEPT ![h] = Tear(live[h], "priv")]
      BY <2>1, <2>8 DEF StorePrivileged, Overwrite, Flagging
    <3>2. PICK d : d = Tear(live[h], "priv")
      OBVIOUS
    <3>3. d.data = Owner(req[p].priv)
      BY <2>1, <3>2 DEF Tear, Dir
    <3>4. live'[h].data = Owner(req[p].priv) /\ \A g \in Handles \ {h} : live'[g] = live[g]
      BY <2>1, <3>1, <3>2, <3>3
    <3>5. OwnerChanging'
      BY <2>1, <2>4, <2>7, <3>4 DEF OwnerChanging
    <3>6. OwnerLive'
      BY <2>1, <2>7, <3>1, <3>4 DEF OwnerLive
    <3> QED BY <3>5, <3>6
  <2>9. CASE EncodePrivileged(p)
    <3>1. /\ ~Flagging(p)'
          /\ live' = [live EXCEPT ![h] = [live[h] EXCEPT !.priv = req[p].priv, !.torn = @ \ {"priv"}]]
      BY <2>1, <2>9 DEF EncodePrivileged, Encode, Flagging
    <3>2. PICK d : d = [live[h] EXCEPT !.priv = req[p].priv, !.torn = @ \ {"priv"}]
      OBVIOUS
    <3>3. d.data = Owner(req[p].priv) /\ d.priv = req[p].priv
      BY <2>1, <3>2 DEF Dir
    <3>4. live'[h] = d /\ \A g \in Handles \ {h} : live'[g] = live[g]
      BY <2>1, <3>1, <3>2
    <3>5. OwnerChanging'
      BY <2>1, <2>4, <2>7, <3>1, <3>4 DEF OwnerChanging
    <3>6. OwnerLive'
      BY <2>1, <2>7, <3>3, <3>4 DEF OwnerLive
    <3> QED BY <3>5, <3>6
  <2> QED BY <1>7, <2>8, <2>9
<1>8. ASSUME NEW p \in Actors, Initialize(p), live' # live PROVE OwnerLive' /\ OwnerChanging'
  <2>1. /\ req[p].h \in Handles /\ live[req[p].h] = NoDir /\ live' = [live EXCEPT ![req[p].h] = init[req[p].h]]
        /\ pc[p] = "initialize" /\ pc'[p] = "idle" /\ Progress(p)
    BY <1>8 DEF Initialize, Request, Progress, CreateVolume
  <2>2. \A q \in Actors : Flagging(q) => req[q].h # req[p].h
    BY <1>1, <2>1
  <2> QED BY <1>3, <2>1, <2>2 DEF OwnerInit, Flagging
<1>9. ASSUME NEW p \in Actors, Bury(p), live' # live PROVE OwnerLive' /\ OwnerChanging'
  <2>1. /\ req[p].h \in Handles /\ live' = [live EXCEPT ![req[p].h] = NoDir] /\ Found(p)
        /\ pc[p] = "rename" /\ pc'[p] = "driverDestroy" /\ Progress(p)
    BY <1>9 DEF Bury, Request, Found, Progress, LockedStep
  <2> QED BY <1>3, <1>5, <2>1 DEF Flagging
<1>10. ASSUME NEW p \in Actors, StoreProperties(p) \/ EncodeProperties(p), live' # live
       PROVE  OwnerLive' /\ OwnerChanging'
  <2>1. /\ req[p].h \in Handles /\ Found(p) /\ ~Flagging(p) /\ ~Flagging(p)' /\ Progress(p)
        /\ ~EncodePrivileged(p) /\ ~Initialize(p) /\ ~Bury(p) /\ ~NamespaceContents(p)
    BY <1>10 DEF StoreProperties, EncodeProperties, Overwrite, Encode, Request, Found, Flagging, Progress, LockedStep,
       EncodePrivileged, Initialize, Bury, NamespaceContents, NamespaceVolume
  <2>2. PICK d \in Dir : /\ live[req[p].h] \in Dir /\ live' = [live EXCEPT ![req[p].h] = d]
                         /\ d.data = live[req[p].h].data /\ d.priv = live[req[p].h].priv
    BY <1>10, <2>1, LiveStep
  <2>3. \A q \in Actors : Flagging(q) => req[q].h # req[p].h
    BY <1>5, <2>1
  <2>4. d.data = Owner(d.priv)
    BY <2>1, <2>2, <2>3, NullDir DEF OwnerLive
  <2> QED BY <1>3, <2>1, <2>2, <2>3, <2>4
<1>11. ASSUME NEW p \in Actors, Start(p) \/ Lock(p) \/ Progress(p) PROVE OwnerLive' /\ OwnerChanging'
  <2>1. CASE live' # live
    BY <1>6, <1>7, <1>8, <1>9, <1>10, <1>11, <2>1, LiveStep DEF Storing
  <2>2. CASE live' = live /\ ~NamespaceContents(p) /\ ~Flagging(p)
    <3>1. ~StorePrivileged(p)
      BY <2>2 DEF StorePrivileged, Overwrite, Flagging
    <3> QED BY <1>2, <1>4, <1>11, <2>2, <3>1
  <2>3. CASE Flagging(p)
    <3>1. StorePrivileged(p) \/ EncodePrivileged(p)
      <4>1. CASE Start(p) \/ Lock(p) \/ DestroyDead(p) \/ StreamIn(p)
        BY <2>3, <4>1 DEF Start, Lock, DestroyDead, DriverDestroy, Cleanup, StreamIn, LookupTarget, MakeTarget,
           LoadFlag, NamespaceTarget, NamespaceVolume, Extract, Flagging
      <4>2. CASE CreateVolume(p)
        BY <2>3, <4>2 DEF CreateVolume, LookupParent, MakeInitDir, DriverCreate, LinkParent, Import, Describe,
           Initialize, Discard, Flagging
      <4>3. CASE LockedStep(p)
        BY <2>3, <4>3 DEF LockedStep, LookupVolume, Bury, LoadProperties, StoreProperties, EncodeProperties,
           Overwrite, Encode, NamespaceContents, NamespaceVolume, LoadPrivileged, Unlock, Flagging
      <4> QED BY <1>11, <4>1, <4>2, <4>3 DEF Progress
    <3> QED BY <1>7, <3>1
  <2> QED BY <1>6, <2>1, <2>2, <2>3
<1>12. CASE UNCHANGED vars
  BY <1>12 DEF vars, OwnerLive, OwnerChanging, Flagging
<1> QED BY <1>11, <1>12 DEF Next, Crash

\* If nothing fails or crashes and nothing is streamed in, the files of every
\* volume belong to the owner its flag calls for, except between the two steps of
\* SetPrivileged.
THEOREM OwnerMatchesFlagHolds ==
  ASSUME ~Faults, ~Crashes, "StreamIn" \notin Ops
  PROVE  Spec => []OwnerMatchesFlag
<1>1. Init => InitFilled /\ OwnerInit /\ OwnerLive /\ OwnerChanging
  BY DEF Init, InitFilled, OwnerInit, OwnerLive, OwnerChanging, Flagging
<1>2. /\ Inv /\ LiveComplete /\ InitFilled /\ OwnerInit /\ OwnerLive /\ OwnerChanging /\ [Next]_vars
      => (InitFilled /\ OwnerInit /\ OwnerLive /\ OwnerChanging)'
  BY InitFilledStep, OwnerInitStep, OwnerLiveStep
<1>3. OwnerLive => OwnerMatchesFlag
  BY DEF OwnerLive, OwnerMatchesFlag, Flagging
<1> QED BY <1>1, <1>2, <1>3, Invariance, LiveCompleteHolds, PTL DEF Spec
=============================================================================
