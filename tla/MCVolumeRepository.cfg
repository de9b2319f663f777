CONSTANTS
  Actors = {a1, a2}
  Handles = {h1}
  Names = {n1}
  Ops = {"CreateEmpty", "DestroyVolume", "SetProperty", "GetPrivileged"}
  Faults = TRUE
  Crashes = TRUE
  NoActor = NoActor
  NoDir = NoDir
  NoHandle = NoHandle
  NoReq = NoReq
  Missing = Missing
SPECIFICATION FairSpec
INVARIANTS TypeOK LiveComplete
PROPERTIES RequestsReturn ImplementsVolumeStore
