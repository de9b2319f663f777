CONSTANTS
  Actors = {a1, a2}
  Handles = {h1}
  Names = {n1}
  Ops = {"CreateImport", "CreateCOW", "DestroyVolume", "SetProperty", "SetPrivileged", "StreamIn"}
  Faults = TRUE
  Crashes = FALSE
  NoActor = NoActor
  NoDir = NoDir
  NoHandle = NoHandle
  NoReq = NoReq
  Missing = Missing
SYMMETRY Symmetry
SPECIFICATION Spec
INVARIANTS InitOwned DeadOwned LookupStable
