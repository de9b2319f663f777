CONSTANTS
  Actors = {a1, a2}
  Handles = {h1, h2}
  Names = {}
  Ops = {"CreateEmpty", "CreateCOW", "DestroyVolume", "SetPrivileged"}
  Faults = FALSE
  Crashes = FALSE
  NoActor = NoActor
  NoDir = NoDir
  NoHandle = NoHandle
  NoReq = NoReq
  Missing = Missing
SYMMETRY Symmetry
SPECIFICATION Spec
INVARIANTS OwnerMatchesFlag DeadNotLeaked
