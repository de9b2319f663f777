CONSTANTS
  Handles = {h1}
  Ids = {1, 2}
  Files = {f1, f2}
  Values = {a}
  Encodings = {"zstd"}
  Ops = {"ListVolumes", "LookupVolume", "Properties", "DestroyVolume", "DestroyVolumes", "destroy", "getPrivileged", "setPrivileged", "setProperty", "streamIn", "streamOut", "getStreamInP2pUrl", "streamP2pOut"}
  Slots = {s1, s2}
  Interfaces <- MCInterfaces
  Family = 4
  PeerHost = "p2p"
  Faults = TRUE
  Unreliable = TRUE
  MaxEvents = 2
  NoId = NoId
  NoSlot = NoSlot
  NoHandle = NoHandle
SYMMETRY Symmetry
SPECIFICATION Spec
INVARIANTS SuccessHappened AnswerTrue FailureJustified StreamsWhole
