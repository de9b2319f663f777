CONSTANTS
  Handles = {h1, h2, h3, h4}
  Values = {v1, v2}
  Reuse = FALSE
  Faults = TRUE
  Reboots = TRUE
  NoHandle = NoHandle
  NoDir = NoDir
  NoMount = NoMount
  NoLayer = NoLayer
  Empty = Empty
  Gone = Gone
SYMMETRY Symmetry
SPECIFICATION Spec
INVARIANTS MountsRight
PROPERTIES StartsAsParent DataKept
