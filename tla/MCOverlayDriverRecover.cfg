CONSTANTS
  Handles = {h1, h2, h3}
  Values = {v1, v2}
  Reuse = FALSE
  Faults = FALSE
  Reboots = TRUE
  NoHandle = NoHandle
  NoDir = NoDir
  NoMount = NoMount
  NoLayer = NoLayer
  Empty = Empty
  Gone = Gone
SYMMETRY Symmetry
SPECIFICATION Spec
PROPERTY RecoverRestores
