CONSTANTS
  Clients = {c1, c2}
  Workers = {w1, w2}
  Handles = {h1}
  Ids = {i1, i2, i3}
  Unreliable = TRUE
  OtherUsers = FALSE
  NoId = NoId
  NoWorker = NoWorker
  NoHandle = NoHandle
  Foreign = Foreign
SYMMETRY Symmetry
SPECIFICATION Spec
INVARIANTS CanceledDestroyed
PROPERTY FulfilledStays
