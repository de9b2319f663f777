CONSTANTS
  Clients = {c1, c2}
  Workers = {w1, w2}
  Handles = {h1}
  Ids = {i1, i2, i3}
  Unreliable = FALSE
  OtherUsers = TRUE
  NoId = NoId
  NoWorker = NoWorker
  NoHandle = NoHandle
  Foreign = Foreign
SPECIFICATION FairSpec
INVARIANTS WaitFindsFuture OneCreation
PROPERTY FutureForgotten
