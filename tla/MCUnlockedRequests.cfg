CONSTANTS
  Handles = {h1, h2, h3}
  Vols = {1, 2, 3, 4}
  Names = {n1}
  short = short
  long = long
  Texts = {short, long}
  Size <- MCSize
  Faults = TRUE
  MaxChanges = 2
  MaxListed = 1
  ReadHandles = {h1, h2}
  NoVol = NoVol
  NoHandle = NoHandle
SYMMETRY Symmetry
SPECIFICATION Spec
INVARIANTS StoredReadable Accurate BulkGone RecursionEnds
