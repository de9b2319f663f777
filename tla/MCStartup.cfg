CONSTANTS
  MinSize = 2
  MaxDevices = 2
  Faults = TRUE
  Half = 8
  Tree <- MCTree
  Machines <- MCMachines
  Maps <- MCMaps
  Reserve = 4
  Sizes = {1, 5, 12}
  Volumes = {v1}
  Ids = {0, 1, 3, 4}
SPECIFICATION Spec
INVARIANTS ServesVolumes OneDevice DriverFits OwnersRight LeafFirst
