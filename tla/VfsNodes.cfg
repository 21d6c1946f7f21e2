CONSTANTS
  MAX_DRIVERS = 2
  MAX_DEVICES = 2
  Types <- MCTypes
  vga = vga
  com2 = com2
  Drivers <- MCDrivers
  Info <- MCInfo
  Ids <- MCIds
  NULL = NULL
  MAX_DRIFT = 0
  VFS_NODE_MAX = 1
  NodeIds = {"STDOUT", "SERIAL"}
  ConsoleIds = {"STDOUT"}
  Lengths <- MCLengths
  INT_MAX = 3
SPECIFICATION VfsSpec
INVARIANTS VfsTypeOK RefusedOnlyWhenFull ReachesItsDriver WriteReportsDelivery
PROPERTIES LookupsStable ProbeFindsAll
