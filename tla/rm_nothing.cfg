SPECIFICATION RmNothingSpec
CONSTANTS
  CLUSTER_MAP_SIZE = 6
  FAT_BLOCK_CELLS = 4
  SLOT_COUNT = 4
  CLUSTER_SIZE = 2
  COUNT_RANGE = 256
  a = a
  b = b
  root = root
  zero = zero
  d1 = d1
  d2 = d2
  none = none
  Name <- MCName
  RootName = root
  ZeroName = zero
  Data <- OneDatum
  NoData = none
  Sizes = {0, 3}
  MaxCrashes = 1
PROPERTIES
  DeleteRemovesAnEntry

