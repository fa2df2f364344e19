CONSTANTS
  a = a
  b = b
  c = c
  first = first
  second = second
  Loads = {a, b, c}
  Dispatchers = {first, second}
  DispatcherOf <- Sharing
  Size <- Sizes
  BlockSize <- Blocks
  nblock = nblock
  Nobody = Nobody
SPECIFICATION FairSpec
INVARIANTS
  FileInv
  WholeFile
  LeaksOnlyIfCut
PROPERTIES
  LoadEnds
CHECK_DEADLOCK FALSE
