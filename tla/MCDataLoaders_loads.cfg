CONSTANTS
  a = a
  b = b
  Loads = {a, b}
  Via <- Through
  MaxMessages = 2
  MaxHeaders = 1
  MaxPieces = 2
SPECIFICATION FairSpec
INVARIANTS
  LoadersInv
  WholeResponse
  NothingDangling
PROPERTIES
  InterruptionHeeded
  LoadAnswered
CHECK_DEADLOCK FALSE
