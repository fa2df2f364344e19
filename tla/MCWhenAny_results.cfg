CONSTANTS
  N = 3
  Failures = TRUE
  Throws = TRUE
SPECIFICATION FairSpec
INVARIANTS
  AInv
  AtMostOneCall
  ErrorIsLast
  NotAbandoned
PROPERTIES
  SettlesOrSticks
CHECK_DEADLOCK FALSE
