CONSTANTS
  N = 3
  Failures = TRUE
SPECIFICATION FairSpec
INVARIANTS
  MetUnlessThrown
  ResultsInOrder
  ResultsComplete
  SetOnce
  NotAbandoned
PROPERTIES
  Settles
CHECK_DEADLOCK FALSE
