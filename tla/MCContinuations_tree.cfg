CONSTANTS
  N = 4
  Inputs <- Tree
  Void = FALSE
SPECIFICATION FairSpec
INVARIANTS
  NoErrorLost
  HandlerCalled
  ErrorsHaveOrigins
PROPERTIES
  EverythingSettles
CHECK_DEADLOCK FALSE
