CONSTANTS
  N = 3
  Inputs <- Chain
  Void = TRUE
SPECIFICATION Spec
INVARIANTS
  HandlerCalled
CHECK_DEADLOCK FALSE
