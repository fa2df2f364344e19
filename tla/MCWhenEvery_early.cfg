CONSTANTS
  N = 2
  Failures = TRUE
SPECIFICATION Spec
INVARIANTS
  EveryFutureMet
CHECK_DEADLOCK FALSE
