SPECIFICATION Spec
CONSTANTS
  Callers = {main}
  RemoteMesher = TRUE
CHECK_DEADLOCK FALSE
INVARIANTS
  AsksEveryFiveFailures
