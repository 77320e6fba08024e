SPECIFICATION Spec
CONSTANTS
  Callers = {main, request}
  RemoteMesher = FALSE
CHECK_DEADLOCK FALSE
INVARIANTS
  SignalMeansEnded
  OneBeatAfterCancel
  AsksEveryFiveFailures
PROPERTIES
  CancelReturns
