SPECIFICATION Spec
CONSTANTS
  Users = {u1}
  Addresses = {a, b, c}
  Nowhere = nowhere
  PURGE_PEER_TIMEOUT_SECONDS = 5
  PEER_ESTABLISHMENT_RETRY_TIME_SECONDS = 3
  IDLE_PING_PERIOD_SECONDS = 2
  ACTIVE_PING_PERIOD_SECONDS = 3
  ESTABLISHMENT_PING_PERIOD_COUNT = 2
  MaxSeconds = 1
  MaxTime = 10
  MaxEvents = 4
SYMMETRY Symmetry
CHECK_DEADLOCK FALSE
INVARIANTS
  ForwardsWherePinged
  LinkKeptOpen
  SilentPeersGone
PROPERTIES
  PurgedOnlyWhenSilent
