SPECIFICATION FairSpec
CONSTANTS
  Groups = {g1, g2}
  Users = {u1, u2}
  Root = root
  Profiles = {1, 2}
  UserTimeout = 1
  MaxVersion = 6
  UnusedRequests = TRUE
CHECK_DEADLOCK FALSE
PROPERTIES
  HeartbeatAnswered
