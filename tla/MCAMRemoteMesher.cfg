SPECIFICATION Spec
CONSTANTS
  u1 = u1
  u2 = u2
  g1 = g1
  g2 = g2
  Users = {u1, u2}
  Groups = {g1, g2}
  Clients = {u1}
  OwnGroup <- MCOwnGroup
  LeaderGroup = g1
  Root = root
  Profiles = {1}
  UserTimeout = 1
  MaxVersion = 30
  AcceptVersion = 5
  EditVersion = 4
  PeerVersion = 4
  MaxTrouble = 1
  MaxQueue = 1
CHECK_DEADLOCK FALSE
INVARIANTS
  MeshedIsRegistered
  UnmeshedIsGone
  CannotMesh
  KnownListIsShown
PROPERTIES
  StaysOffline
