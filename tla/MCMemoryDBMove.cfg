SPECIFICATION Spec
CONSTANTS
  Groups = {g1, g2, g3}
  Users = {u1, u2}
  Root = root
  Profiles = {1}
  UserTimeout = 2
  MaxVersion = 6
  UnusedRequests = FALSE
PROPERTIES
  MoveInPlaceDoesNothing
