SPECIFICATION Spec
CONSTANTS
  Groups = {g1, g2}
  NoGroup = nil
  Users = {u1, u2}
  Profiles = {p1, p2}
  Passwords = {empty, secret}
  NoPassword = empty
  UserTimeout = 2
  MaxVersion = 6
SYMMETRY Symmetry
CHECK_DEADLOCK FALSE
INVARIANTS
  PanicsOnlyWithoutGroup
PROPERTIES
  GroupStays
  ImplementsVersionedList
