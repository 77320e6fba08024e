SPECIFICATION Spec
CONSTANTS
  Services = {s1}
  Self = self
  NoHost = nohost
  MaxEvents = 3
  AddressCount = 2
  Queues = {q1, q2}
  NoQueue = noqueue
INVARIANTS
  PublishedServerRuns
  
PROPERTIES
  SearchEnds
  JoinsOrTells
CHECK_DEADLOCK FALSE
