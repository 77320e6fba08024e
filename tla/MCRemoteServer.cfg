SPECIFICATION ServerSpec
CONSTANTS
  Groups = {g1}
  Users = {u1}
  Root = root
  Profiles = {1}
  UserTimeout = 1
  MaxVersion = 12
  UnusedRequests = FALSE
  HttpThreads = {h1, h2}
  UdpThread = udp
  PipeSize = 1
  AcceptVersion = 2
CHECK_DEADLOCK FALSE
INVARIANTS
  AnswersMatch
  ListAsNewAsTold
PROPERTIES
  ImplementsMemoryDB
  RequestsAnswered
