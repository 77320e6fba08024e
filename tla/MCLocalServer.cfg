SPECIFICATION ServerSpec
CONSTANTS
  Groups = {g1}
  NoGroup = nil
  Users = {u1}
  Profiles = {p1}
  Passwords = {empty}
  NoPassword = empty
  UserTimeout = 2
  MaxVersion = 11
  HttpThreads = {h1}
  UdpThread = udp
  TickerThread = ticker
  PipeSize = 1
  CheckPeriod = 1
  AcceptVersion = 3
CHECK_DEADLOCK FALSE
INVARIANTS
  AnswersMatch
  ListAsNewAsTold
PROPERTIES
  ImplementsUserList
  OnlySilentUsersSwept
  RequestsAnswered
  SilentUserRemoved
