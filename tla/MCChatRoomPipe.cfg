CONSTANTS
  c1 = c1  c2 = c2  c3 = c3
  Clients <- ThreeClients
  Evenings <- OneEach
  clientList = clientList  Null = Null  Sock = Sock  Junk = Junk
SPECIFICATION Spec
INVARIANT ServerSurvives
CHECK_DEADLOCK FALSE
