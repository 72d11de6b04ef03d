CONSTANTS
  c1 = c1  c2 = c2  c3 = c3
  Clients <- ThreeClients
  Evenings <- Talks
  clientList = clientList  Null = Null  Sock = Sock  Junk = Junk
SPECIFICATION FairSpec
INVARIANTS TypeOK ListSound Relayed
PROPERTIES Heard Forgotten
CHECK_DEADLOCK FALSE
