CONSTANTS
  c1 = c1  c2 = c2
  Clients <- TwoClients
  threadCnt = 2
  TASKQUECAPACITY = 1
  FdLimit = 3
  Inherited = {0, 1}
  MaxSignals = 1
  BadFd = BadFd
  NoTask = NoTask
SPECIFICATION FairSpec
PROPERTY ExitReached
CHECK_DEADLOCK FALSE
