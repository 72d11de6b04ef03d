CONSTANTS
  c1 = c1  c2 = c2  c3 = c3
  Clients <- ThreeClients
  childProcessCount = 2
  MaxSignals = 1
  NoClient = NoClient
  ExitMsg = ExitMsg
  Stages <- AllStages
  Room = 1
SPECIFICATION FairStagesSpec
INVARIANTS TypeOK BusyConserved HeldOnce GracefulExit Delivered
PROPERTIES Answered PoolEnds
CHECK_DEADLOCK FALSE
