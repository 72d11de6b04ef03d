CONSTANTS
  c1 = c1  c2 = c2  c3 = c3
  Clients <- TwoClients
  childProcessCount = 2
  MaxSignals = 1
  NoClient = NoClient
  ExitMsg = ExitMsg
  Stages <- LastStage
  Room = 0
SPECIFICATION StagesSpec
INVARIANT IdleIsAlive
CHECK_DEADLOCK FALSE
