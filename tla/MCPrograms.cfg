CONSTANTS
  Clients = {"c1", "c2"}
  MaxEvents = 3  TcpBufLines = 1  TcpMaxSent = 2  TcpMaxSaid = 2
  UdpMaxSent = 1  UdpMaxSaid = 2
  PipeBufLines = 1  MaxTyped = 2
  DownloadFiles = {0, 1, 3}  DownloadBufLen = 2
  Windows = {"w1", "w2"}  Full = 2  MaxSpurious = 1
  N = 3
  Room = 2  SEMAEM = 4  MaxIdle = 2
  Marks = {1, 2, 3}  MaxLines = 4
  SendFiles <- EmptyOrLong  Word = 2  SendBufLen = 3
  Slots = 3  Page = 8  Much = 4
  MaxInts = 3
  Types <- SomeTypes  Sizes = {0, 1, 2}  TextLen = 1  QueueRoom = 2  MaxMessages = 3
  SemctlRuns = {"r1", "r2", "r3"}
SPECIFICATION Spec
INVARIANTS TypeOK Conserved Result OnlyThen
PROPERTIES SentIsHeard GoneIsNoticed WaitIsOver GoesOn
CHECK_DEADLOCK FALSE
