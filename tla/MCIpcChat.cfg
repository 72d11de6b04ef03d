CONSTANTS
  BufLines = 2
  Wide <- FirstOfB
  Long <- SecondOfA
  TextCells = 2
  Limits <- Mixed
SPECIFICATION FairSpec
INVARIANTS TypeOK ShownInOrder
PROPERTIES LastShown ChatCloses EveryoneStarts
CHECK_DEADLOCK FALSE
