CONSTANTS
  BufLines = 2
  Wide <- FirstOfB
  Long <- SecondOfA
  TextCells = 2
  Limits <- Short
SPECIFICATION Spec
INVARIANTS ShownOnce
CHECK_DEADLOCK FALSE
