CONSTANTS
  Files <- SomeFiles
  FILENAME <- TheName
  SizeT = 3
  BufSize = 6
  Garbage = 255
  MayDie = FALSE
SPECIFICATION Spec
INVARIANT FileIntact
CHECK_DEADLOCK FALSE
