CONSTANTS
  Files <- SomeFiles
  FILENAME <- TheName
  SizeT = 3
  BufSize = 6
  Garbage = 255
  MayDie = TRUE
SPECIFICATION FairSpec
INVARIANTS TypeOK IntactUnlessSplit
PROPERTY Finishes
CHECK_DEADLOCK FALSE
