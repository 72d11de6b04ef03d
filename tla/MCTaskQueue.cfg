CONSTANTS
  n1 = n1  n2 = n2  n3 = n3  n4 = n4
  fd1 = fd1  fd2 = fd2
  Nodes <- MCNodes
  Fds <- MCFds
  NULL = NULL
  NoFd = NoFd
  MaxCapacity = 2
SPECIFICATION Spec
INVARIANTS TypeOK ListShape NodesAccounted
PROPERTY ImplementsFifo
CHECK_DEADLOCK FALSE
