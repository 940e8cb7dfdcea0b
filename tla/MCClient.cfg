SPECIFICATION Spec
CONSTANTS
  Parts = {"registry", "publication", "image", "runner", "timeouts", "error log"}
  Threads = {t1, t2}
  Ids = {i1, i2}
  Handlers = {"h"}
  Exclusive = TRUE
  Limit = 3
  Position = 1
  Images = {"i", "j"}
  Objects = {"o", "p"}
  MaxCopies = 2
  AgentCalls = 5
  InterServiceTimeout = 2
  DriverTimeout = 4
  KeepaliveTimeout = 2
  ResourceTimeout = 3
  ClientLiveness = 4
  ClientGap = 2
  DriverGap = 3
  ErrorKinds <- ThreeErrors
  TextLength <- TextLengths
  Capacity = 18
  ErrorCalls = 3
  MaxTime = 2
  MaxReads = 1
SYMMETRY ClientSymmetry
INVARIANTS
  OneOwner
  AgentsCloseOnce
  ClosedMeansDriverEnded
  ErrorLogExact
PROPERTIES
  NoUseAfterFree
CHECK_DEADLOCK FALSE
