SPECIFICATION Spec
CONSTANTS
  Parts = {"command line"}
  Threads = {t1}
  Words <- Documented
INVARIANT DocumentedEndpoint
CHECK_DEADLOCK FALSE
