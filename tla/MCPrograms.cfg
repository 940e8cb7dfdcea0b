SPECIFICATION Spec
CONSTANTS
  Parts = {"latency recorder", "message recorder", "command line", "message flow",
           "start scripts"}
  Threads = {t1, t2, t3}
  Words <- Usual
SYMMETRY ThreadSymmetry
INVARIANTS
  StartsAsAsked
  ReportIsTrue
PROPERTIES
  RecordersExact
CHECK_DEADLOCK FALSE
