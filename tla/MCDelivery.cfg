SPECIFICATION FairSpec
CONSTANTS
  Parts = {"many to one", "one to one", "mpsc queue", "concurrent", "exclusive",
           "broadcast", "message flow"}
PROPERTIES
  AcceptedIsDelivered
CHECK_DEADLOCK FALSE
