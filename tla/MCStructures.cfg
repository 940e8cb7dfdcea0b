SPECIFICATION Spec
CONSTANTS
  Parts = {"hash maps", "counter map", "counters", "broadcast", "layout", "commands",
           "uri text", "uri place"}
  Clients = {c1, c2}
  MaxCounterId = 1
  FreeToReuseTimeout = 2
  MaxCounters = 4
  MaxTime = 4
  MaxScans = 2
  Scans = {"forEach", "find", "active", "heartbeat", "address"}
SYMMETRY ClientSymmetry
INVARIANTS
  MapsExact
  ProtocolAgrees
  UriSurvives
PROPERTIES
  SnapshotOfOneCounter
  BroadcastIsHonest
CHECK_DEADLOCK FALSE
