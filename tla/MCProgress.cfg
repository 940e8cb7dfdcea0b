SPECIFICATION FairSpec
CONSTANTS
  Parts = {"latency recorder", "stop scripts", "registry", "image", "shared runner",
           "timeouts", "paused", "images"}
PROPERTIES
  FoundIsStopped
  CallsReturn
  UnretainedIsFreed
  DriverEndNoticed
  NoStarvation
CHECK_DEADLOCK FALSE
