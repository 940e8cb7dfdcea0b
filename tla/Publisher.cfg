SPECIFICATION FairSpec
CONSTANTS
  MessageCount = 3
  MessageSize = 16
  MAX_RETRIES = 2
  Ipc = FALSE
  WaitTimeout = 1
  MaxClock = 3
INVARIANTS
  ReportSeesWholeUpdates
  RunIsSound
PROPERTIES
  ReleasesAll
  AlwaysEnds
