SPECIFICATION FairSpec
CONSTANTS
  Word = 16
  NsPerUs = 2
  BucketLimits <- SmallLimits
  DetailCount = 2
  Target = 3
  FragmentLimit = 2
  Ipc = FALSE
  WaitTimeout = 1
  Lengths = {4, 16}
  SendTimes = {1, 2}
  ClockStepsBack = FALSE
  MaxClock = 2
  MaxPolls = 3
INVARIANTS
  Inv
  ReportSeesWholeUpdates
  OvershootBounded
  FinalReportCoversRun
  HistogramTotal
PROPERTIES
  ReleasesAll
  StopIsHonoured
