SPECIFICATION Spec
CONSTANTS
  Word = 16
  NsPerUs = 2
  BucketLimits <- SmallLimits
  DetailCount = 2
  Target = 2
  FragmentLimit = 2
  Ipc = TRUE
  WaitTimeout = 1
  Lengths = {16}
  SendTimes = {1}
  ClockStepsBack = FALSE
  MaxClock = 2
  MaxPolls = 2
INVARIANT JoinsCreatedThread
