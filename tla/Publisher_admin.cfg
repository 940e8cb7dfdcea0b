SPECIFICATION Spec
CONSTANTS
  MessageCount = 2
  MessageSize = 16
  MAX_RETRIES = 1
  Ipc = TRUE
  WaitTimeout = 1
  MaxClock = 2
INVARIANT AdminActionRetried
