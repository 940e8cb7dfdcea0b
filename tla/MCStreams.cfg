SPECIFICATION Spec
CONSTANTS
  Parts = {"many to one", "one to one", "mpsc queue", "spsc queue", "polls", "peek",
           "assembler", "images"}
  Producers = {p1, p2}
  Capacity = 8
  MsgLengths = {1}
  MaxWrites = 4
  ReadLimit = 2
  Start = 1
  QueueCapacity = 2
  MaxSizeCalls = 1
  MaxImages = 2
  MaxChanges = 2
  FragmentLimit = 2
  ImageOps = {"poll", "blockPoll", "isConnected", "imageCount", "imageByIndex",
              "imageBySessionId", "forEachImage"}
SYMMETRY ProducerSymmetry
INVARIANTS
  RecordsIntact
  UnblockEndsARecord
  PollsExact
  WholeMessages
  SnapshotOfOneMoment
PROPERTIES
  ImplementsClaimQueue
CHECK_DEADLOCK FALSE
