\* Four slots on two workers; any thread may fail and so may the start of any.
SPECIFICATION FairSpec
CONSTANTS
  Slots <- FourSlots
  Passthrough = {"raw"}
  Bag <- FourBag
  Clouds <- FourClouds
  Trailing <- FourTrailing
  Workers = 2
  InCap = 2
  WriteCap = 1
  Failures = {"read", "decode", "write", "launch"}
INVARIANTS
  TypeOK
  WriteQueueClosesLast
  FlushesWholeTopics
  NoSilentFailure
  ResultIsExact
PROPERTIES
  ImplementsContract
  Termination
