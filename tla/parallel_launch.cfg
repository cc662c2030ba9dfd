\* A thread may fail to start.
SPECIFICATION Spec
CONSTANTS
  Slots <- FourSlots
  Passthrough = {"raw"}
  Bag <- FourBag
  Clouds <- FourClouds
  Trailing <- FourTrailing
  Workers = 2
  InCap = 1
  WriteCap = 1
  Failures = {"launch"}
INVARIANT NeverTerminated
