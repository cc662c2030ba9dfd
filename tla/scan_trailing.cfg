\* The same streams.
SPECIFICATION Spec
CONSTANTS
  Sectors = 3
  MaxPackets = 6
  MinPoints = 2
  None = None
INVARIANT EveryCloudIsAScan
\* The stream ends and the writer has everything.
CHECK_DEADLOCK FALSE
