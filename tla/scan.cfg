\* Every stream of up to six packets over three azimuths, with and without points.
SPECIFICATION Spec
CONSTANTS
  Sectors = 3
  MaxPackets = 6
  MinPoints = 2
  None = None
INVARIANTS
  TypeOK
  CompletedScansAreDelivered
  TrailingScanSurvives
  NoSpuriousScan
\* The stream ends and the writer has everything.
CHECK_DEADLOCK FALSE
