\* Every topic of up to two messages with up to two packets each, of every type,
\* on a machine with every calibration and on one without some.
SPECIFICATION Spec
CONSTANTS
  Models <- SomeModels
  Machines <- SomeMachines
  Supported <- SomeSupported
  MaxMessages = 2
  MaxPackets = 2
  Unknown = "unknown"
  None = None
  Garbage = Garbage
  Empty = Empty
INVARIANTS
  TypeOK
  FirstModelIsReported
  HintHolds
  InspectionHolds
\* A topic is over when convert() is.
CHECK_DEADLOCK FALSE
