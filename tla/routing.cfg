\* Every bag of two packet topics and another, every mapping of up to two rules.
SPECIFICATION Spec
CONSTANTS
  Topics <- SomeTopics
  TypeOf <- SomeTypes
  PacketTypes = {"PandarScan"}
  Cloud = "PointCloud2"
  Outputs = {"points", "rear"}
  MaxRules = 2
  Machines <- SomeMachines
  None = None
INVARIANTS
  TypeOK
  PlanIsKept
  OneSensorPerCloudTopic
  SchemaIsOfItsType
  NothingIsDropped
\* A conversion is over when every topic was written or one was refused.
CHECK_DEADLOCK FALSE
