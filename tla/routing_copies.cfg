\* The same bags and mappings.
SPECIFICATION Spec
CONSTANTS
  Topics <- SomeTopics
  TypeOf <- SomeTypes
  PacketTypes = {"PandarScan"}
  Cloud = "PointCloud2"
  Outputs = {"points", "rear", "tf"}
  MaxRules = 2
  Machines <- SomeMachines
  None = None
INVARIANT CopiesKeepTheirType
\* A conversion is over when every topic was written or one was refused.
CHECK_DEADLOCK FALSE
