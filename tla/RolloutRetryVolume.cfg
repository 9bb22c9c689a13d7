SPECIFICATION Spec
CONSTANTS
  Machines <- OneMachine
  Specs <- VolumeSpecs
  Flags <- Plain
  Mode = "replicated"
  VolumeOn <- OneMachine
  MaxContainers = 4
  MaxDeployments = 3
  MaxCommands = 0
  MaxFaults = 0
  MaxUnhealthy = 1
  MaxAborts = 0
  MaxOutages = 0
INVARIANT SingleWriter
CHECK_DEADLOCK FALSE
