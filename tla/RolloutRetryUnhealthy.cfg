SPECIFICATION Spec
CONSTANTS
  Machines <- OneMachine
  Specs <- PlainSpecs
  Flags <- Plain
  Mode = "replicated"
  VolumeOn <- OneMachine
  MaxContainers = 4
  MaxDeployments = 2
  MaxCommands = 0
  MaxFaults = 0
  MaxUnhealthy = 1
  MaxAborts = 0
  MaxOutages = 0
INVARIANT SuccessMeansHealthy
CHECK_DEADLOCK FALSE
