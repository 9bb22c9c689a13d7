SPECIFICATION Spec
CONSTANTS
  Machines <- TwoMachines
  Specs <- GlobalSpecs
  Flags <- Plain
  Mode = "global"
  VolumeOn <- TwoMachines
  MaxContainers = 6
  MaxDeployments = 3
  MaxCommands = 1
  MaxFaults = 0
  MaxUnhealthy = 1
  MaxAborts = 1
  MaxOutages = 0
INVARIANT OneServiceID
INVARIANT KeepsMachines
INVARIANT Converged
INVARIANT CleanDeploymentSucceeds
CHECK_DEADLOCK FALSE
