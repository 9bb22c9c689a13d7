SPECIFICATION Spec
CONSTANTS
  Machines <- TwoMachines
  Specs <- ReplicatedSpecs
  Flags <- Plain
  Mode = "replicated"
  VolumeOn <- TwoMachines
  MaxContainers = 6
  MaxDeployments = 3
  MaxCommands = 0
  MaxFaults = 1
  MaxUnhealthy = 1
  MaxAborts = 0
  MaxOutages = 1
INVARIANT TypeOK
INVARIANT KeepsReplicas
INVARIANT Converged
INVARIANT Idempotent
CHECK_DEADLOCK FALSE
