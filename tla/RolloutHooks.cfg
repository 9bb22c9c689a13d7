SPECIFICATION LiveSpec
CONSTANTS
  Machines <- OneMachine
  Specs <- HookSpecs
  Flags <- PlainOrBoth
  Mode = "global"
  VolumeOn <- OneMachine
  MaxContainers = 6
  MaxDeployments = 3
  MaxCommands = 0
  MaxFaults = 1
  MaxUnhealthy = 1
  MaxAborts = 1
  MaxOutages = 1
INVARIANT HookGate
INVARIANT OneHookAtATime
INVARIANT SingleWriter
PROPERTY DeploymentsEnd
CHECK_DEADLOCK FALSE
