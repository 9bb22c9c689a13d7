SPECIFICATION FairSpec
CONSTANTS
    Stream <- Two
    Inputs <- LogInputs
    MaxInFlight = 1
    HeartbeatInterval = 1
    MaxStalls = 1
PROPERTY OutputCloses
CHECK_DEADLOCK FALSE
