SPECIFICATION FairSpec
CONSTANTS
    Stream <- Two
    Inputs <- MixedInputs
    MaxInFlight = 1
    HeartbeatInterval = 1
    MaxStalls = 2
INVARIANTS TypeOK SlotsExact NothingLost
PROPERTIES Ordered ClosesUnlessStalled
CHECK_DEADLOCK FALSE
