SPECIFICATION HangingSpec
CONSTANTS
    n1 = n1
    n2 = n2
    n3 = n3
    Node = {n1, n2}
    Token = {t1}
    NoToken = NoToken
    Snapshots <- OneSnapshot
    LeaseDuration = 2
    ClockDrift = 0
    MaxLate = 1
    Restartable = {n1}
    Releasers = {t1}
    MaxTime = 3
CHECK_DEADLOCK FALSE
INVARIANTS IInv
PROPERTIES LossSignalled AcquireReturns ReleaseReturns
