SPECIFICATION Spec
CONSTANTS
    n1 = n1
    n2 = n2
    n3 = n3
    Node = {n1, n2}
    Token = {t1, t2}
    NoToken = NoToken
    Snapshots <- GrowingSnapshots
    LeaseDuration = 2
    ClockDrift = 0
    MaxLate = 1
    Restartable = {}
    Releasers = {}
    MaxTime = 2
SYMMETRY TokenSymmetry
CHECK_DEADLOCK FALSE
INVARIANTS IInv
PROPERTIES EntryStable
