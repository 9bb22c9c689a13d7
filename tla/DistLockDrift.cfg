SPECIFICATION Spec
CONSTANTS
    n1 = n1
    n2 = n2
    n3 = n3
    Node = {n1, n2}
    Token = {t1, t2}
    NoToken = NoToken
    Snapshots <- OneSnapshot
    LeaseDuration = 3
    ClockDrift = 1
    MaxLate = 0
    Restartable = {}
    Releasers = {t1}
    MaxTime = 3
SYMMETRY NodeSymmetry
CHECK_DEADLOCK FALSE
INVARIANTS TypeOK MutualExclusion CleanupIsLast
PROPERTIES EntryStable
