SPECIFICATION Spec
CONSTANTS
    n1 = n1
    n2 = n2
    n3 = n3
    Node = {n1, n2, n3}
    Token = {t1, t2}
    NoToken = NoToken
    Snapshots <- OneSnapshot
    LeaseDuration = 2
    ClockDrift = 0
    MaxLate = 0
    Restartable = {}
    Releasers = {}
    MaxTime = 2
SYMMETRY Symmetry
CHECK_DEADLOCK FALSE
INVARIANTS MutualExclusion
PROPERTIES ImplementsLeaseService
