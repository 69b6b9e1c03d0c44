CONSTANTS
    i1 = i1
    i2 = i2
    s1 = s1
    c0 = c0
    p1 = p1
    w1 = w1
    w2 = w2
    Instance   <- MCInstance
    Session    <- MCSession
    Conference <- MCConf
    Pool       <- MCPool
    Worker     <- MCWorker
    Max        <- MCMax
    NoSync = NoSync
    HoldTtl = 1
    ReapCooldown = 1
    Lag = 0
    MaxTime = 1
SPECIFICATION OccupancySpec
INVARIANTS
    DriftIsFound
SYMMETRY Symmetry
CHECK_DEADLOCK FALSE
