CONSTANTS
    i1 = i1
    i2 = i2
    i3 = i3
    s1 = s1
    c0 = c0
    c1 = c1
    c2 = c2
    p1 = p1
    Instance   <- MCInstance3
    Session    <- MCSession
    Conference <- MCConference3
    Pool       <- MCPool
    Max        <- MCMax
    Sid = s1
    Primary = c0
    NoTag = p1
    HoldTtl = 1
    ReapCooldown = 1
    Lag = 0
    MaxTime = 0
    Faults = {"reap"}
    MaxJoins = 1
    MaxSubmits = 1
    MaxTroubles = 0
SPECIFICATION CloseSpec
INVARIANTS
    EndedOnlyWhenEmpty
    NoSlotLeaks
SYMMETRY Symmetry
CHECK_DEADLOCK FALSE
