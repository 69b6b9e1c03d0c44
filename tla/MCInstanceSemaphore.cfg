CONSTANTS
    i1 = i1
    s1 = s1
    s2 = s2
    c1 = c1
    c2 = c2
    p1 = p1
    p2 = p2
    Instance   <- MCInstance
    Session    <- MCSession
    Conference <- MCConference
    Pool       <- MCPool
    Max        <- MCMax
    HoldTtl = 1
    ReapCooldown = 2
    Lag = 1
    MaxTime = 2
SPECIFICATION Spec
SYMMETRY Symmetry
INVARIANTS
    TypeOK
    Capacity
    OneSlotPerIdentity
PROPERTIES
    HoldIsHandedOver
    HoldReplacesSlot
    LedgerSpec
CHECK_DEADLOCK FALSE
