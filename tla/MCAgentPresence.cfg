CONSTANTS
    ana = ana
    bob = bob
    retention = retention
    approval = approval
    c1 = c1
    c2 = c2
    c3 = c3
    None = None
    User = {ana}
    Pool = {retention, approval}
    Conn = {c1, c2, c3}
    Opened = {c1, c3}
    UserOf <- MCAnaAlone
    PoolOf <- MCPoolOf
    MaxToggles = 1
    MaxEvents = 2
    MaxHandlers = 1
SPECIFICATION Spec
CONSTRAINT Whole
INVARIANTS
    ConnectedIsMember
    NobodyIsForgotten
CHECK_DEADLOCK FALSE
