CONSTANTS
    ana = ana
    bob = bob
    retention = retention
    approval = approval
    c1 = c1
    c2 = c2
    c3 = c3
    None = None
    User = {ana, bob}
    Pool = {retention}
    Conn = {c1, c2}
    Opened = {c1}
    UserOf <- MCTwoAgents
    PoolOf <- MCPoolOf
    MaxToggles = 0
    MaxEvents = 2
    MaxHandlers = 1
SPECIFICATION Spec
INVARIANTS
    NobodyIsForgotten
CHECK_DEADLOCK FALSE
