CONSTANTS
    agent = agent
    supervisor = supervisor
    Scanner = Scanner
    Nobody = Nobody
    Caller <- MCCaller
    Faults = {"fail"}
    MaxTroubles = 2
SPECIFICATION Spec
INVARIANTS
    LeftoverIsHarmless
CHECK_DEADLOCK FALSE
