CONSTANTS
    agent = agent
    supervisor = supervisor
    Scanner = Scanner
    Nobody = Nobody
    Caller <- MCCaller
    Faults = {"crash", "fail", "hash_lost", "slow", "lockless", "outlived"}
    MaxTroubles = 2
SPECIFICATION Spec
INVARIANTS
    TokenTypeOK
    ResumedOnce
    RefusalIsNamed
PROPERTIES
    NextItemStays
    ListedIsResumed
CHECK_DEADLOCK FALSE
