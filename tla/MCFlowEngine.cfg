CONSTANTS
    i1 = i1
    i2 = i2
    tx = tx
    call = call
    stop = stop
    ask = ask
    work = work
    hold = hold
    tell = tell
    NoStep = NoStep
    Complete = Complete
    Run        <- MCRun
    Calls      <- MCCalls
    Instance   <- MCInstance
    InstanceOf <- MCInstanceOf
    Step       <- MCStep
    Kind       <- MCKind
    OnSuccess  <- MCOnSuccess
    OnFailure  <- MCOnFailure
    Entries    <- MCEntries
    LockTtl = 2
    MenuWait = 0
    MenuLock = 1
    TaskWait = 1
    Faults = {"crash", "merge", "slow_gateway"}
SPECIFICATION Spec
INVARIANTS
    EngineTypeOK
    HolderIsAlone
    NothingIsOverwritten
    RepeatsNeedCrashes
PROPERTIES
    CompletedIsNotRepeated
    DecisionStands
CHECK_DEADLOCK FALSE
