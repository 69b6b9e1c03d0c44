CONSTANTS
    ana = ana
    bob = bob
    k1 = k1
    k2 = k2
    q1 = q1
    q2 = q2
    None = None
    Agent = {ana, bob}
    Fits = {ana, bob}
    Task = {k1}
    QueueRun = {q1, q2}
    MaxOthers = 1
    MaxReadies = 1
    MaxMessages = 2
    Deployments <- MCMost
SPECIFICATION Spec
INVARIANTS
    OneTaker
    LossLeavesTrace
PROPERTIES
    WaitEnds
    ClosedLeavesQueue
CHECK_DEADLOCK FALSE
