CONSTANTS
    ana = ana
    bob = bob
    k1 = k1
    k2 = k2
    q1 = q1
    q2 = q2
    None = None
    Agent = {ana}
    Fits = {}
    Task = {k1}
    QueueRun = {q1}
    MaxOthers = 1
    MaxReadies = 1
    MaxMessages = 2
    Deployments <- MCMute
SPECIFICATION Spec
PROPERTIES
    WaitEnds
CHECK_DEADLOCK FALSE
