CONSTANTS
    ana = ana
    bob = bob
    k1 = k1
    k2 = k2
    q1 = q1
    q2 = q2
    None = None
    Agent = {ana, bob}
    Fits = {ana, bob}
    Task = {k1}
    QueueRun = {q1}
    MaxOthers = 1
    MaxReadies = 1
    MaxMessages = 2
    Deployments <- MCAnnounced
SPECIFICATION Spec
INVARIANTS
    RoutedOnce
CHECK_DEADLOCK FALSE
