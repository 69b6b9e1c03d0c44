CONSTANTS
    i1 = i1
    i2 = i2
    i3 = i3
    x1 = x1
    x2 = x2
    Agent <- MCAgent3
    Item  <- MCItem1
    Max   <- MCMax
    NoOne = NoOne
    Tag = Tag
    Conf = Conf
    Internal = FALSE
    Faults = {"stale_release"}
SPECIFICATION Spec
INVARIANTS
    QueuedHasNoOwner
CHECK_DEADLOCK FALSE
