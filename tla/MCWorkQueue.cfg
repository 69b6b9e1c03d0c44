CONSTANTS
    i1 = i1
    i2 = i2
    i3 = i3
    x1 = x1
    x2 = x2
    Agent <- MCAgent2
    Item  <- MCItem2
    Max   <- MCMax
    NoOne = NoOne
    Tag = Tag
    Conf = Conf
    Internal = FALSE
    Faults = {}
SPECIFICATION Spec
INVARIANTS
    QueuedHasNoOwner
    WorkerIsHolder
    EndedLeavesNothing
SYMMETRY Symmetry
CHECK_DEADLOCK FALSE
