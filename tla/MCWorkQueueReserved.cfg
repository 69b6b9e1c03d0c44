CONSTANTS
    i1 = i1
    i2 = i2
    i3 = i3
    x1 = x1
    x2 = x2
    Agent <- MCAgent2
    Item  <- MCItem1
    Max   <- MCMax
    NoOne = NoOne
    Tag = Tag
    Conf = Conf
    Internal = TRUE
    Faults = {"drop"}
SPECIFICATION Spec
PROPERTIES
    ReservationHonoured
CHECK_DEADLOCK FALSE
