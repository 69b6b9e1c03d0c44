CONSTANTS
    a = a
    b = b
    c = c
    Step <- MCStep
SPECIFICATION Spec
INVARIANTS
    ValidationTypeOK
    ReportsAreCycles
    TrapsAreRejected
CHECK_DEADLOCK FALSE
