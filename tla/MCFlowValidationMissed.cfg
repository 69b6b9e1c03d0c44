CONSTANTS
    a = a
    b = b
    c = c
    Step <- MCStep
SPECIFICATION Spec
INVARIANTS
    UnguardedCyclesAreRejected
CHECK_DEADLOCK FALSE
