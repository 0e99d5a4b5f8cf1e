SPECIFICATION Spec
CONSTANTS
    a1 = a1
    a2 = a2
    b1 = b1
    c1 = c1
    av3 = av3
    bv2 = bv2
    cv1 = cv1
    Inputs <- MCInputs
    Surfaces <- MCSurfaces
    Owner <- MCOwner
    Version <- MCVersion
    None = None
    NoInput = NoInput
    MaxFocus = 3
    MaxStarts = 2
    MaxCreated = 2
    MaxDestroyed = 1
SYMMETRY MCSymmetry
INVARIANT NeverAborts
CHECK_DEADLOCK FALSE
