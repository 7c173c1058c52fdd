CONSTANTS
    i1 = i1
    i2 = i2
    c1 = c1
    c2 = c2
    None = None
    Ids <- MCIds
    Callers <- MCCallers
SYMMETRY MCSymmetry
SPECIFICATION Spec
INVARIANT LifecycleOrder
