CONSTANTS
    AlphaExpiry = 5
    BetaExpiry = 3
    Delta = 1
    MaxTime = 6
SPECIFICATION Spec
INVARIANT AliceNotRobbed
CHECK_DEADLOCK FALSE
