CONSTANTS
    AlphaExpiry <- MCAlphaExpiry
    BetaExpiry <- MCBetaExpiry
    MaxTime <- MCMaxTime
    Delta = 1
    MaxOutages = 1
    TransientErrors = FALSE
SPECIFICATION Spec
INVARIANT BobNotRobbed
CHECK_DEADLOCK FALSE
