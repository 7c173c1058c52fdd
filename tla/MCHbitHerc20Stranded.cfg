CONSTANTS
    AlphaExpiry <- MCAlphaExpiry
    BetaExpiry <- MCBetaExpiry
    MaxTime <- MCMaxTime
    Delta = 0
    MaxOutages = 1
    TransientErrors = FALSE
SPECIFICATION Spec
INVARIANT NoFundsStranded
CHECK_DEADLOCK FALSE
