CONSTANTS
    AlphaExpiry <- MCAlphaExpiry
    BetaExpiry <- MCBetaExpiry
    MaxTime <- MCMaxTime
    Delta = 2
    MaxOutages = 2
    TransientErrors = TRUE
SPECIFICATION Spec
CHECK_DEADLOCK FALSE
PROPERTY ImplementsAtomicSwap
PROPERTY BroadcastsInOrder
