CONSTANTS
    AlphaExpiry <- MCAlphaExpiry
    BetaExpiry <- MCBetaExpiry
    MaxTime <- MCMaxTime
    Delta = 0
    MaxOutages = 1
    TransientErrors = TRUE
SPECIFICATION AliceSpec
PROPERTY AliceRecovers
CHECK_DEADLOCK FALSE
