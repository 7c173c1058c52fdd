CONSTANTS
    AlphaExpiry <- MCAlphaExpiry
    BetaExpiry <- MCBetaExpiry
    MaxTime <- MCMaxTime
    Delta = 0
    MaxOutages = 1
    TransientErrors = FALSE
SPECIFICATION BobSpec
PROPERTY BobRecovers
CHECK_DEADLOCK FALSE
