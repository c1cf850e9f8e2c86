SPECIFICATION Spec
CONSTANTS
    Mints = {m1}
    NoMint = NoMint
    MaxCalls = 1
    MaxPositions = 1
    SellRetryMax = 1
    MaxFaults = 0
PROPERTIES VerdictsAreFinal
CHECK_DEADLOCK FALSE
