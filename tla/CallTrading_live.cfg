SPECIFICATION FairSpec
CONSTANTS
    Mints = {m1}
    NoMint = NoMint
    MaxCalls = 1
    MaxPositions = 1
    SellRetryMax = 1
    MaxFaults = 1
PROPERTIES ArmedCallsClose SettlePassEnds
CHECK_DEADLOCK FALSE
