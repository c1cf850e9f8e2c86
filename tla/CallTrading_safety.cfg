SPECIFICATION Spec
CONSTANTS
    Mints = {m1, m2}
    NoMint = NoMint
    MaxCalls = 2
    MaxPositions = 1
    SellRetryMax = 1
    MaxFaults = 1
SYMMETRY Symmetry
INVARIANTS OneActivePerMint OneBuyPerMint SellsRecordedPosition SellAttemptsBounded RecordedBuyWasSent
PROPERTIES BoughtVerdictIsFinal ImplementsLedger
CHECK_DEADLOCK FALSE
