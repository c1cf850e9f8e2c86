SPECIFICATION Spec
CONSTANTS
    Workloads <- MCWorkloads
    Window = 3
    MaxFlying = 1
    MaxFaults = 2
INVARIANTS
    GapsOnlyByFaults
PROPERTIES
    SiteCatchesUp
    DueCallsClose
    ReceiptTakenOnce
CHECK_DEADLOCK FALSE
