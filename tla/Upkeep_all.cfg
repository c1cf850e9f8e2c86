SPECIFICATION Spec
CONSTANTS
    Wallets = {"w"}
    Mints = {"m1", "m2"}
    MinObs = 2
    MinWinners = 1
    MinHitPct = 40
    MaxOrders = 1
    MaxWalletFaults = 1
    MaxHour = 3
    MaxDeletions = 1
    MaxDigestFaults = 2
    Chats = {"calls", "lounge"}
    Calls = "calls"
    Lounge = "lounge"
    Bumpers = {"scanner", "operator"}
    MaxMessages = 4
    MaxAnchorFaults = 1
INVARIANTS
    KnownWasTold
    OneDigestPerHour
    OrphansExplained
    AnchorBelowCards
PROPERTIES
    SmartBuysTold
    WrapStays
    PastHoursClose
CHECK_DEADLOCK FALSE
