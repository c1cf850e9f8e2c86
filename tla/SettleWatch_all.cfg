SPECIFICATION Spec
CONSTANTS
    Calls = {"SCALP", "SHORT", "LONG", "MOONSHOT"}
    Prices <- FewPrices
    EntryPrices = {0}
    Confs = {1, 2}
    Flags <- FewFlags
    Instants <- Ages
    MaxSnaps = 3
INVARIANTS TrailExitNotAtALoss StopsSeenTwice LossyWithdrawals FlatCallsClose
CHECK_DEADLOCK FALSE
