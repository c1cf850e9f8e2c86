SPECIFICATION FairSpec
CONSTANTS
    MaxCalls = 1
    MaxTier = 2
    MaxFaults = 2
INVARIANTS RepliesRepeatOnFaults 
PROPERTIES  OrphansDemoted
