SPECIFICATION Spec
CONSTANTS
    None = None
    Mints = {m1}
    Dirty = {m1}
    Analysts = {a1, a2}
    Jobs = {j1, j2}
    Refresh = 1
    MaxTime = 3
    MaxFaults = 2
INVARIANTS
    OneComputePerMint
    ForensicsCarried
PROPERTIES
    ClaimReleased
CHECK_DEADLOCK FALSE
