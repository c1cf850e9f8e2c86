SPECIFICATION RouterFairSpec
CONSTANTS
    N = 2
    Tasks = {t1, t2}
    Tools = {t2}
    Tolerated = 0
    Cooldown = 1
INVARIANTS GaveUpAfterAll SidelineRemembered
PROPERTIES EndpointReturns
