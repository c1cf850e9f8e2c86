SPECIFICATION GatesSpec
CONSTANTS
    None = None
    EvidenceFloor = 2
    EffectFloor = 200
    SpreadFloor = 500
    HoldoutPart = 3
    Inputs <- MCInputs
    Values <- MCValues
    Thresholds = {0, 50, 80}
    Candidates = {1, 2}
INVARIANTS
    NearMissAgrees
    ReplayPredictsGate
CHECK_DEADLOCK FALSE
