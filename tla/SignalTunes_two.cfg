SPECIFICATION Spec
CONSTANTS
  None = None
  h1 = h1
  h2 = h2
  k1 = k1
  k2 = k2
  Prompt = Prompt
  Handlers <- MCHandlers
  Knobs <- MCKnobs
  Evidence <- MCEvidence
  EvidenceFloor = 10
  EffectFloor = 500
  SpreadFloor = 800
  HoldoutPart = 4
  Cooldown = 1
  ListLimit = 1
  MaxProposals = 3
  MaxEvents = 2
  MaxTime = 2
  MaxFaults = 1
SYMMETRY Symmetric
CONSTRAINT Few
INVARIANTS
  CommittedTold
  InForceIsCommitted
CHECK_DEADLOCK FALSE
