SPECIFICATION Spec
CONSTANTS
  Docs = {1, 2}
  Batches <- MCBatches
  MaxBuilds = 3
  MaxClock = 1
INVARIANTS RemovalSurvives
