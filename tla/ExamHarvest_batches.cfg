\* Two attempts in batches of one, next to an orphan; the ticker goes on, final drains among its own.
SPECIFICATION FairSpec
CONSTANTS
  a1 = a1
  a2 = a2
  a3 = a3
  x = x
  None = None
  AttemptId = {a1, a2, a3}
  Deployment = {x}
  DeploymentOf <- WithOrphan
  Drainer = {node}
  Cli = {}
  MaxBatch = 1
  MaxSaves <- FirstSaved
  MaxGeneration = 1
  MaxFaults = 1
INVARIANTS
  TypeOK
  HarvestedIsAtCentral
  FinalIsComplete
PROPERTIES
  FinishedIsHarvested
