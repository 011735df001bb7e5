\* Two worker replicas, one request at a time, two slots, nothing fails.
CONSTANTS
  v1 = v1
  v2 = v2
  Versions = {v1}
  ModelOf <- OneModel
  InitStage <- AllInProduction
  Seeded <- NewModel
  Environments = {"STAGING", "PRODUCTION"}
  Workers = {w1, w2}
  Handlers = {h1}
  Keys = {}
  NoKey = NoKey
  MAX_ATTEMPTS = 2
  WorkersMayStall = FALSE
  MaxDeployments = 2
  RetryBound = 2
  MaxCrashes = 0
SYMMETRY ProcessSymmetry
SPECIFICATION Spec
INVARIANTS
  SingleExecutor
  NoWorkerAborts
PROPERTIES
  OwnerCompletes
  HonoursContract
