\* Two retries of one failed deployment at the same time, one worker, one crash.
CONSTANTS
  v1 = v1
  v2 = v2
  Versions = {v1}
  ModelOf <- OneModel
  InitStage <- AllInProduction
  Seeded <- NewModel
  Environments = {"PRODUCTION"}
  Workers = {w1}
  Handlers = {h1, h2}
  Keys = {}
  NoKey = NoKey
  MAX_ATTEMPTS = 2
  WorkersMayStall = FALSE
  MaxDeployments = 1
  RetryBound = 3
  MaxCrashes = 3
SYMMETRY ProcessSymmetry
SPECIFICATION Spec
INVARIANTS
  Recoverable
