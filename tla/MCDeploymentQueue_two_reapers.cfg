\* A worker crashes and two replicas reap its deployment.
CONSTANTS
  v1 = v1
  v2 = v2
  Versions = {v1}
  ModelOf <- OneModel
  InitStage <- AllInProduction
  Seeded <- NewModel
  Environments = {"PRODUCTION"}
  Workers = {w1, w2}
  Handlers = {h1}
  Keys = {}
  NoKey = NoKey
  MAX_ATTEMPTS = 2
  WorkersMayStall = FALSE
  MaxDeployments = 1
  RetryBound = 1
  MaxCrashes = 1
SYMMETRY ProcessSymmetry
SPECIFICATION Spec
INVARIANTS
  SingleExecutor
