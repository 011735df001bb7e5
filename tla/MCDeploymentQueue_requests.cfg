\* Two requests at a time, one worker, nothing fails; without retries, which
\* MCDeploymentQueue_retry_race.cfg has.
CONSTANTS
  v1 = v1
  v2 = v2
  Versions = {v1, v2}
  ModelOf <- OneModel
  InitStage <- OneOnlyApproved
  Seeded <- NewModel
  Environments = {"PRODUCTION"}
  Workers = {w1}
  Handlers = {h1, h2}
  Keys = {k1}
  NoKey = NoKey
  MAX_ATTEMPTS = 2
  WorkersMayStall = FALSE
  MaxDeployments = 3
  RetryBound = 1
  MaxCrashes = 0
SYMMETRY ProcessSymmetry
SPECIFICATION Spec
INVARIANTS
  AtMostOneActive
  OnePerKey
  OnlyPromoted
PROPERTIES
  NotStranded
