\* One worker replica, one request at a time, crashes: the documented system.
CONSTANTS
  v1 = v1
  v2 = v2
  Versions = {v1, v2}
  ModelOf <- OneModel
  InitStage <- OneOnlyValidated
  Seeded <- Compressor
  Environments = {"STAGING", "PRODUCTION"}
  Workers = {w1}
  Handlers = {h1}
  Keys = {}
  NoKey = NoKey
  MAX_ATTEMPTS = 2
  WorkersMayStall = FALSE
  MaxDeployments = 3
  RetryBound = 2
  MaxCrashes = 1
SPECIFICATION FairSpec
INVARIANTS
  TypeOK
  TimelineAgrees
  ErrorMatchesStatus
  Recoverable
  OnlyPromoted
PROPERTIES
  HonoursContract
  InFlightEnds
