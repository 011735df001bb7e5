\* Two API processes and the seeder start over an empty database; users create models and
\* read the list while one of them still starts or dies.
CONSTANTS
  pump = pump
  pumpTwo = pumpTwo
  compressor = compressor
  Handlers = {h1, h2}
  Names = {pump, pumpTwo, compressor}
  Wanted = {pump, pumpTwo}
  Slug <- SlugOf
  NoUser = NoUser
  ReaderPresent = TRUE
  PageSize = 2
  MaxModels = 3
  Apis = {a1, a2}
  Clis = {c1}
  DEMO_USERS = {"engineer", "approver"}
  Sample <- TwoModels
  SampleMetrics <- TwoVersions
  Points = 2
  MaxCrashes = 1
CHECK_DEADLOCK FALSE
SPECIFICATION FairSpec
INVARIANTS
  TypeOK
  ServesComplete
  SampleFirst
  SampleSigned
  WorkerSeesHead
  KeysExplained
  NothingMissed
  MonitoringAgrees
PROPERTIES
  EverythingStarts
