\* The page of an administrator, with late and lost answers.
CONSTANTS
  v1 = v1
  v2 = v2
  Versions = {v1, v2}
  ModelOf <- OneModel
  Environments = {"PRODUCTION"}
  History <- OneSuccess
  pageSize = 1
  canDeploy = TRUE
  canRollback = TRUE
  MaxDeployments = 2
  MaxRequests = 2
  MaxClicks = 2
  MaxOthers = 1
  MaxFailures = 1
SPECIFICATION FairSpec
INVARIANTS
  TypeOK
  NeverAhead
PROPERTIES
  ListFollows
  DrawerFollows
  LoadingEnds
CHECK_DEADLOCK FALSE
