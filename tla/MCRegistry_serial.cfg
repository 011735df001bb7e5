\* Requests one at a time, two versions: the lifecycle as documented.
CONSTANTS
  eng = eng
  app = app
  adm = adm
  Users <- MCUsers
  Role <- MCRole
  Versions = {v1, v2}
  Handlers = {h1}
  NoUser = NoUser
  Engineer = eng
  Approver = app
  SampleStages = {"VALIDATED", "PRODUCTION", "ARCHIVED"}
  MaxEvents = 6
SPECIFICATION Spec
INVARIANTS
  TypeOK
  TrailIsAPath
  NoServerError
PROPERTIES
  ForwardOnly
