\* Two promotions of one version at the same time: the lost update.
CONSTANTS
  eng = eng
  app = app
  adm = adm
  Users <- MCUsers
  Role <- MCRole
  Versions = {v1}
  Handlers = {h1, h2}
  NoUser = NoUser
  Engineer = eng
  Approver = app
  SampleStages = {"VALIDATED", "PRODUCTION", "ARCHIVED"}
  MaxEvents = 4
SYMMETRY HandlerSymmetry
SPECIFICATION Spec
PROPERTIES
  ForwardOnly
