\* Two requests at the same time on one version: what survives the races.
CONSTANTS
  eng = eng
  app = app
  adm = adm
  Users <- MCUsers
  Role <- MCRole
  Versions = {v1}
  Handlers = {h1, h2}
  NoUser = NoUser
  Engineer = eng
  Approver = app
  SampleStages = {"VALIDATED", "PRODUCTION", "ARCHIVED"}
  MaxEvents = 5
SYMMETRY HandlerSymmetry
SPECIFICATION Spec
INVARIANTS
  NeverUnapproved
  TrailMatchesStage
