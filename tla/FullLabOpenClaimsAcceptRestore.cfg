SPECIFICATION Spec
CONSTANTS
  None = None
  candidate = candidate
  plane = plane
  Roles <- MCRoles
  Profiles = {"standard"}
  Standard = "standard"
  Specs = {q1}
  Facts = {f1}
  Healths = {h1}
  Scenarios = {"01", "05"}
  Attempts = {a1}
  EnsureOrder <- MCEnsureOrder
  DeleteOrder <- MCDeleteOrder
  MutationRoles <- MCMutationRoles
  CaptureRoles <- MCCaptureRoles
  HealthOf <- MCHealthOf
INVARIANTS
  OpenClaimsAcceptRestore
