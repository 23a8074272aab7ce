SPECIFICATION FairSpec
CONSTANTS
  None = None
  candidate = candidate
  plane = plane
  Roles <- MCRoles
  Profiles = {"standard"}
  Standard = "standard"
  Specs = {q1, q2}
  Facts = {f1, f2}
  Healths = {h1}
  Scenarios = {"01", "05"}
  Attempts = {a1}
  EnsureOrder <- MCEnsureOrder
  DeleteOrder <- MCDeleteOrder
  MutationRoles <- MCMutationRoles
  CaptureRoles <- MCCaptureRoles
  HealthOf <- MCHealthOf
INVARIANTS
  TypeOK
  MachinesAreClaimed
  VerifiedLabsAreWhole
  DestroyedMeansGone
  MutationsAreClaimed
PROPERTIES
  CleanupEndsInTombstone
  StoreSpec
