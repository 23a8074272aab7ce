SPECIFICATION Spec
CONSTANTS
  None = None
  Machines <- MCMachines
  Roles <- LabRoles
  Program <- ProvisionProgram
  Kept <- LabKept
  ControlPlane = "control-plane"
  Candidate = "candidate"
  Facts = {f1}
  Fragile <- MCFragile
  MaxBreaks = 1
INVARIANTS
  TypeOK
  NoTokenOutlivesTheJoin
  FailedJoinsRevoke
  PhasesCertifyTheMachines
PROPERTIES
  StagesImplementFullLab
