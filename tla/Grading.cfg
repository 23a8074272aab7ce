SPECIFICATION Spec
CONSTANTS
  None = None
  Careless = TRUE
  MutationRoles <- MCRoles
  ObservationRoles <- MCRoles
  Criteria = {"profiling-disabled", "etcd-owner", "kubelet-mode", "client-ca"}
  MetWhenRestored = {"kubelet-mode", "client-ca"}
  At <- MCAt
  Weight <- MCWeight
  CaptureRoles = {"control-plane", "worker1"}
  MaxChanges = 3
INVARIANTS
  TypeOK
  GradesAreFair
  RestoredIsExact
