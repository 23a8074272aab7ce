SPECIFICATION Spec
CONSTANTS
  None = None
  NTasks = 2
  SessionIds = {e1, e2}
  Receipts = {r1, r2}
  Bridges = {b1, b2}
  CaptureTasks = {2}
  MaxRevision = 6
SYMMETRY Interchangeable
INVARIANTS
  TypeOK
  SessionsStayLoadable
  GuestMutationsAreClaimed
PROPERTIES
  KeepsLifecycle
