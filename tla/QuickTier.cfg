SPECIFICATION Spec
CONSTANTS
  None = None
  Procs = {p1, p2}
  MaxCommands = 2
  MaxForeign = 1
INVARIANTS
  TypeOK
  CleanedRunsLeaveNothing
PROPERTIES
  E2ERunsAreIsolated
CHECK_DEADLOCK FALSE
