SPECIFICATION FairSpec
CONSTANTS
  None = None
  NTasks = 2
  SessionIds = {e1}
  Receipts = {r1}
  Bridges = {b1}
  CaptureTasks = {2}
  MaxRevision = 6
PROPERTIES
  OpenExamsEnd
  ExamLockIsReleased
