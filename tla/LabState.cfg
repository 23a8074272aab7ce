SPECIFICATION StoreSpec
CONSTANTS
  None = None
  Roles = {candidate, worker1}
  Profiles = {standard, low}
  Specs = {q1, q2}
  Facts = {f1, f2}
  Healths = {h1, h2}
  Scenarios = {s1, s2}
  Attempts = {a1, a2}
INVARIANTS
  StoreTypeOK
  RecordsStayLoadable
  VerifiedPhasesHaveEvidence
PROPERTIES
  ClaimErasedOnlyByRestore
  JournalFollowsTable
  BoundFieldsAreImmutable
CHECK_DEADLOCK FALSE
