SPECIFICATION Spec
CONSTANTS
  None = None
  Processes = {p1, p2}
  Data = {d1, d2}
  Template = d1
INVARIANTS
  TypeOK
  CommandsReachWhatWasVerified
  DeletionsFollowTheLatestProof
PROPERTIES
  ProviderKeepsContract
