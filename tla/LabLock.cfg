SPECIFICATION FairSpec
CONSTANTS
  None = None
  Unsafe = Unsafe
  Processes = {p1, p2}
  Impatient = {p2}
  Labs = {"one", "two"}
  MaxObjects = 8
  MaxMoves = 1
INVARIANTS
  TypeOK
  OneMutatorPerRoot
  SilentCommandsAreSerial
  WaitsAreShort
PROPERTIES
  RecordsKeepTheirLab
  AcquisitionsEnd
