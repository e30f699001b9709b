SPECIFICATION FairSpec
CONSTANTS
  Declared = {"backend", "frontend"}
  MaxScans = 3
INVARIANTS StartTypeOK
PROPERTIES ServiceSpec EndsOnlyWhenStopped StoppedIsSeen
