SPECIFICATION FairSpec
CONSTANTS
  Request = {r1, r2, r3}
INVARIANTS
  TypeOK
PROPERTIES
  CutOnlyByTimeout
  StopEnds
