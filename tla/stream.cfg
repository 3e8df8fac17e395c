CONSTANTS
  Procs = {p1, p2}
  Streams = {s1}
  NEvents = 2
  End = 2
  QMax = 1
  RelayMax = 1
  ReplayMax = 1
  None = None
SPECIFICATION FairSpec
INVARIANTS
  TypeOK
  ResumePointCovers
PROPERTIES
  IdsIncrease
  StreamEnds
