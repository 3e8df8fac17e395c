CONSTANTS
  Procs = {p1}
  Streams = {s1}
  NEvents = 3
  End = 3
  QMax = 2
  RelayMax = 1
  ReplayMax = 1
  None = None
SPECIFICATION Spec
INVARIANTS
  OverflowLosesNothing
