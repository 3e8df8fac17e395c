CONSTANTS
  Runs = {r1, r2, r3, r4}
  Reconciled = {r4}
  MaxSlots = 2
  NGates = 1
  Loop = Loop
SPECIFICATION FairSpec
INVARIANTS
  TypeOK
  SlotsAccounted
  WorkBounded
  NoLostWakeup
PROPERTIES
  ApprovedResumes
