CONSTANTS
  Runs = {r1, r2}
  Keys = {k1, k2}
  Calls = {m1}
  Payments = {pay1}
  None = None
  Estimate = 1
  CallEstimate = 1
  CallPrice = 1
  Deposit = 1
  Opening = 1
  MaxRuns = 1
  NGates = 1
  MaxSpend = 1
  Enabled = {TRUE, FALSE}
SPECIFICATION Spec
SYMMETRY Symmetry
CONSTRAINTS
  OutsideOneRun
  OneGateAfterShutdown
INVARIANTS
  TypeOK
  HoldsCovered
  UndrainedChargedAtMostSpent
  SpendNeverVanishes
  LedgerAgrees
  CapHolds
  OneRunPerKey
PROPERTIES
  MarkedReservesNothing
  KeepsTheBooks
