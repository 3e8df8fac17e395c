CONSTANTS
  Runs = {r1}
  Keys = {k1}
  Calls = {}
  Payments = {}
  None = None
  Estimate = 1
  CallEstimate = 1
  CallPrice = 1
  Deposit = 1
  Opening = 3
  MaxRuns = 1
  NGates = 1
  MaxSpend = 1
  Enabled = {TRUE}
SPECIFICATION Spec
INVARIANTS
  ChargedAtMostSpent
