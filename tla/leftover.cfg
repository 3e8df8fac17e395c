CONSTANTS
  Runs = {r1}
  PackRuns = {r1}
  Procs = {p1}
  Tasks = {t1}
  Reqs = {q1}
  Drafts = {c1, c2}
  None = None
  NGates = 2
  MaxAttempts = 2
  MaxUp = 1
  Stalls = FALSE
  Failing = {}
SPECIFICATION Spec
INVARIANTS
  EffectAuthorised
