CONSTANTS
  Runs = {r1}
  PackRuns = {r1}
  Procs = {p1, p2}
  Tasks = {t1, t2}
  Reqs = {q1}
  Drafts = {c1, c2}
  None = None
  NGates = 1
  MaxAttempts = 2
  MaxUp = 2
  Stalls = FALSE
  Failing = {}
SPECIFICATION Spec
PROPERTIES
  ReconciledOnce
