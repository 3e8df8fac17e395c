CONSTANTS
  Runs = {r1, r2}
  PackRuns = {r1}
  Procs = {p1, p2}
  Tasks = {t1, t2}
  Reqs = {q1}
  Drafts = {c1}
  None = None
  NGates = 1
  MaxAttempts = 2
  MaxUp = 1
  Stalls = FALSE
  Failing = {0}
SPECIFICATION FairSpec
PROPERTIES
  EveryRunEnds
INVARIANTS
  PromptExecutesOnce
