CONSTANTS
  Runs = {r1}
  PackRuns = {r1}
  Procs = {p1, p2, p3}
  Tasks = {t1, t2}
  Reqs = {q1, q2}
  Drafts = {c1, c2}
  None = None
  NGates = 2
  MaxAttempts = 1
  MaxUp = 1
  Stalls = FALSE
  Failing = {1, 2}
SPECIFICATION Spec
SYMMETRY Symmetry
INVARIANTS
  TypeOK
  OneExecutor
  ShownIsHeld
  CrashLoopBounded
  EffectDecided
  FirstGateAuthorised
  SentOnce
  RejectedSentNothing
PROPERTIES
  TerminalIsFinal
  RejectSticks
  KeepsThePromise
