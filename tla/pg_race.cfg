CONSTANTS
  Scopes = {s1}
  Recipients = {k1}
  Batches = {b1, b2, b3}
  Answers = {a1}
  None = None
SPECIFICATION Spec
SYMMETRY Symmetry
INVARIANTS
  NoDoubleSend
CHECK_DEADLOCK FALSE
