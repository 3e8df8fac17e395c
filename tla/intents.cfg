CONSTANTS
  Scopes = {s1}
  Recipients = {k1, k2}
  Batches = {b1, b2, b3}
  None = None
  Restores = TRUE
SPECIFICATION Spec
SYMMETRY Symmetry
CONSTRAINT RestoresBesideOne
INVARIANTS
  TypeOK
  NoDoubleSend
PROPERTIES
  SentStands
