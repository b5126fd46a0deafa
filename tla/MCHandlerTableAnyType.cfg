CONSTANTS
  MAX_HANDLERS = 2
  Type = {t1, t2, t3}
  Callback = {c1, c2}
  NULL = NULL

SPECIFICATION SpecAnyType

INVARIANT CallsRegistered
SYMMETRY Symmetric
