CONSTANTS
  b1 = b1
  b2 = b2
  b3 = b3
  b4 = b4
  Block = {b1, b2}
  NULL = NULL
  Junk = Junk
  Hfi = {0, 1}
  MAX_DEV = 2
  Word = {0, 1}
SPECIFICATION Spec
SYMMETRY Symmetry
INVARIANT FreesOnlyItsOwn
