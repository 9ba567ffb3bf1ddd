CONSTANTS
  r1 = r1
  c1 = c1
  c2 = c2
  c3 = c3
  e1 = e1
  e2 = e2
  e3 = e3
  Rank = {r1}
  Comm = {c1, c2, c3}
  Ep = {e1, e2, e3}
  Home <- OneRankHome
  EpHome <- OneRankEpHome
  Dev = {0, 1}
  NULL = NULL
  TAG_MAX = 3
  ClosesUnaccepted = TRUE
SPECIFICATION SharedSpec
SYMMETRY OneRankSymmetry
INVARIANT HeldIffLive
