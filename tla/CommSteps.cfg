CONSTANTS
  r1 = r1
  r2 = r2
  c1 = c1
  c2 = c2
  c3 = c3
  e1 = e1
  e2 = e2
  e3 = e3
  t1 = t1
  t2 = t2
  Rank = {r1, r2}
  Comm = {c1, c2, c3}
  Ep = {e1, e3}
  Home <- TwoRankHome
  EpHome <- TwoRankEpHome
  Dev = {0, 1}
  NULL = NULL
  TAG_MAX = 2
  ClosesUnaccepted = TRUE
  Thread = {t1, t2}
  ThreadRank <- ThreadEach
  Serialised = TRUE
SPECIFICATION EitherModeSpec
SYMMETRY TwoRankSymmetry
INVARIANTS
  StepsTypeOK
  HandleNamesOneSeenReceiver
  HeldEndpointsOpen
PROPERTY CallsAreAtomic
