CONSTANTS
  r1 = r1
  r2 = r2
  c1 = c1
  c2 = c2
  c3 = c3
  e1 = e1
  e2 = e2
  e3 = e3
  t1 = t1
  t2 = t2
  Rank = {r1}
  Comm = {c1, c2}
  Ep = {e1, e2}
  Home <- OneRankHome
  EpHome <- OneRankEpHome
  Dev = {0}
  NULL = NULL
  TAG_MAX = 2
  ClosesUnaccepted = FALSE
  Thread = {t1, t2}
  ThreadRank <- BothThreads
  Serialised = FALSE
SPECIFICATION StepsSpec
INVARIANT OneEndpointPerRank
