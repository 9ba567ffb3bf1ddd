CONSTANTS
  r1 = r1
  c1 = c1
  c2 = c2
  c3 = c3
  e1 = e1
  e2 = e2
  e3 = e3
  Rank = {r1}
  Comm = {c1, c2}
  Ep = {e1}
  Home <- OneRankHome
  EpHome <- OneRankEpHome
  Dev = {0}
  NULL = NULL
  TAG_MAX = 2
  ClosesUnaccepted = FALSE
  RecvBuf = 2
  NUM_REQUESTS = 2
  MaxCalls = 3
  OrderedMq = TRUE
  DrainsBeforeClose = TRUE
SPECIFICATION SharedFairSpec
INVARIANTS
  XferTypeOK
  NthReceiveGetsNthSend
PROPERTIES
  ImplementsChannel
  SizeIsOfNthSend
  CompletionReported
  FullSenderRecovers
