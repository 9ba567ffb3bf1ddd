CONSTANTS
  FlagTokens = {"unset", "", "0", "1", "10"}
  PolicyTokens = {"unset", "", "error", "w", "junk"}
  LevelTokens = {"unset", "1", "10", "junk"}
  Process = Process
  c1 = c1
  c2 = c2
  e1 = e1
  e2 = e2
  Comm = {c1, c2}
  Ep = {e1, e2}
  Dev = {0, 1}
  NULL = NULL
  TAG_MAX = 2
  ClosesUnaccepted = TRUE
SPECIFICATION BoundedSpec
SYMMETRY Symmetry
INVARIANTS
  PluginTypeOK
  GpuPointersNeedPsm2
  SettingsFollowEnvironment
  DeviceAsAsked
PROPERTY RunsAsConfigured
