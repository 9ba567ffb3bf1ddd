CONSTANTS
  FlagTokens = {"unset", "", "0", "1", "10"}
  PolicyTokens = {"unset", "e", "error", "warn", "junk"}
  LevelTokens = {"unset", "1", "10", "junk"}
SPECIFICATION Spec
INVARIANT FlagsAreZeroOrOne
