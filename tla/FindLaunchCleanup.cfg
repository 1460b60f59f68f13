SPECIFICATION Spec
CONSTANTS
  Grammar <- MCGrammar
  Numerals <- MCNumerals
  EnvNames <- MCEnvNames
  Threads = {t1, t2}
  Requests <- MCRacingLaunches
  Canonical <- MCCanonical
  Domain = "example.test"
  Secrets = {"s1"}
  MaxRequests = 2
  MaxTroubles = 0
  None = none
INVARIANT PlaygroundKeepsPlayspec
CHECK_DEADLOCK FALSE
