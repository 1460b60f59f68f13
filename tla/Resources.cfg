SPECIFICATION Spec
CONSTANTS
  Grammar <- MCGrammar
  Numerals <- MCNumerals
  EnvNames <- MCEnvNames
  Threads = {t1, t2}
  Requests <- MCRequests
  Canonical <- MCCanonical
  Domain = "example.test"
  Secrets = {"s1", "s2"}
  MaxRequests = 3
  MaxTroubles = 1
  None = none
INVARIANTS TypeOK FailedLaunchLeavesNothing MetadataMatchesRepository ServedAsAsked
CHECK_DEADLOCK FALSE
