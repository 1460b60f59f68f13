SPECIFICATION FairSpec
CONSTANTS
  Builders = {b1, b2}
  Playgrounds = {g1, g2, g3}
  Props = {g1, g2}
  Services <- MCServices
  Digests = {d1, d2}
  MaxCommit = 1
  MaxMishaps = 1
  None = none
INVARIANTS TypeOK NoWaitCycle 
PROPERTIES BuildEnds 
CHECK_DEADLOCK FALSE
