SPECIFICATION FairSpec
CONSTANTS
  Creators = {c1, c2}
  Operators = {o1, o2}
  Stoppers = {}
  Deleters = {}
  Patchers = {}
  OpKinds = {"rollout", "start", "hard_restart"}
  Forces = {FALSE, TRUE}
  Playspecs = {s1}
  Overrides = {e1}
  Routed = TRUE
  MaxFaults = 2
  MaxRestarts = 1
  None = None
INVARIANTS
  TypeOK
  SingleDeployment
PROPERTIES
  DeploymentSettles
