SPECIFICATION FairSpec
CONSTANTS
  Creators = {c1}
  Operators = {o1, o2}
  Stoppers = {p1}
  Deleters = {}
  Patchers = {}
  OpKinds = {"rollout", "start"}
  Forces = {FALSE}
  Playspecs = {s1}
  Overrides = {e1}
  Routed = TRUE
  MaxFaults = 0
  MaxRestarts = 0
  None = None
INVARIANTS
  StoppedIsDown
PROPERTIES
  StopSettles
