SPECIFICATION Spec
CONSTANTS
  Creators = {c1}
  Operators = {o1}
  Stoppers = {p1}
  Deleters = {d1}
  Patchers = {}
  OpKinds = {"rollout", "start"}
  Forces = {FALSE}
  Playspecs = {s1}
  Overrides = {e1}
  Routed = FALSE
  MaxFaults = 1
  MaxRestarts = 1
  None = None
INVARIANTS
  ActiveHasOwner
  DiagnosticsMatchStatus
