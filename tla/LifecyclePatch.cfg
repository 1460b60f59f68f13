SPECIFICATION Spec
CONSTANTS
  Creators = {c1}
  Operators = {}
  Stoppers = {}
  Deleters = {}
  Patchers = {h1, h2}
  OpKinds = {}
  Forces = {FALSE}
  Playspecs = {s1, s2}
  Overrides = {e1, e2}
  Routed = TRUE
  MaxFaults = 1
  MaxRestarts = 1
  None = None
SYMMETRY Symmetric
INVARIANTS
  RunningReflectsConfig
