SPECIFICATION FairSpec
CONSTANTS
  Requests = {q1, q2}
  Kinds = {"deploy", "stop", "delete", "extend", "edit", "push", "refresh"}
  Guard = guard
  MaxClock = 1
  MaxMishaps = 1
  None = none
INVARIANTS TypeOK SweepSparesRows 
PROPERTIES  TreesAreReaped 
