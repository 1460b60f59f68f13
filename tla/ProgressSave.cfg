SPECIFICATION FairSpec
CONSTANTS
  Workers = {w1, w2}
  Handlers = {h1}
  Statuses = {in_progress, running, stopping}
  Allowed = {in_progress}
  Metadata = {m1, m2}
  Progress = {p1, p2}
  MaxVersion = 2
  Gone = Gone
CHECK_DEADLOCK FALSE
INVARIANTS
  TypeOK
  SeenIsCurrent
PROPERTIES
  AtomicGuardedSave
  SaveReturns
