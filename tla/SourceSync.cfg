SPECIFICATION SpecSources
CONSTANTS
  Threads = {t1, t2}
  Keys = {k1}
  Entries = {e1, e2}
  Commits = {c1, c2}
  MaxTrouble = 4
  None = None
INVARIANTS
  SourcesTypeOK
  CheckoutIsWhole

  
