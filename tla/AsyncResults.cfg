SPECIFICATION FairSpec
CONSTANTS
  Ops = {o1, o2, o3}
  MaxFaults = 2
  MaxRestarts = 2
INVARIANTS
  TypeOK
  ResultIsHonest
PROPERTIES
  ResultIsFinal
  OperationSettles
  SuccessSettles
