SPECIFICATION Spec
CONSTANTS
  Owner = Owner
  Master = Master
  None = None
  Runs = {r1, r2}
  IOVs = {iovA, iovB}
  UseMagneticField = TRUE
  MaxOpenRuns = 1
INVARIANT OpenRunIsReady
INVARIANT DestructFindsG4Stopped
INVARIANT ManagerDiesOnMaster
PROPERTY JobEnds
