SPECIFICATION Spec
CONSTANTS
  Owner = Owner
  Master = Master
  None = None
  Runs = {r1, r2, r3}
  IOVs = {iovA}
  UseMagneticField = FALSE
  MaxOpenRuns = 3
INVARIANT MasterServesTheWaitingCaller
PROPERTY ServiceSpec
