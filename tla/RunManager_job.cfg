SPECIFICATION Spec
CONSTANTS
  None = None
  NumRuns = 3
  MaxEvents = 3
  IOVs = {iovA, iovB}
  UseMagneticField = TRUE
  StopFileAllowed = TRUE
INVARIANT EventGetsItsOwnTracks
INVARIANT SimulatedInItsGeometry
INVARIANT EndedOnce
