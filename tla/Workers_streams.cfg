SPECIFICATION Spec
CONSTANTS
  None = None
  Threads = {t0, t1}
  MainThread = t0
  Streams = {s1, s2}
  NumRuns = 3
  MaxEvents = 3
INVARIANT EventGetsItsOwnTracks
INVARIANT EngineOfTheStream
INVARIANT RunSignalsPaired
