SPECIFICATION Spec
CONSTANTS
  Jobs <- SomeJobs
  SkipBadFiles = TRUE
  LumisToSkip <- SkipLumi
  EventsToSkip <- SkipEvent
  Offsets <- Steps
  MaxJumps = 2
  MaxRewinds = 1
INVARIANT EveryPassReadsTheEvents
PROPERTY JumpsLand
