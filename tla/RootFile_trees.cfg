SPECIFICATION AllSpec
CONSTANTS
  Jobs <- SomeJobs
  Streams = {1, 2}
  Products = {"p", "q"}
  MaxJumps = 1
  Openings <- SomeOpenings
  FileStreams = {1, 2}
  CurrentRelease = 5
  MaxReads = 3
INVARIANT StreamsReadTheirEvents
INVARIANT FilesAreReadAsWritten
