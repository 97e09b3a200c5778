SPECIFICATION Spec
CONSTANTS
  Jobs <- MCJobs
  MaxPileUp = 2
INVARIANTS
  PlaybackRepeatsTheMixing
  SourcesReadInOrder
  PileUpIsInItsBunch
