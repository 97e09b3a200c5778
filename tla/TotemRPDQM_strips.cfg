SPECIFICATION AllSpec
CONSTANTS
  NotPut = NotPut
  AScale = 4
  clusterSize_a = 11
  clusterSize_b = 36
  Pots <- TwoPots
  Planes <- SixPlanes
  IOVs = {1, 2}
  PlaneZ <- Z
  Shift <- Centres
  Events <- ThreeEvents
  minPlanesPerProjectionToSearch = 3
  minPlanesPerProjectionToFit = 3
  maxHitsPerPlaneToSearch = 2
  threshold0 = 3
  max_a_toFit = 8
  exceptionalSettings <- Settings
  AlignmentSetups <- MCSetups
  InputResolution = 2
  EndOfTime = 16
  SyncTimes = {0, 2, 5, 6, 8, 9, 11, 12, 15, 16}
  MaxSyncs = 3
  RootPart <- World
  Depth = 4
CHECK_DEADLOCK FALSE
INVARIANT TracksAreTheirHits
INVARIANT PlotsShowTheTracks
INVARIANT CorrectionsAreTheSum
INVARIANT GeometryFollowsAlignment
