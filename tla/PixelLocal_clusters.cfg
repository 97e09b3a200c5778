SPECIFICATION AllSpec
CONSTANTS
  None = None
  ROCSizeInX = 2
  ROCSizeInY = 1
  Detectors = {1, 2}
  Events <- TwoEvents
  DeadPixelSets <- OnePixel
  RPixDummyROCThreshold = 1900
  RPixDummyROCElectronPerADC = 210
  SeedADCThreshold = 50
  ADCThreshold = 10
  ElectronADCGain = 135
  MAXSIZE = 3
  MAXSPAN = 2
CHECK_DEADLOCK FALSE
INVARIANT ClustersAreComponents
INVARIANT PixelsShowTheEvent
INVARIANT HitsDescribeTheirClusters
