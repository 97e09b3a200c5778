CONSTANTS
  MaxPrimaries = 2
  MaxTracks = 4
  MaxSecondaries = 2
  MaxEvents = 2
  Positions = {x1, x2}
  Decays = FALSE
  Transported = {1}
  MaxHits = 2
  Jobs <- MCJobs
  MaxG4Tracks = 4
  MaxSteps = 3
  MaxG4Events = 2
  MaxParticles = 2
  MaxGenEvents = 2
  TransportJobs <- MCTransportJobs
  PhysicsJobs <- MCPhysicsJobs
  FastTracks <- MCFastTracks
  Profiles <- MCProfiles
  EnergyCutOff = 1
  Scale <- MCScale
  MaxFastSteps = 2
SPECIFICATION AllSpec
SYMMETRY PositionSymmetry
INVARIANTS
  BranchIsSaved MotherIsNearestStored TracksHaveTheirVertices
  HitsAreDeposits TracksLiveByTheRules PrimariesAreTraced FastSimulationIsAsAsked
CHECK_DEADLOCK FALSE
