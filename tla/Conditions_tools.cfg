CONSTANTS
  Clients = {c1, c2}
  Tags = {"T"}
  Commands <- MCCommands
  Files <- MCFiles
  Fcsr = 8
  LumisPerRun = 4
  MaxAttempts = 2
  FirstPayloads = {"h0", "h2"}
  FirstIovs <- MCFirstIovs
  FirstTimeType <- MCTimeType
  Jobs = {j1}
  Users = {u1}
  Destination <- MCDestination
  Arguments <- MCArguments
  MaxRuns <- MCMaxRuns
  FirstBases <- MCBases
  FirstStore <- MCStore
  KnownTypes = {"P"}
  Imports <- MCImports
  Copies <- MCCopies
  Edits <- MCEdits
  Grants <- MCGrants
  Reader = "reader"
  MaxTools = 2
  Entries <- MCEntries
  TagInfo <- MCTagInfo
  StoredHashes = {"g1", "g2"}
  StartTime <- MCStart
  StepTime <- MCStep
  Iterations = 5
  Fetchers = 2
  CaseTypes = {"P"}
  Deserializers = 2
SPECIFICATION Spec
INVARIANTS
  UploadsAreStored SuccessIsReported CopiesSayTheSource RequestsAreServed
SYMMETRY ClientsAreAlike
CHECK_DEADLOCK FALSE
