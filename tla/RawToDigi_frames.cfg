SPECIFICATION AllSpec
CONSTANTS
  calculateCRC <- Checksum
  Jobs <- SomeJobs
  Events <- SomeEvents
  Files <- SomeFiles
  Sources <- SomeSources
  Malformed <- MalformedFiles
  TriggerEvents <- SomeTriggers
  Inputs = {{}, {"fedInfo"}, {"triggerCounters"}, {"fedInfo", "triggerCounters"}}
  MaxTriggers = 2
INVARIANT EventIsUnpacked
INVARIANT MappingIsTheBlocks
INVARIANT OnlyFaultsStopTheJob
