CONSTANTS
  JobNames = {1, 2}
  JobAdders = {a1, a2}
  NoJob = NoJob
  JobIntervals = {0, 2}
  CronPeriod = 3
  JobHorizon = 4
  MaxJobCommands = 2
  MaxJobFaults = 1
  MaxJobCrashes = 1
  MaxExecs = 2
  MaxExecSessions = 2
  OutputCap = 1
  MaxWritten = 2
  MaxIterations = 2
  MaxToolCalls = 1
  PatchPaths = {"p", "q"}
  PatchInputs <- Patches
  PatchLines <- LinesOfPatches
  Absent = Absent
  NoPath = NoPath
  NoContext = NoContext
  BlankLine <- Blank
SPECIFICATION FairSpec
CHECK_DEADLOCK FALSE
INVARIANTS
  JobCommandsStick
  OutputIsReturned
  PatchesAreAppliedInPart
  ChunksKeepTheRest
PROPERTIES
  JobsRunOncePerSlot
  DueJobsAreRun
  ToolTurnEnds
