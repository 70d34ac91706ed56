SPECIFICATION FairRepairSpec
CONSTANTS
  Person = {ann}
  Segment = {engaged}
  CoverageGated = {}
  Terms <- SomeTerms
  Mode = {"current"}
  MaxClock = 0
  MaxInbox = 1
  MaxPublications = 1
  MaxPermissions = 2
  MaxSeq = 4
  DriftSeq = {2}
  Worker = {w1}
  NoWorker = NoWorker
  NoJob = NoJob
  MaxAttempts = 1
  MaxChecks = 1
  MaxCrashes = 1
  MaxOverruns = 0
PROPERTIES
  Converges
