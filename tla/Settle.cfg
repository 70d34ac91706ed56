SPECIFICATION FairDeliverySpec
CONSTANTS
  Person = {ann}
  Segment = {engaged}
  CoverageGated = {}
  Terms <- SomeTerms
  Mode = {"current"}
  MaxClock = 0
  MaxInbox = 1
  MaxPublications = 1
  MaxPermissions = 2
  MaxSeq = 1
  DriftSeq = {}
  Worker = {w1, w2}
  NoWorker = NoWorker
  NoJob = NoJob
  MaxAttempts = 3
  MaxChecks = 3
  MaxCrashes = 2
  MaxOverruns = 1
PROPERTIES
  Settles
