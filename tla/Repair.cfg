SPECIFICATION RepairSpec
CONSTANTS
  Person = {ann}
  Segment = {engaged}
  CoverageGated = {}
  Terms <- SomeTerms
  Mode = {"current"}
  MaxClock = 0
  MaxInbox = 1
  MaxPublications = 1
  MaxPermissions = 3
  MaxSeq = 3
  DriftSeq = {2}
  Worker = {w1}
  NoWorker = NoWorker
  NoJob = NoJob
  MaxAttempts = 1
  MaxChecks = 1
  MaxCrashes = 0
  MaxOverruns = 0
INVARIANTS
  BlockedIsObsolete
  RepairIsActionable
PROPERTIES
  MembershipMovesForward
  KeepsThePromise
