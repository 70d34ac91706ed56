SPECIFICATION DeliverySpec
CONSTANTS
  Person = {ann}
  Segment = {engaged}
  CoverageGated = {}
  Terms <- SomeTerms
  Mode = {"current"}
  MaxClock = 0
  MaxInbox = 1
  MaxPublications = 1
  MaxPermissions = 2
  MaxSeq = 2
  DriftSeq = {}
  Worker = {w1, w2}
  NoWorker = NoWorker
  NoJob = NoJob
  MaxAttempts = 2
  MaxChecks = 2
  MaxCrashes = 1
  MaxOverruns = 1
SYMMETRY Workers
INVARIANTS
  TypeOK
  PostBudget
  PostingIsAuthorized
  ConfirmedIsCommitted
  CommittedWasApproved
  MembershipIsNewest
PROPERTIES
  SettledIsFinal
