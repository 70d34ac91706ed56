SPECIFICATION AuditSpec
CONSTANTS
  Person = {"ann"}
  FactId = {"a"}
  Offered <- SomeVersions
  Asserted = {}
  Rules <- TheRules
  Terms <- SomeTerms
  Mode = {"current", "historical"}
  BatchSize = 2
  MaxInbox = 2
  MaxClock = 1
  MaxPublications = 2
  MaxPermissions = 1
INVARIANTS
  SourceAlarmIsLate
  AlarmMeansMoved
