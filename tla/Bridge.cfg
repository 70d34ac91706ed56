SPECIFICATION Spec
CONSTANTS
  Person = {"ann"}
  FactId = {"a"}
  Offered <- SomeVersions
  Asserted <- SomeAssertions
  Rules <- TheRules
  Terms <- SomeTerms
  Mode = {"current", "historical"}
  BatchSize = 1
  MaxInbox = 3
  MaxClock = 2
  MaxPublications = 2
  MaxPermissions = 1
INVARIANTS
  DecisionsAreOracle
  EligibilityIsOracle
PROPERTIES
  ReplayIsTheStore
  EvaluationFitsTheJournal
