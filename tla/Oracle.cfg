SPECIFICATION StoreSpec
CONSTANTS
  Person = {"ann"}
  FactId = {"a", "b"}
  Offered <- SomeVersions
  Asserted <- SomeAssertions
  BatchSize = 1
  MaxBatches = 4
  Rules <- SomeRules
  Horizon = 6
INVARIANTS
  EvaluationIsOracle
  NothingChangesBeforeDue
  GateIsOracle
  GateTurnsWhenDue
PROPERTIES
  KnowledgeIsFinal
