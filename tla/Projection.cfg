SPECIFICATION ProjectionSpec
CONSTANTS
  Person = {"ann"}
  FactId = {"a"}
  Offered <- SomeVersions
  Asserted <- SomeAssertions
  BatchSize = 1
  MaxBatches = 3
  Rules <- SomeRules
  MaxClock = 2
  MaxGenerations = 3
  Foreign <- SomeForeign
  Phantom <- SomePhantoms
INVARIANTS
  NextBundleIsTaken
PROPERTIES
  KeepsThePromise
