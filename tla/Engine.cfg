SPECIFICATION EngineSpec
CONSTANTS
  Person = {"ann", "bob"}
  FactId = {"a", "b"}
  Offered <- SomeVersions
  Asserted <- SomeAssertions
  BatchSize = 2
  MaxBatches = 2
  Rules <- SomeRules
  MaxClock = 2
  MaxGenerations = 3
INVARIANTS
  GenerationsAreReproducible
  BundlesFormAChain
