SPECIFICATION PolicySpec
CONSTANTS
  Person = {ann, bob}
  Segment = {quiet}
  CoverageGated = {quiet}
  Terms <- SomeTerms
  Mode = {"current", "historical"}
  MaxClock = 1
  MaxInbox = 2
  MaxPublications = 2
  MaxPermissions = 2
INVARIANTS
  ActiveIsNewestCurrent
PROPERTIES
  AuthorityMovesForward
  RefusalIsFinal
  HistoryIsInert
