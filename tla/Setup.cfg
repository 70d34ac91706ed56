SPECIFICATION Spec
CONSTANTS
  MaxDeaths = 3
  MaxAttempts = 3
INVARIANTS
  ServicesAgree
  ReportIsOfOneRun
PROPERTIES
  KeptOnRestart
  Recovers
