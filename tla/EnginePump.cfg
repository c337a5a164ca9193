SPECIFICATION FairSpec
CONSTANTS
  Cards = {c1, c2}
  Light = {"plan"}
  Heavy = {"review"}
  Kind <- MCKind
  MaxRuns = 2
  MaxReleases = 0
  MaxConcurrent = 2
  LightMax = 1
  HeavyMax = 1
  ResumeMax = 0
  FallbackMax = 0
  RateMax = 0
  Isolation = TRUE
  Origins = {"agent", "manual"}
  Recoveries = FALSE
  GateValues = {TRUE, FALSE}
  LoadValues = {TRUE, FALSE}
  Paces = {"slow", "paused"}
  None = None
INVARIANT NoStrandedWork
PROPERTIES SlowIsSerial OperatorServed HeldRunsSettle
CHECK_DEADLOCK FALSE
