SPECIFICATION Spec
CONSTANTS
  Cards = {c1}
  Light = {"plan"}
  Heavy = {}
  Kind <- MCKind
  MaxRuns = 3
  MaxReleases = 1
  MaxConcurrent = 1
  LightMax = 1
  HeavyMax = 1
  ResumeMax = 2
  FallbackMax = 1
  RateMax = 1
  Isolation = TRUE
  Origins = {"conflict-redrive"}
  Recoveries = TRUE
  GateValues = {TRUE}
  LoadValues = {FALSE}
  Paces = {"normal"}
  None = None
INVARIANTS ChainDescends RedispatchAccepted
CHECK_DEADLOCK FALSE
