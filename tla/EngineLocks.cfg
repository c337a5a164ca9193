SPECIFICATION Spec
CONSTANTS
  Cards = {c1, c2}
  Light = {"plan"}
  Heavy = {"do", "review"}
  Kind <- MCKind
  MaxRuns = 3
  MaxReleases = 1
  MaxConcurrent = 2
  LightMax = 1
  HeavyMax = 2
  ResumeMax = 1
  FallbackMax = 0
  RateMax = 2
  Isolation = TRUE
  Origins = {"manual"}
  Recoveries = FALSE
  GateValues = {TRUE}
  LoadValues = {FALSE}
  Paces = {"normal"}
  None = None
SYMMETRY CardSymmetry
INVARIANTS TypeOK SlotsCounted LockIsExact LiveIsKillable OneCodeRunPerCard
CHECK_DEADLOCK FALSE
