SPECIFICATION Spec
CONSTANTS
  code = code
  light = light
  Cards = {code}
  CodeCards = {code}
  Passes = {1}
  Starves = FALSE
  WritesLag = FALSE
  MaxLaunches = 3
  MaxCrashes = 2
INVARIANTS OneOwnerPerSession ResumedOnce
PROPERTIES CleanupSparesRuns PassesSpareEntries
CHECK_DEADLOCK FALSE
