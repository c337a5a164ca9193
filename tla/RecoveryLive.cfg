SPECIFICATION LiveSpec
CONSTANTS
  code = code
  light = light
  Cards = {code}
  CodeCards = {code}
  Passes = {1}
  Starves = FALSE
  WritesLag = FALSE
  MaxLaunches = 2
  MaxCrashes = 1
PROPERTY InterruptedDecided
CHECK_DEADLOCK FALSE
