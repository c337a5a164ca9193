SPECIFICATION LiveSpec
CONSTANTS
  c1 = c1
  p1 = p1
  p2 = p2
  NoProc = NoProc
  NoAsk = NoAsk
  Procs <- OneProcess
  Asks <- BothWays
  BootFirst = TRUE
  MaxPerCard = 1
  MaxPerBoard = 2
  MaxRequests = 2
  MaxCrashes = 1
  MaxFaults = 1
INVARIANT RecordTells
PROPERTIES FinalStays DecidedSettles
CHECK_DEADLOCK FALSE
