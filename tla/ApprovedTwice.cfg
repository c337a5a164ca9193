SPECIFICATION Spec
CONSTANTS
  c1 = c1
  p1 = p1
  p2 = p2
  NoProc = NoProc
  NoAsk = NoAsk
  Procs <- TwoProcesses
  Asks <- WithUndo
  BootFirst = TRUE
  MaxPerCard = 1
  MaxPerBoard = 2
  MaxRequests = 1
  MaxCrashes = 2
  MaxFaults = 1
INVARIANT RunsOnce
PROPERTY UndoesWhatRan
SYMMETRY ProcessSymmetry
CHECK_DEADLOCK FALSE
