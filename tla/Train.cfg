SPECIFICATION Spec
CONSTANTS
  c1 = c1
  c2 = c2
  NoCard = NoCard
  Jobs <- MixedJobs
  FinishedCards = {}
  Modes = {TRUE, FALSE}
  DataUnits = TRUE
  Judge = FALSE
  MaxRedrives = 1
  MaxEntries = 2
  MaxRetries = 0
  MaxThrows = 0
  MaxCrashes = 1
INVARIANTS OneAtATime 
PROPERTIES KeepsPromise 
CHECK_DEADLOCK FALSE
