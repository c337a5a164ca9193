SPECIFICATION LiveSpec
CONSTANTS
  c1 = c1
  c2 = c2
  NoCard = NoCard
  Jobs <- AllJobs
  FinishedCards = {}
  Modes = {TRUE, FALSE}
  DataUnits = TRUE
  Judge = TRUE
  MaxRedrives = 1
  MaxEntries = 2
  MaxRetries = 1
  MaxThrows = 1
  MaxCrashes = 0
PROPERTY NoneWaitsForever
CHECK_DEADLOCK FALSE
