SPECIFICATION LiveSpec
CONSTANTS
  b1 = b1
  b2 = b2
  c1 = c1
  c2 = c2
  Boards = {b1, b2}
  Clear = {b2}
  Callers = {c1}
  Overlaps = {TRUE, FALSE}
  MaxPushes = 1
  MaxAsks = 3
  MaxCrashes = 1
INVARIANTS PublishedIsOnMain CallsAreKept
PROPERTIES NeverAgain NotHeldBack
CHECK_DEADLOCK FALSE
