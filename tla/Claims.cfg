SPECIFICATION FairSpec
CONSTANTS
  k1 = k1
  r1 = r1
  s1 = s1
  s2 = s2
  Cards = {k1}
  RunActors = {r1}
  SessionActors = {s1, s2}
  Requests <- MCRequests
  Ttl <- MCTtl
  MaxTime = 3
  MaxPending = 2
  MaxCrashes = 1
INVARIANTS ReservationsExclude OnePerActor RunClaimsAreOfThisLife
PROPERTY LapsedIsFreed
CHECK_DEADLOCK FALSE
