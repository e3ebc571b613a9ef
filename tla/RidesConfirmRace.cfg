\* Driver and passenger confirm at the same time.
SPECIFICATION Spec
CONSTANTS
  driver = driver
  Passengers = {p1}
  Users <- MCUsers
  NoUser = NoUser
  Rides = {r1}
  NoRide = NoRide
  Calls = {c1, c2}
  TokenRoles <- MCTokenRoles
  MaxTime = 1
  MaxStalls = 0
  Overlap = TRUE
INVARIANT ConfirmedMeansCompleted
CHECK_DEADLOCK FALSE
