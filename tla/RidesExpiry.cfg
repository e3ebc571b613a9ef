\* The expiry worker against one client, a restart and a failing update.
SPECIFICATION FairSpec
CONSTANTS
  driver = driver
  Passengers = {p1}
  Users <- MCUsers
  NoUser = NoUser
  Rides = {r1}
  NoRide = NoRide
  Calls = {c1}
  TokenRoles <- MCTokenRoles
  MaxTime = 2
  MaxStalls = 1
  Overlap = TRUE
PROPERTY UnmatchedRideExpires
CHECK_DEADLOCK FALSE
