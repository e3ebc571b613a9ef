\* A chat of two messages beside one ride, its expiry worker and three users,
\* restarts and failing writes.
SPECIFICATION ChatSpec
CONSTANTS
  driver = driver
  Passengers = {p1, p2}
  Users <- MCUsers
  NoUser = NoUser
  Rides = {r1}
  NoRide = NoRide
  Calls = {c1}
  TokenRoles <- MCTokenRoles
  MaxTime = 1
  MaxStalls = 0
  Overlap = TRUE
  Sockets = {s1}
  MaxMessages = 2
  Retention = 0
INVARIANTS
  ChatTypeOK
  PartiesTalk
  PagesTellTheStory
SYMMETRY Symmetry
CHECK_DEADLOCK FALSE
