\* Two ratings at a time, nothing fails, both users have statistics.
SPECIFICATION Spec
CONSTANTS
  a = a
  b = b
  s1 = s1
  Users = {a, b}
  NoUser = NoUser
  Rides = {r1}
  NoRide = NoRide
  Party <- MCParty
  Fare <- MCFare
  Known = {a, b}
  Servers = {s1}
  MaxJobs = 1
  MaxStalls = 0
  Overlap = FALSE
  Failures = FALSE
  Calls = {c1, c2}
  ServerOf <- MCServerOf
  Scores = {2, 5}
INVARIANTS
  BothRatedAreRevealed
  AverageIsOfTheList
  TrustFollowsStats
SYMMETRY Symmetry
CHECK_DEADLOCK FALSE
