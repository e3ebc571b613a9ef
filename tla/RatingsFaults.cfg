\* Ratings, settlement, failing calls and crashes.
SPECIFICATION Spec
CONSTANTS
  a = a
  b = b
  s1 = s1
  Users = {a, b}
  NoUser = NoUser
  Rides = {r1}
  NoRide = NoRide
  Party <- MCParty
  Fare <- MCFare
  Known = {}
  Servers = {s1}
  MaxJobs = 1
  MaxStalls = 0
  Overlap = TRUE
  Failures = TRUE
  Calls = {c1, c2}
  ServerOf <- MCServerOf
  Scores = {2, 5}
INVARIANTS
  RatingsTypeOK
  RatingsStand
  RevealIsMutual
SYMMETRY Symmetry
CHECK_DEADLOCK FALSE
