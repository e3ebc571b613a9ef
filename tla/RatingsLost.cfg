\* A handler stops between its INSERT and its look for the other rating.
SPECIFICATION Spec
CONSTANTS
  a = a
  b = b
  s1 = s1
  Users = {a, b}
  NoUser = NoUser
  Rides = {r1}
  NoRide = NoRide
  Party <- MCParty
  Fare <- MCFare
  Known = {a, b}
  Servers = {s1}
  MaxJobs = 1
  MaxStalls = 1
  Overlap = FALSE
  Failures = TRUE
  Calls = {c1, c2}
  ServerOf <- MCServerOf
  Scores = {2, 5}
INVARIANT BothRatedAreRevealed
SYMMETRY Symmetry
CHECK_DEADLOCK FALSE
