\* One ride, every interleaving of two handlers, the expiry worker, failures
\* and restarts.
SPECIFICATION Spec
CONSTANTS
  driver = driver
  Passengers = {p1, p2}
  Users <- MCUsers
  NoUser = NoUser
  Rides = {r1}
  NoRide = NoRide
  Calls = {c1, c2}
  TokenRoles <- MCTokenRoles
  MaxTime = 1
  MaxStalls = 0
  Overlap = TRUE
SYMMETRY Symmetry
INVARIANTS
  MatchedHasBothSides
  SidesHoldTheRightRole
  AcceptedHadAsked
  CompletionNeedsBothSides
  SearchShowsOpenRides
  CompletionInductive
PROPERTIES
  ImplementsCompletion
CHECK_DEADLOCK FALSE
