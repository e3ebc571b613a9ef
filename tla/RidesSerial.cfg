\* Calls and jobs on a ride run one at a time; failures and restarts stay.
SPECIFICATION Spec
CONSTANTS
  driver = driver
  Passengers = {p1, p2}
  Users <- MCUsers
  NoUser = NoUser
  Rides = {r1}
  NoRide = NoRide
  Calls = {c1}
  TokenRoles <- MCTokenRoles
  MaxTime = 2
  MaxStalls = 1
  Overlap = FALSE
INVARIANTS
  MatchSettlesRequests
  TheMatchedFindTheirRide
  ActiveRidesCanEnd
PROPERTY ImplementsLifecycle
CHECK_DEADLOCK FALSE
