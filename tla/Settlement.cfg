\* Overlapping confirmations, failing jobs, crashes; one ride with up to two jobs, one server.
SPECIFICATION FairSettlementSpec
CONSTANTS
  a = a
  b = b
  c = c
  r1 = r1
  r2 = r2
  Users = {a, b, c}
  NoUser = NoUser
  Rides = {r1}
  NoRide = NoRide
  Party <- MCParty
  Fare <- MCFare
  Known = {}
  Servers = {s1}
  MaxJobs = 2
  MaxStalls = 1
  Overlap = TRUE
  Failures = TRUE
INVARIANTS
  SettledRidesAreCounted
  BooksBalance
  CountedOncePerAttempt
  OnePaymentPerRide
PROPERTY CompletionJobEnds
CHECK_DEADLOCK FALSE
