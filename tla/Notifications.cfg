\* Two notifications for one user or for two, one device, two handlers and a push worker that may die.
SPECIFICATION FairSpec
CONSTANTS
  Users = {u1, u2}
  NoUser = NoUser
  Devices = {d1}
  MaxNotes = 2
  Calls = {c1, c2}
  Workers = {w1}
  MaxStalls = 1
INVARIANTS
  PushedAreMarked
  PushedOncePerAttempt
  FeedIsConsistent
PROPERTIES
  DeletedStaysSilent
  PushJobEnds
CHECK_DEADLOCK FALSE
