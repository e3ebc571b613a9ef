\* An administrator and a passenger, one report, two handlers at a time, two decisions.
SPECIFICATION Spec
CONSTANTS
  Users = {a1, u1}
  Admins = {a1}
  SuperAdmins = {}
  Reports = {r1}
  Reporter <- MCReporter
  Calls = {c1, c2}
  MaxDecisions = 2
INVARIANTS
  RolesFollowProfiles
  NoRiderUnreviewed
  AuditIsComplete
  DashboardAgreesWithTheLists
PROPERTIES
  DecidedStaysDecided
SYMMETRY Symmetric
CHECK_DEADLOCK FALSE
