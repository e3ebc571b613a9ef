------------------------------ MODULE Accounts ------------------------------
(***************************************************************************)
(* UsersService, AdminService and ReportsService on the tables they share: *)
(* a user's role and standing, the rider profile an administrator decides  *)
(* on, reports and the audit log.  The role reaches RolesGuard through the *)
(* access token, which keeps the role of the moment it was issued.         *)
(*                                                                         *)
(* An action is the code between two awaits.  Names, documents, notes and  *)
(* times decide nothing and are left out, and so are updateMe and          *)
(* updateRiderProfile, which write nothing else.                           *)
(***************************************************************************)
EXTENDS Integers, FiniteSets, Functions

CONSTANTS
  Users,
  Admins,      \* the users that start out as administrators
  SuperAdmins, \* and as super administrators
  Reports,     \* reports that may be submitted
  Reporter,    \* and who submits each
  Calls,       \* slots for handlers executing at the same time
  MaxDecisions \* bound on what the administrators decide

ASSUME AccountsAssumption ==
  /\ Admins \subseteq Users /\ SuperAdmins \subseteq Users
  /\ Admins \cap SuperAdmins = {}
  /\ Users \cap Reports = {}
  /\ Reporter \in [Reports -> Users]
  /\ IsFiniteSet(Calls)
  /\ MaxDecisions \in Nat

VARIABLES
  user,     \* table users: role, suspension, soft deletion
  badges,   \* the roles in a user's valid access tokens
  profile,  \* table rider_profiles: verificationStatus
  report,   \* table reports: status
  audits,   \* rows of audit_logs on each user and report
  told,     \* decisions on their profile users are notified of
  decided,  \* history: decisions written on each user and report
  lost,     \* history: those whose audit row never came
  held,     \* history: the roles a user's row has had
  approved, \* history: the users whose profile was approved at some time
  call      \* what each executing handler does next

vars == <<user, badges, profile, report, audits, told, decided, lost, held, approved,
          call>>

Roles == {"PASSENGER", "RIDER", "ADMIN", "SUPER_ADMIN"}
Targets == Users \cup Reports
Row == [role : Roles, suspended : BOOLEAN, deleted : BOOLEAN]
Call == [step : {"idle", "createRiderProfile", "softDelete", "suspend", "unsuspend",
                 "approve", "reject", "resolve", "dismiss", "createReport",
                 "audit", "auditAndTell", "tell"},
         on : Targets \cup {"nothing"}]

Idle == [step |-> "idle", on |-> "nothing"]

FirstRole(u) ==
  IF u \in SuperAdmins THEN "SUPER_ADMIN" ELSE IF u \in Admins THEN "ADMIN" ELSE "PASSENGER"

Init ==
  /\ user = [u \in Users |->
               [role |-> FirstRole(u), suspended |-> FALSE, deleted |-> FALSE]]
  /\ badges = [u \in Users |-> {}]
  /\ profile = [u \in Users |-> "none"]
  /\ report = [r \in Reports |-> "none"]
  /\ audits = [x \in Targets |-> 0]
  /\ told = [u \in Users |-> 0]
  /\ decided = [x \in Targets |-> 0]
  /\ lost = [x \in Targets |-> 0]
  /\ held = [u \in Users |-> {FirstRole(u)}]
  /\ approved = {}
  /\ call = [k \in Calls |-> Idle]

-----------------------------------------------------------------------------
Begin(k, step, x) ==
  call[k] = Idle /\ call' = [call EXCEPT ![k] = [step |-> step, on |-> x]]
GoOn(k, step) == call' = [call EXCEPT ![k].step = step]
Return(k) == call' = [call EXCEPT ![k] = Idle]
At(k, step) == call[k].step = step

History == <<held, approved>>
Tables == <<user, profile, report, audits, decided, held, approved>>
\* The token's role, as RolesGuard sees it, and not the row's.
MayAdminister(a) == badges[a] \cap {"ADMIN", "SUPER_ADMIN"} # {}

\* The roles AuthService.issueTokens may sign: its callers have read the row some
\* awaits ago, and the role of that time goes into the token.  login and
\* refreshTokens refuse a user who was suspended or deleted then, verifyEmail asks
\* for neither; module Auth has those guards, and here a token is issued anyway.
RolesInTokensSlip(u) == IF profile[u] # "none" THEN {"RIDER"} ELSE held[u]
RolesInTokens(u) == held[u]

IssueTokens(u) ==
  /\ \E role \in RolesInTokens(u) \ badges[u] :
       badges' = [badges EXCEPT ![u] = @ \cup {role}]
  /\ UNCHANGED <<Tables, told, lost, call>>

TokenExpires(u) ==
  /\ \E role \in badges[u] : badges' = [badges EXCEPT ![u] = @ \ {role}]
  /\ UNCHANGED <<Tables, told, lost, call>>

-----------------------------------------------------------------------------
(* The handlers up to their first await, where they go on at all.          *)

Signed(u) == badges[u] # {}

CreateRiderProfile(k, u) ==
  /\ Signed(u) /\ profile[u] = "none"
  /\ Begin(k, "createRiderProfile", u)
  /\ UNCHANGED <<Tables, badges, told, lost>>

DeleteMe(k, u) ==
  /\ Signed(u) /\ ~user[u].deleted
  /\ Begin(k, "softDelete", u)
  /\ UNCHANGED <<Tables, badges, told, lost>>

\* The ride it may name exists or the handler returns.
SubmitReport(k, r, reported) ==
  /\ Signed(Reporter[r]) /\ Reporter[r] # reported
  /\ Begin(k, "createReport", r)
  /\ UNCHANGED <<Tables, badges, told, lost>>

SuspensionGuard(u) == user[u].role # "SUPER_ADMIN"

SuspendUser(k, u, step) ==
  /\ step \in {"suspend", "unsuspend"}
  /\ SuspensionGuard(u)
  /\ Begin(k, step, u)
  /\ UNCHANGED <<Tables, badges, told, lost>>

VerifyRider(k, u, step) ==
  /\ step \in {"approve", "reject"}
  /\ profile[u] # "none"
  /\ Begin(k, step, u)
  /\ UNCHANGED <<Tables, badges, told, lost>>

ResolveReport(k, r, step) ==
  /\ step \in {"resolve", "dismiss"}
  /\ report[r] # "none"
  /\ Begin(k, step, r)
  /\ UNCHANGED <<Tables, badges, told, lost>>

-----------------------------------------------------------------------------
(* Their writes.                                                           *)

\* One profile a user: the second INSERT throws.
InsertProfile(k) ==
  /\ At(k, "createRiderProfile")
  /\ profile' = IF profile[call[k].on] = "none"
                THEN [profile EXCEPT ![call[k].on] = "PENDING"] ELSE profile
  /\ Return(k)
  /\ UNCHANGED <<user, badges, report, audits, told, decided, lost, History>>

SoftDelete(k) ==
  /\ At(k, "softDelete")
  /\ user' = [user EXCEPT ![call[k].on].deleted = TRUE]
  /\ Return(k)
  /\ UNCHANGED <<badges, profile, report, audits, told, decided, lost, History>>

InsertReport(k) ==
  /\ At(k, "createReport")
  /\ report[call[k].on] = "none"
  /\ report' = [report EXCEPT ![call[k].on] = "OPEN"]
  /\ Return(k)
  /\ UNCHANGED <<user, badges, profile, audits, told, decided, lost, History>>

MayDecide == FoldFunction(+, 0, decided) < MaxDecisions
Decide(x) == MayDecide /\ decided' = [decided EXCEPT ![x] = @ + 1]

WriteSuspension(k) ==
  /\ At(k, "suspend") \/ At(k, "unsuspend")
  /\ user' = [user EXCEPT ![call[k].on].suspended = At(k, "suspend")]
  /\ Decide(call[k].on)
  /\ GoOn(k, "audit")
  /\ UNCHANGED <<badges, profile, report, audits, told, lost, History>>

GrantedRoleSlip(step, role) == IF step = "approve" THEN "RIDER" ELSE role
GrantedRole(step, role) == IF step = "approve" THEN "RIDER" ELSE "PASSENGER"

\* One transaction writes the profile and the role, whatever the role was.
WriteVerification(k) ==
  LET u == call[k].on
  IN  /\ At(k, "approve") \/ At(k, "reject")
      /\ profile' = [profile EXCEPT ![u] =
                       IF At(k, "approve") THEN "APPROVED" ELSE "REJECTED"]
      /\ approved' = approved \cup (IF At(k, "approve") THEN {u} ELSE {})
      /\ user' = [user EXCEPT ![u].role = GrantedRole(call[k].step, @)]
      /\ held' = [held EXCEPT ![u] = @ \cup {user'[u].role}]
      /\ Decide(u)
      /\ GoOn(k, "auditAndTell")
      /\ UNCHANGED <<badges, report, audits, told, lost>>

ResolvedSlip(step) == IF step = "resolve" THEN "RESOLVED" ELSE "OPEN"
Resolved(step) == IF step = "resolve" THEN "RESOLVED" ELSE "DISMISSED"

\* Also of a report that is closed already.
WriteResolution(k) ==
  /\ At(k, "resolve") \/ At(k, "dismiss")
  /\ report' = [report EXCEPT ![call[k].on] = Resolved(call[k].step)]
  /\ Decide(call[k].on)
  /\ GoOn(k, "audit")
  /\ UNCHANGED <<user, badges, profile, audits, told, lost, History>>

LoggedSlip(x) == IF x \in Reports THEN audits ELSE [audits EXCEPT ![x] = @ + 1]
Logged(x) == [audits EXCEPT ![x] = @ + 1]

LogAudit(k) ==
  /\ At(k, "audit") \/ At(k, "auditAndTell")
  /\ audits' = Logged(call[k].on)
  /\ IF At(k, "audit") THEN Return(k) ELSE GoOn(k, "tell")
  /\ UNCHANGED <<user, badges, profile, report, told, decided, lost, History>>

\* NotificationsService.send (module Notifications).
Tell(k) ==
  /\ At(k, "tell")
  /\ told' = [told EXCEPT ![call[k].on] = @ + 1]
  /\ Return(k)
  /\ UNCHANGED <<Tables, badges, lost>>

OwesAudit(k, x) == call[k].on = x /\ call[k].step \in {"audit", "auditAndTell"}

\* A call of the handler throws, or its server dies.
Abort(k) ==
  /\ call[k] # Idle
  /\ lost' = [x \in Targets |-> lost[x] + IF OwesAudit(k, x) THEN 1 ELSE 0]
  /\ Return(k)
  /\ UNCHANGED <<Tables, badges, told>>

-----------------------------------------------------------------------------
Start(k) ==
  \/ \E u \in Users :
       \/ CreateRiderProfile(k, u) \/ DeleteMe(k, u)
       \/ \E r \in Reports : SubmitReport(k, r, u)
  \/ \E a \in Users : /\ MayAdminister(a)
                      /\ \/ \E u \in Users, step \in {"suspend", "unsuspend"} :
                              SuspendUser(k, u, step)
                         \/ \E u \in Users, step \in {"approve", "reject"} :
                              VerifyRider(k, u, step)
                         \/ \E r \in Reports, step \in {"resolve", "dismiss"} :
                              ResolveReport(k, r, step)

Resume(k) ==
  \/ InsertProfile(k) \/ SoftDelete(k) \/ InsertReport(k)
  \/ WriteSuspension(k) \/ WriteVerification(k) \/ WriteResolution(k)
  \/ LogAudit(k) \/ Tell(k)

Next ==
  \/ \E k \in Calls : Start(k) \/ Resume(k) \/ Abort(k)
  \/ \E u \in Users : IssueTokens(u) \/ TokenExpires(u)

Spec == Init /\ [][Next]_vars

-----------------------------------------------------------------------------
(* What the administrators and the user read.                              *)

Present == {u \in Users : ~user[u].deleted}

\* getDashboardStats (rides are in RideViews).
CountsAllRiders ==
  [totalUsers |-> Cardinality(Present),
   totalRiders |-> Cardinality({u \in Users : user[u].role = "RIDER"}),
   pendingVerifications |-> Cardinality({u \in Users : profile[u] = "PENDING"}),
   openReports |-> Cardinality({r \in Reports : report[r] = "OPEN"})]
DashboardStats ==
  [totalUsers |-> Cardinality(Present),
   totalRiders |-> Cardinality({u \in Present : user[u].role = "RIDER"}),
   pendingVerifications |-> Cardinality({u \in Users : profile[u] = "PENDING"}),
   openReports |-> Cardinality({r \in Reports : report[r] = "OPEN"})]

\* getUsers; a filter that is not given lets all pass, and search is one of them.
GetUsers(role, suspended, found) ==
  {u \in Present \cap found : user[u].role \in role /\ user[u].suspended \in suspended}

GetPendingRiders == {u \in Users : profile[u] = "PENDING"}

GetReports(status) == {r \in Reports : report[r] \in status}

GetMyReports(u) == {r \in Reports : report[r] # "none" /\ Reporter[r] = u}

-----------------------------------------------------------------------------
(* What holds however handlers interleave and fail.                        *)

\* Values stay in their types.
AccountsTypeOK ==
  /\ user \in [Users -> Row]
  /\ badges \in [Users -> SUBSET Roles]
  /\ profile \in [Users -> {"none", "PENDING", "APPROVED", "REJECTED"}]
  /\ report \in [Reports -> {"none", "OPEN", "RESOLVED", "DISMISSED"}]
  /\ audits \in [Targets -> Nat] /\ decided \in [Targets -> Nat] /\ lost \in [Targets -> Nat]
  /\ told \in [Users -> Nat]
  /\ held \in [Users -> SUBSET Roles] /\ approved \subseteq Users
  /\ call \in [Calls -> Call]

\* "Approval is what actually grants the RIDER role", and rejection takes it,
\* in whatever order administrators overlap.
RolesFollowProfiles ==
  \A u \in Users :
    user[u].role = CASE profile[u] = "APPROVED" -> "RIDER"
                     [] profile[u] = "REJECTED" -> "PASSENGER"
                     [] OTHER -> FirstRole(u)

\* "Unverified users cannot post rides": the role in a valid token is RIDER only
\* for a user whose profile an administrator approved, and whose profile has stayed
\* decided since.  The token may be older, or even younger, than a rejection.
NoRiderUnreviewed ==
  \A u \in Users : "RIDER" \in badges[u] =>
    u \in approved /\ profile[u] \in {"APPROVED", "REJECTED"}

\* Of everything the administrators decide there is an audit row, is about to be
\* one, or its write failed; and nobody is told what is not in the log.
AuditIsComplete ==
  \A x \in Targets :
    /\ decided[x] = audits[x] + lost[x] + Cardinality({k \in Calls : OwesAudit(k, x)})
    /\ x \in Users => told[x] <= audits[x]

\* The queries behind the dashboard and behind the lists agree: the dashboard
\* counts a rider for every approved profile whose user is still there, and every
\* figure is the length of the list it leads to.
DashboardAgreesWithTheLists ==
  LET stats == DashboardStats
  IN  /\ stats.totalUsers = Cardinality(GetUsers(Roles, BOOLEAN, Users))
      /\ stats.totalRiders = Cardinality(GetUsers({"RIDER"}, BOOLEAN, Users))
      /\ stats.totalRiders = Cardinality({u \in Present : profile[u] = "APPROVED"})
      /\ stats.pendingVerifications = Cardinality(GetPendingRiders)
      /\ stats.openReports = Cardinality(GetReports({"OPEN"}))
      /\ \A u \in Users : GetMyReports(u) \subseteq GetReports({"OPEN", "RESOLVED", "DISMISSED"})

\* A decided profile is never back in the queue, nor a closed report in the open
\* list, although neither handler looks at the status it overwrites.
DecidedStaysDecided ==
  [][/\ \A u \in Users : profile[u] \in {"APPROVED", "REJECTED"}
                           => profile'[u] \in {"APPROVED", "REJECTED"}
     /\ \A r \in Reports : report[r] \in {"RESOLVED", "DISMISSED"}
                           => report'[r] \in {"RESOLVED", "DISMISSED"}]_vars
=============================================================================
