--------------------------- MODULE AccountsProofs ---------------------------
(***************************************************************************)
(* Proofs about module Accounts, for any number of users, administrators,  *)
(* reports, handlers and decisions.                                        *)
(***************************************************************************)
EXTENDS Accounts, Counting

OnUsers == {"createRiderProfile", "softDelete", "suspend", "unsuspend",
            "approve", "reject", "auditAndTell", "tell"}
OnReports == {"createReport", "resolve", "dismiss"}

\* Handlers work on rows of the right table.
CallsInv ==
  \A k \in Calls :
    /\ call[k].step \in OnUsers => call[k].on \in Users
    /\ call[k].step \in OnReports => call[k].on \in Reports
    /\ call[k].step = "audit" => call[k].on \in Targets

Owing(x) == {k \in Calls : OwesAudit(k, x)}
Telling(x) == {k \in Calls : At(k, "tell") /\ call[k].on = x}

\* A handler that is about to notify a user has written its audit row.
ToldInv == \A u \in Users : told[u] + Cardinality(Telling(u)) <= audits[u]

LogInv == \A x \in Targets : decided[x] = audits[x] + lost[x] + Cardinality(Owing(x))

\* What a row has said, a handler that read it then may still sign.
HeldInv ==
  \A u \in Users : "RIDER" \in held[u] =>
    u \in approved /\ profile[u] \in {"APPROVED", "REJECTED"}

AccountsInv ==
  /\ AccountsTypeOK /\ CallsInv
  /\ RolesFollowProfiles /\ HeldInv /\ NoRiderUnreviewed
  /\ LogInv /\ ToldInv

-----------------------------------------------------------------------------
(* What a step does to the handlers.                                       *)

\* A new call reads and remembers, and has nothing to log yet.
LEMMA StartBegins ==
  ASSUME NEW k \in Calls, Start(k)
  PROVE  /\ UNCHANGED <<Tables, badges, told, lost>>
         /\ call[k] = Idle
         /\ \/ \E step \in OnUsers \ {"auditAndTell", "tell"}, x \in Users :
                 call' = [call EXCEPT ![k] = [step |-> step, on |-> x]]
            \/ \E step \in OnReports, x \in Reports :
                 call' = [call EXCEPT ![k] = [step |-> step, on |-> x]]
<1> USE DEF Begin, OnUsers, OnReports
<1>1. CASE \E u \in Users : CreateRiderProfile(k, u)
  BY <1>1 DEF CreateRiderProfile
<1>2. CASE \E u \in Users : DeleteMe(k, u)
  BY <1>2 DEF DeleteMe
<1>3. CASE \E u \in Users, r \in Reports : SubmitReport(k, r, u)
  BY <1>3 DEF SubmitReport
<1>4. CASE \E u \in Users, step \in {"suspend", "unsuspend"} : SuspendUser(k, u, step)
  BY <1>4 DEF SuspendUser
<1>5. CASE \E u \in Users, step \in {"approve", "reject"} : VerifyRider(k, u, step)
  BY <1>5 DEF VerifyRider
<1>6. CASE \E r \in Reports, step \in {"resolve", "dismiss"} : ResolveReport(k, r, step)
  BY <1>6 DEF ResolveReport
<1> QED
  BY <1>1, <1>2, <1>3, <1>4, <1>5, <1>6 DEF Start

LEMMA StepsTyped ==
  /\ Idle \in Call
  /\ \A x \in Targets, step \in OnUsers \cup OnReports \cup {"audit"} :
       [step |-> step, on |-> x] \in Call
  /\ \A c \in Call : /\ [c EXCEPT !.step = "audit"] \in Call
                     /\ [c EXCEPT !.step = "auditAndTell"] \in Call
                     /\ [c EXCEPT !.step = "tell"] \in Call
BY DEF Idle, Call, OnUsers, OnReports

LEMMA RowTyped ==
  ASSUME NEW row \in Row
  PROVE  /\ [row EXCEPT !.deleted = TRUE] \in Row
         /\ \A b \in BOOLEAN : [row EXCEPT !.suspended = b] \in Row
         /\ \A role \in Roles : [row EXCEPT !.role = role] \in Row
BY DEF Row

-----------------------------------------------------------------------------
(* Types.                                                                  *)

LEMMA TypeStep ==
  ASSUME AccountsTypeOK, CallsInv, [Next]_vars
  PROVE  AccountsTypeOK'
<1> USE DEF AccountsTypeOK, History
<1>1. ASSUME NEW k \in Calls, Start(k)
      PROVE  AccountsTypeOK'
  <2>1. call' \in [Calls -> Call]
    BY <1>1, StartBegins, StepsTyped DEF Targets
  <2> QED
    BY <1>1, <2>1, StartBegins DEF Tables
<1>2. ASSUME NEW k \in Calls, InsertProfile(k)
      PROVE  AccountsTypeOK'
  BY <1>2, StepsTyped DEF InsertProfile, Return
<1>3. ASSUME NEW k \in Calls, SoftDelete(k)
      PROVE  AccountsTypeOK'
  <2>1. call[k].on \in Users
    BY <1>3 DEF SoftDelete, At, CallsInv, OnUsers
  <2> QED
    BY <1>3, <2>1, StepsTyped, RowTyped DEF SoftDelete, Return
<1>4. ASSUME NEW k \in Calls, InsertReport(k)
      PROVE  AccountsTypeOK'
  BY <1>4, StepsTyped DEF InsertReport, Return
<1>5. ASSUME NEW k \in Calls, WriteSuspension(k)
      PROVE  AccountsTypeOK'
  <2>1. call[k].on \in Users
    BY <1>5 DEF WriteSuspension, At, CallsInv, OnUsers
  <2>2. user' \in [Users -> Row]
    BY <1>5, <2>1, RowTyped DEF WriteSuspension, At
  <2>3. decided' \in [Targets -> Nat]
    BY <1>5, <2>1 DEF WriteSuspension, Decide, Targets
  <2> QED
    BY <1>5, <2>2, <2>3, StepsTyped DEF WriteSuspension, GoOn
<1>6. ASSUME NEW k \in Calls, WriteVerification(k)
      PROVE  AccountsTypeOK'
  <2>1. call[k].on \in Users
    BY <1>6 DEF WriteVerification, At, CallsInv, OnUsers
  <2>2. user' \in [Users -> Row]
    BY <1>6, <2>1, RowTyped DEF WriteVerification, GrantedRole, Roles
  <2>3. decided' \in [Targets -> Nat]
    BY <1>6, <2>1 DEF WriteVerification, Decide, Targets
  <2>4. profile' \in [Users -> {"none", "PENDING", "APPROVED", "REJECTED"}]
    BY <1>6, <2>1 DEF WriteVerification
  <2>5. held' \in [Users -> SUBSET Roles] /\ approved' \subseteq Users
    <3>1. user'[call[k].on].role \in Roles
      BY <2>1, <2>2 DEF Row
    <3> QED
      BY <1>6, <2>1, <3>1 DEF WriteVerification
  <2> QED
    BY <1>6, <2>2, <2>3, <2>4, <2>5, StepsTyped DEF WriteVerification, GoOn
<1>7. ASSUME NEW k \in Calls, WriteResolution(k)
      PROVE  AccountsTypeOK'
  <2>1. call[k].on \in Reports
    BY <1>7 DEF WriteResolution, At, CallsInv, OnReports
  <2>2. report' \in [Reports -> {"none", "OPEN", "RESOLVED", "DISMISSED"}]
    BY <1>7, <2>1 DEF WriteResolution, Resolved
  <2>3. decided' \in [Targets -> Nat]
    BY <1>7, <2>1 DEF WriteResolution, Decide, Targets
  <2> QED
    BY <1>7, <2>2, <2>3, StepsTyped DEF WriteResolution, GoOn
<1>8. ASSUME NEW k \in Calls, LogAudit(k)
      PROVE  AccountsTypeOK'
  <2>3. call[k].on \in Targets
    BY <1>8 DEF LogAudit, At, CallsInv, OnUsers, Targets
  <2>1. audits' \in [Targets -> Nat]
    BY <1>8, <2>3 DEF LogAudit, Logged
  <2>2. call' \in [Calls -> Call]
    <3>1. [call[k] EXCEPT !.step = "tell"] \in Call
      BY StepsTyped
    <3>2. CASE At(k, "audit")
      BY <1>8, <3>2, StepsTyped DEF LogAudit, Return
    <3>3. CASE ~At(k, "audit")
      BY <1>8, <3>1, <3>3 DEF LogAudit, GoOn
    <3> QED
      BY <3>2, <3>3
  <2> QED
    BY <1>8, <2>1, <2>2 DEF LogAudit
<1>9. ASSUME NEW k \in Calls, Tell(k)
      PROVE  AccountsTypeOK'
  <2>2. call[k].on \in Users
    BY <1>9 DEF Tell, At, CallsInv, OnUsers
  <2>1. told' \in [Users -> Nat]
    BY <1>9, <2>2 DEF Tell
  <2> QED
    BY <1>9, <2>1, StepsTyped DEF Tell, Return, Tables
<1>10. ASSUME NEW k \in Calls, Abort(k)
       PROVE  AccountsTypeOK'
  <2>2. \A x \in Targets : lost[x] + (IF OwesAudit(k, x) THEN 1 ELSE 0) \in Nat
    OBVIOUS
  <2>1. lost' \in [Targets -> Nat]
    BY <1>10, <2>2 DEF Abort
  <2> QED
    BY <1>10, <2>1, StepsTyped DEF Abort, Return, Tables
<1>11. ASSUME NEW u \in Users, IssueTokens(u) \/ TokenExpires(u)
       PROVE  AccountsTypeOK'
  <2>1. badges' \in [Users -> SUBSET Roles]
    BY <1>11 DEF IssueTokens, TokenExpires, RolesInTokens
  <2> QED
    BY <1>11, <2>1 DEF IssueTokens, TokenExpires, Tables
<1>12. CASE UNCHANGED vars
  BY <1>12 DEF vars
<1> QED
  BY <1>1, <1>2, <1>3, <1>4, <1>5, <1>6, <1>7, <1>8, <1>9, <1>10, <1>11, <1>12
  DEF Next, Resume

-----------------------------------------------------------------------------
(* Handlers.                                                               *)

LEMMA CallsStep ==
  ASSUME AccountsTypeOK, CallsInv, [Next]_vars
  PROVE  CallsInv'
<1> USE DEF CallsInv
<1>1. call \in [Calls -> Call]
  BY DEF AccountsTypeOK
<1>2. ASSUME NEW k \in Calls, Start(k)
      PROVE  CallsInv'
  BY <1>1, <1>2, StartBegins DEF OnUsers, OnReports
<1>3. ASSUME NEW k \in Calls, Return(k)
      PROVE  CallsInv'
  BY <1>1, <1>3 DEF Return, Idle, OnUsers, OnReports
<1>4. ASSUME NEW k \in Calls, call[k].on \in Targets, GoOn(k, "audit")
      PROVE  CallsInv'
  BY <1>1, <1>4 DEF GoOn, OnUsers, OnReports, Call
<1>5. ASSUME NEW k \in Calls, call[k].on \in Users,
             GoOn(k, "auditAndTell") \/ GoOn(k, "tell")
      PROVE  CallsInv'
  BY <1>1, <1>5 DEF GoOn, OnUsers, OnReports, Call
<1>6. ASSUME NEW k \in Calls, InsertProfile(k) \/ SoftDelete(k) \/ InsertReport(k)
                              \/ Tell(k) \/ Abort(k)
      PROVE  CallsInv'
  BY <1>3, <1>6 DEF InsertProfile, SoftDelete, InsertReport, Tell, Abort
<1>7. ASSUME NEW k \in Calls, WriteSuspension(k) \/ WriteResolution(k)
      PROVE  CallsInv'
  <2>1. call[k].on \in Targets
    BY <1>7 DEF WriteSuspension, WriteResolution, At, OnUsers, OnReports, Targets
  <2> QED
    BY <1>4, <1>7, <2>1 DEF WriteSuspension, WriteResolution
<1>8. ASSUME NEW k \in Calls, WriteVerification(k)
      PROVE  CallsInv'
  <2>1. call[k].on \in Users
    BY <1>8 DEF WriteVerification, At, OnUsers
  <2> QED
    BY <1>5, <1>8, <2>1 DEF WriteVerification
<1>9. ASSUME NEW k \in Calls, LogAudit(k)
      PROVE  CallsInv'
  <2>1. CASE At(k, "audit")
    BY <1>3, <1>9, <2>1 DEF LogAudit
  <2>2. CASE ~At(k, "audit")
    <3>1. call[k].on \in Users
      BY <1>9, <2>2 DEF LogAudit, At, OnUsers
    <3> QED
      BY <1>5, <1>9, <2>2, <3>1 DEF LogAudit
  <2> QED
    BY <2>1, <2>2
<1>10. ASSUME UNCHANGED call
       PROVE  CallsInv'
  BY <1>10
<1> QED
  BY <1>2, <1>6, <1>7, <1>8, <1>9, <1>10
  DEF Next, Resume, IssueTokens, TokenExpires, vars

-----------------------------------------------------------------------------
(* Roles, profiles and tokens.                                             *)

LEMMA FirstRolesAreNoRider == \A u \in Users : FirstRole(u) # "RIDER"
BY DEF FirstRole

\* What an administrator's decision writes.
LEMMA VerificationWrites ==
  ASSUME AccountsTypeOK, CallsInv, NEW k \in Calls, WriteVerification(k)
  PROVE  \E u \in Users, p \in {"APPROVED", "REJECTED"} :
           /\ profile' = [profile EXCEPT ![u] = p]
           /\ user' = [user EXCEPT ![u].role =
                         IF p = "APPROVED" THEN "RIDER" ELSE "PASSENGER"]
<1> DEFINE u == call[k].on
           p == IF At(k, "approve") THEN "APPROVED" ELSE "REJECTED"
<1>1. u \in Users /\ p \in {"APPROVED", "REJECTED"}
  BY DEF WriteVerification, At, CallsInv, OnUsers
<1>2. profile' = [profile EXCEPT ![u] = p]
  BY DEF WriteVerification
<1>3. user' = [user EXCEPT ![u].role = IF p = "APPROVED" THEN "RIDER" ELSE "PASSENGER"]
  BY DEF WriteVerification, GrantedRole, At
<1> HIDE DEF u, p
<1> QED
  BY <1>1, <1>2, <1>3

\* All other steps leave roles alone, and a profile or put it into the queue.
LEMMA OthersKeepRoles ==
  ASSUME AccountsTypeOK, CallsInv, [Next]_vars,
         ~ \E k \in Calls : WriteVerification(k)
  PROVE  /\ \A u \in Users : user'[u].role = user[u].role
         /\ \A u \in Users : profile'[u] = profile[u]
                               \/ (profile[u] = "none" /\ profile'[u] = "PENDING")
<1> USE DEF AccountsTypeOK
<1>1. ASSUME NEW k \in Calls, InsertProfile(k)
      PROVE  /\ \A u \in Users : user'[u].role = user[u].role
             /\ \A u \in Users : profile'[u] = profile[u]
                                   \/ (profile[u] = "none" /\ profile'[u] = "PENDING")
  BY <1>1 DEF InsertProfile
<1>2. ASSUME NEW k \in Calls, SoftDelete(k)
      PROVE  profile' = profile /\ \A u \in Users : user'[u].role = user[u].role
  BY <1>2 DEF SoftDelete, Row
<1>6. ASSUME NEW k \in Calls, WriteSuspension(k)
      PROVE  profile' = profile /\ \A u \in Users : user'[u].role = user[u].role
  BY <1>6 DEF WriteSuspension, Row
<1>3. ASSUME NEW k \in Calls, Start(k) \/ InsertReport(k) \/ WriteResolution(k)
                              \/ LogAudit(k) \/ Tell(k) \/ Abort(k)
      PROVE  profile' = profile /\ user' = user
  BY <1>3, StartBegins DEF InsertReport, WriteResolution, LogAudit, Tell, Abort, Tables
<1>4. ASSUME NEW u \in Users, IssueTokens(u) \/ TokenExpires(u)
      PROVE  profile' = profile /\ user' = user
  BY <1>4 DEF IssueTokens, TokenExpires, Tables
<1>5. CASE UNCHANGED vars
  BY <1>5 DEF vars
<1> QED
  BY <1>1, <1>2, <1>3, <1>4, <1>5, <1>6 DEF Next, Resume

LEMMA RolesStep ==
  ASSUME AccountsTypeOK, CallsInv, RolesFollowProfiles, [Next]_vars
  PROVE  RolesFollowProfiles'
<1>1. ASSUME NEW k \in Calls, WriteVerification(k)
      PROVE  RolesFollowProfiles'
  <2>1. PICK u \in Users, p \in {"APPROVED", "REJECTED"} :
          /\ profile' = [profile EXCEPT ![u] = p]
          /\ user' = [user EXCEPT ![u].role =
                        IF p = "APPROVED" THEN "RIDER" ELSE "PASSENGER"]
    BY <1>1, VerificationWrites
  <2>2. \A v \in Users : profile'[v] = (IF v = u THEN p ELSE profile[v])
    BY <2>1 DEF AccountsTypeOK
  <2>3. \A v \in Users : user'[v].role =
          IF v = u THEN IF p = "APPROVED" THEN "RIDER" ELSE "PASSENGER" ELSE user[v].role
    BY <2>1 DEF AccountsTypeOK, Row
  <2> QED
    BY <2>2, <2>3 DEF RolesFollowProfiles, FirstRole
<1>2. CASE ~ \E k \in Calls : WriteVerification(k)
  BY <1>2, OthersKeepRoles DEF RolesFollowProfiles, FirstRole
<1> QED
  BY <1>1, <1>2

\* Roles a row has had stay, and RIDER joins them with an approval.
LEMMA HeldStep ==
  ASSUME AccountsTypeOK, CallsInv, HeldInv, [Next]_vars
  PROVE  /\ HeldInv'
         /\ \A u \in Users : profile[u] \in {"APPROVED", "REJECTED"}
                              => profile'[u] \in {"APPROVED", "REJECTED"}
         /\ approved \subseteq approved'
<1>1. ASSUME NEW k \in Calls, WriteVerification(k)
      PROVE  HeldInv' /\ approved \subseteq approved'
  <2> DEFINE u == call[k].on
  <2>1. u \in Users
    BY <1>1 DEF WriteVerification, At, CallsInv, OnUsers
  <2>2. user'[u].role = (IF At(k, "approve") THEN "RIDER" ELSE "PASSENGER")
    BY <1>1, <2>1 DEF WriteVerification, GrantedRole, At, AccountsTypeOK, Row
  <2>3. /\ held' = [held EXCEPT ![u] = @ \cup {user'[u].role}]
        /\ approved' = approved \cup (IF At(k, "approve") THEN {u} ELSE {})
    BY <1>1 DEF WriteVerification
  <2>4. \A v \in Users : profile'[v] =
          IF v = u THEN IF At(k, "approve") THEN "APPROVED" ELSE "REJECTED" ELSE profile[v]
    BY <1>1, <2>1 DEF WriteVerification, AccountsTypeOK
  <2>5. \A v \in Users : "RIDER" \in held'[v] =>
          "RIDER" \in held[v] \/ (v = u /\ At(k, "approve"))
    BY <2>1, <2>2, <2>3 DEF AccountsTypeOK
  <2> HIDE DEF u
  <2> QED
    BY <2>3, <2>4, <2>5 DEF HeldInv
<1>2. CASE \E k \in Calls : WriteVerification(k)
  <2>1. \A u \in Users : profile[u] \in {"APPROVED", "REJECTED"}
                           => profile'[u] \in {"APPROVED", "REJECTED"}
    BY <1>2, VerificationWrites DEF AccountsTypeOK
  <2> QED
    BY <1>1, <1>2, <2>1
<1>3. CASE ~ \E k \in Calls : WriteVerification(k)
  <2>1. held' = held /\ approved' = approved
    <3>1. ASSUME NEW k \in Calls, Start(k) \/ Resume(k) \/ Abort(k)
          PROVE  held' = held /\ approved' = approved
      BY <1>3, <3>1, StartBegins DEF Resume, InsertProfile, SoftDelete, InsertReport,
        WriteSuspension, WriteResolution, LogAudit, Tell, Abort, Tables, History
    <3>2. ASSUME NEW u \in Users, IssueTokens(u) \/ TokenExpires(u)
          PROVE  held' = held /\ approved' = approved
      BY <3>2 DEF IssueTokens, TokenExpires, Tables
    <3> QED
      BY <3>1, <3>2 DEF Next, vars
  <2>2. \A u \in Users : profile[u] \in {"APPROVED", "REJECTED"}
                           => profile'[u] \in {"APPROVED", "REJECTED"}
    BY <1>3, OthersKeepRoles
  <2> QED
    BY <2>1, <2>2 DEF HeldInv
<1> QED
  BY <1>2, <1>3

LEMMA TokensStep ==
  ASSUME AccountsTypeOK, CallsInv, HeldInv, NoRiderUnreviewed, [Next]_vars
  PROVE  NoRiderUnreviewed'
<1>1. \A u \in Users : badges'[u] \subseteq badges[u] \cup held[u]
  <2>1. ASSUME NEW k \in Calls, Start(k) \/ Resume(k) \/ Abort(k)
        PROVE  badges' = badges
    BY <2>1, StartBegins DEF Resume, InsertProfile, SoftDelete, InsertReport, WriteSuspension,
      WriteVerification, WriteResolution, LogAudit, Tell, Abort
  <2>2. ASSUME NEW u \in Users, IssueTokens(u) \/ TokenExpires(u)
        PROVE  \A v \in Users : badges'[v] \subseteq badges[v] \cup held[v]
    BY <2>2 DEF IssueTokens, TokenExpires, RolesInTokens, AccountsTypeOK
  <2> QED
    BY <2>1, <2>2 DEF Next, vars
<1>2. ASSUME NEW u \in Users, "RIDER" \in badges'[u]
      PROVE  u \in approved /\ profile[u] \in {"APPROVED", "REJECTED"}
  BY <1>1, <1>2 DEF NoRiderUnreviewed, HeldInv
<1> QED
  BY <1>2, HeldStep DEF NoRiderUnreviewed

-----------------------------------------------------------------------------
(* Counting the rows that are still to be written.                         *)

Tells(k, x) == At(k, "tell") /\ call[k].on = x

LEMMA HandlersCounted ==
  ASSUME NEW x
  PROVE  /\ Cardinality(Owing(x)) \in Nat /\ Cardinality(Telling(x)) \in Nat
         /\ Cardinality(Owing(x)') \in Nat /\ Cardinality(Telling(x)') \in Nat
         /\ call' = call => Owing(x)' = Owing(x) /\ Telling(x)' = Telling(x)
<1>1. /\ Owing(x) \in SUBSET Calls /\ Owing(x)' \in SUBSET Calls
      /\ Telling(x) \in SUBSET Calls /\ Telling(x)' \in SUBSET Calls
  BY DEF Owing, Telling
<1>2. IsFiniteSet(Calls)
  BY AccountsAssumption
<1>3. call' = call => Owing(x)' = Owing(x) /\ Telling(x)' = Telling(x)
  BY DEF Owing, Telling, OwesAudit, At
<1> HIDE DEF Owing, Telling
<1> QED
  BY <1>1, <1>2, <1>3, CountBound

LEMMA OneHandlerSteps ==
  ASSUME NEW k \in Calls, \A l \in Calls \ {k} : call'[l] = call[l], NEW x
  PROVE  /\ Cardinality(Owing(x)') =
              Cardinality(Owing(x)) + One(OwesAudit(k, x)') - One(OwesAudit(k, x))
         /\ Cardinality(Telling(x)') =
              Cardinality(Telling(x)) + One(Tells(k, x)') - One(Tells(k, x))
<1>1. Owing(x) \in SUBSET Calls /\ Owing(x)' \in SUBSET Calls
      /\ Owing(x) \ {k} = Owing(x)' \ {k}
  BY DEF Owing, OwesAudit, At
<1>2. Telling(x) \in SUBSET Calls /\ Telling(x)' \in SUBSET Calls
      /\ Telling(x) \ {k} = Telling(x)' \ {k}
  BY DEF Telling, At
<1>3. /\ One(k \in Owing(x)) = One(OwesAudit(k, x))
      /\ One(k \in Owing(x)') = One(OwesAudit(k, x)')
      /\ One(k \in Telling(x)) = One(Tells(k, x))
      /\ One(k \in Telling(x)') = One(Tells(k, x)')
  BY DEF Owing, Telling, One, Tells
<1>4. IsFiniteSet(Calls)
  BY AccountsAssumption
<1>5. Cardinality(Owing(x)') =
        Cardinality(Owing(x)) + One(k \in Owing(x)') - One(k \in Owing(x))
  BY <1>1, <1>4, CountStep, Zenon
<1>6. Cardinality(Telling(x)') =
        Cardinality(Telling(x)) + One(k \in Telling(x)') - One(k \in Telling(x))
  BY <1>2, <1>4, CountStep, Zenon
<1> QED
  BY <1>3, <1>5, <1>6

\* The ways handlers go on: into nothing that is counted, by deciding, by
\* logging, and by failing.
LEMMA QuietStep ==
  ASSUME AccountsTypeOK, NEW k \in Calls,
         Start(k) \/ InsertProfile(k) \/ SoftDelete(k) \/ InsertReport(k)
  PROVE  /\ UNCHANGED <<decided, audits, lost, told>>
         /\ \A l \in Calls \ {k} : call'[l] = call[l]
         /\ \A x : /\ ~OwesAudit(k, x) /\ ~OwesAudit(k, x)'
                   /\ ~Tells(k, x) /\ ~Tells(k, x)'
<1> USE DEF AccountsTypeOK, OwesAudit, Tells, At, Idle, OnUsers, OnReports
<1>1. CASE Start(k)
  BY <1>1, StartBegins DEF Tables
<1>2. CASE InsertProfile(k) \/ SoftDelete(k) \/ InsertReport(k)
  BY <1>2 DEF InsertProfile, SoftDelete, InsertReport, Return
<1> QED
  BY <1>1, <1>2

LEMMA DecidingStep ==
  ASSUME AccountsTypeOK, CallsInv, NEW k \in Calls,
         WriteSuspension(k) \/ WriteVerification(k) \/ WriteResolution(k)
  PROVE  /\ UNCHANGED <<audits, lost, told>>
         /\ call[k].on \in Targets
         /\ decided' = [decided EXCEPT ![call[k].on] = @ + 1]
         /\ \A l \in Calls \ {k} : call'[l] = call[l]
         /\ \A x : /\ ~OwesAudit(k, x) /\ (OwesAudit(k, x)' <=> x = call[k].on)
                   /\ ~Tells(k, x) /\ ~Tells(k, x)'
<1> USE DEF OwesAudit, Tells, At
<1>1. /\ call[k].step \notin {"audit", "auditAndTell", "tell"}
      /\ call[k].on \in Targets
  BY DEF WriteSuspension, WriteVerification, WriteResolution, CallsInv, OnUsers, OnReports,
         Targets
<1>2. /\ UNCHANGED <<audits, lost, told>>
      /\ decided' = [decided EXCEPT ![call[k].on] = @ + 1]
      /\ GoOn(k, "audit") \/ GoOn(k, "auditAndTell")
  BY DEF WriteSuspension, WriteVerification, WriteResolution, Decide
<1>3. /\ \A l \in Calls \ {k} : call'[l] = call[l]
      /\ call'[k].on = call[k].on
      /\ call'[k].step \in {"audit", "auditAndTell"}
  BY <1>2 DEF GoOn, AccountsTypeOK, Call
<1> QED
  BY <1>1, <1>2, <1>3

LEMMA LoggingStep ==
  ASSUME AccountsTypeOK, CallsInv, NEW k \in Calls, LogAudit(k)
  PROVE  /\ UNCHANGED <<decided, lost, told>>
         /\ call[k].on \in Targets
         /\ audits' = [audits EXCEPT ![call[k].on] = @ + 1]
         /\ \A l \in Calls \ {k} : call'[l] = call[l]
         /\ \A x : /\ OwesAudit(k, x) <=> x = call[k].on
                   /\ ~OwesAudit(k, x)'
                   /\ ~Tells(k, x) /\ (Tells(k, x)' => x = call[k].on)
<1> USE DEF OwesAudit, Tells, At
<1>1. /\ call[k].step \in {"audit", "auditAndTell"}
      /\ call[k].on \in Targets
  BY DEF LogAudit, CallsInv, OnUsers, Targets
<1>2. /\ UNCHANGED <<decided, lost, told>>
      /\ audits' = [audits EXCEPT ![call[k].on] = @ + 1]
  BY DEF LogAudit, Logged
<1>3. /\ \A l \in Calls \ {k} : call'[l] = call[l]
      /\ \/ call'[k] = Idle
         \/ call'[k].on = call[k].on /\ call'[k].step = "tell"
  BY DEF LogAudit, GoOn, Return, AccountsTypeOK, Call
<1> QED
  BY <1>1, <1>2, <1>3 DEF Idle

LEMMA TellingStep ==
  ASSUME AccountsTypeOK, CallsInv, NEW k \in Calls, Tell(k)
  PROVE  /\ UNCHANGED <<decided, lost, audits>>
         /\ call[k].on \in Users
         /\ told' = [told EXCEPT ![call[k].on] = @ + 1]
         /\ \A l \in Calls \ {k} : call'[l] = call[l]
         /\ \A x : /\ ~OwesAudit(k, x) /\ ~OwesAudit(k, x)'
                   /\ (Tells(k, x) <=> x = call[k].on) /\ ~Tells(k, x)'
<1>1. call[k].step = "tell" /\ call[k].on \in Users
  BY DEF Tell, At, CallsInv, OnUsers
<1>2. /\ \A l \in Calls \ {k} : call'[l] = call[l]
      /\ call'[k] = Idle
  BY DEF Tell, Return, AccountsTypeOK
<1> QED
  BY <1>1, <1>2 DEF Tell, Tables, OwesAudit, Tells, At, Idle

LEMMA FailingStep ==
  ASSUME AccountsTypeOK, NEW k \in Calls, Abort(k)
  PROVE  /\ UNCHANGED <<decided, told, audits>>
         /\ \A x \in Targets : lost'[x] = lost[x] + One(OwesAudit(k, x))
         /\ \A l \in Calls \ {k} : call'[l] = call[l]
         /\ \A x : ~OwesAudit(k, x)' /\ ~Tells(k, x)'
<1>1. /\ \A l \in Calls \ {k} : call'[l] = call[l]
      /\ call'[k] = Idle
  BY DEF Abort, Return, AccountsTypeOK
<1> QED
  BY <1>1 DEF Abort, Tables, OwesAudit, Tells, At, Idle, One

LEMMA TokenStep ==
  ASSUME NEW u \in Users, IssueTokens(u) \/ TokenExpires(u)
  PROVE  UNCHANGED <<decided, lost, told, audits, call>>
BY DEF IssueTokens, TokenExpires, Tables

-----------------------------------------------------------------------------
LEMMA LogStep ==
  ASSUME AccountsTypeOK, CallsInv, LogInv, [Next]_vars
  PROVE  LogInv'
<1> SUFFICES ASSUME NEW x \in Targets
             PROVE  decided'[x] = audits'[x] + lost'[x] + Cardinality(Owing(x)')
  BY DEF LogInv
<1>1. /\ decided[x] = audits[x] + lost[x] + Cardinality(Owing(x))
      /\ decided[x] \in Nat /\ audits[x] \in Nat /\ lost[x] \in Nat
  BY DEF LogInv, AccountsTypeOK
<1>2. Cardinality(Owing(x)) \in Nat /\ Cardinality(Owing(x)') \in Nat
  BY HandlersCounted
<1>3. ASSUME NEW k \in Calls,
             Start(k) \/ InsertProfile(k) \/ SoftDelete(k) \/ InsertReport(k)
      PROVE  decided'[x] = audits'[x] + lost'[x] + Cardinality(Owing(x)')
  BY <1>1, <1>2, <1>3, QuietStep, OneHandlerSteps DEF One
<1>4. ASSUME NEW k \in Calls,
             WriteSuspension(k) \/ WriteVerification(k) \/ WriteResolution(k)
      PROVE  decided'[x] = audits'[x] + lost'[x] + Cardinality(Owing(x)')
  <2>1. decided'[x] = decided[x] + One(x = call[k].on)
    BY <1>4, DecidingStep DEF AccountsTypeOK, One
  <2> QED
    BY <1>1, <1>2, <1>4, <2>1, DecidingStep, OneHandlerSteps DEF One
<1>5. ASSUME NEW k \in Calls, LogAudit(k)
      PROVE  decided'[x] = audits'[x] + lost'[x] + Cardinality(Owing(x)')
  <2>1. audits'[x] = audits[x] + One(x = call[k].on)
    BY <1>5, LoggingStep DEF AccountsTypeOK, One
  <2> QED
    BY <1>1, <1>2, <1>5, <2>1, LoggingStep, OneHandlerSteps DEF One
<1>6. ASSUME NEW k \in Calls, Tell(k)
      PROVE  decided'[x] = audits'[x] + lost'[x] + Cardinality(Owing(x)')
  BY <1>1, <1>2, <1>6, TellingStep, OneHandlerSteps DEF One
<1>7. ASSUME NEW k \in Calls, Abort(k)
      PROVE  decided'[x] = audits'[x] + lost'[x] + Cardinality(Owing(x)')
  BY <1>1, <1>2, <1>7, FailingStep, OneHandlerSteps DEF One
<1>8. ASSUME UNCHANGED <<decided, audits, lost, call>>
      PROVE  decided'[x] = audits'[x] + lost'[x] + Cardinality(Owing(x)')
  BY <1>1, <1>8, HandlersCounted
<1> QED
  BY <1>3, <1>4, <1>5, <1>6, <1>7, <1>8, TokenStep DEF Next, Resume, vars

LEMMA ToldStep ==
  ASSUME AccountsTypeOK, CallsInv, ToldInv, [Next]_vars
  PROVE  ToldInv'
<1> SUFFICES ASSUME NEW u \in Users
             PROVE  told'[u] + Cardinality(Telling(u)') <= audits'[u]
  BY DEF ToldInv
<1>1. /\ told[u] + Cardinality(Telling(u)) <= audits[u]
      /\ told[u] \in Nat /\ audits[u] \in Nat
  BY DEF ToldInv, AccountsTypeOK, Targets
<1>2. Cardinality(Telling(u)) \in Nat /\ Cardinality(Telling(u)') \in Nat
  BY HandlersCounted
<1>3. ASSUME NEW k \in Calls,
             Start(k) \/ InsertProfile(k) \/ SoftDelete(k) \/ InsertReport(k)
      PROVE  told'[u] + Cardinality(Telling(u)') <= audits'[u]
  BY <1>1, <1>2, <1>3, QuietStep, OneHandlerSteps DEF One
<1>4. ASSUME NEW k \in Calls,
             WriteSuspension(k) \/ WriteVerification(k) \/ WriteResolution(k)
      PROVE  told'[u] + Cardinality(Telling(u)') <= audits'[u]
  BY <1>1, <1>2, <1>4, DecidingStep, OneHandlerSteps DEF One
<1>5. ASSUME NEW k \in Calls, LogAudit(k)
      PROVE  told'[u] + Cardinality(Telling(u)') <= audits'[u]
  <2>1. audits'[u] = audits[u] + One(u = call[k].on)
    BY <1>5, LoggingStep DEF AccountsTypeOK, One, Targets
  <2> QED
    BY <1>1, <1>2, <1>5, <2>1, LoggingStep, OneHandlerSteps DEF One
<1>6. ASSUME NEW k \in Calls, Tell(k)
      PROVE  told'[u] + Cardinality(Telling(u)') <= audits'[u]
  <2>1. told'[u] = told[u] + One(u = call[k].on)
    BY <1>6, TellingStep DEF AccountsTypeOK, One
  <2> QED
    BY <1>1, <1>2, <1>6, <2>1, TellingStep, OneHandlerSteps DEF One
<1>7. ASSUME NEW k \in Calls, Abort(k)
      PROVE  told'[u] + Cardinality(Telling(u)') <= audits'[u]
  BY <1>1, <1>2, <1>7, FailingStep, OneHandlerSteps DEF One
<1>8. ASSUME UNCHANGED <<told, audits, call>>
      PROVE  told'[u] + Cardinality(Telling(u)') <= audits'[u]
  BY <1>1, <1>8, HandlersCounted
<1> QED
  BY <1>3, <1>4, <1>5, <1>6, <1>7, <1>8, TokenStep DEF Next, Resume, vars

-----------------------------------------------------------------------------
LEMMA InitAccountsInv == Init => AccountsInv
<1> SUFFICES ASSUME Init PROVE AccountsInv
  OBVIOUS
<1>1. AccountsTypeOK
  BY StepsTyped DEF Init, AccountsTypeOK, Row, Roles, FirstRole
<1>2. CallsInv
  BY DEF Init, CallsInv, Idle, OnUsers, OnReports
<1>3. RolesFollowProfiles /\ HeldInv /\ NoRiderUnreviewed
  <2>1. \A u \in Users : /\ user[u].role = FirstRole(u) /\ profile[u] = "none"
                         /\ badges[u] = {} /\ held[u] = {FirstRole(u)}
    BY DEF Init
  <2> QED
    BY <2>1, FirstRolesAreNoRider DEF RolesFollowProfiles, HeldInv, NoRiderUnreviewed, FirstRole
<1>4. \A x : Owing(x) = {} /\ Telling(x) = {}
  BY DEF Init, Owing, Telling, OwesAudit, At, Idle
<1>5. \A x : Cardinality(Owing(x)) = 0 /\ Cardinality(Telling(x)) = 0
  BY <1>4, FS_EmptySet
<1>6. LogInv /\ ToldInv
  BY <1>5 DEF Init, LogInv, ToldInv, Targets
<1> QED
  BY <1>1, <1>2, <1>3, <1>6 DEF AccountsInv

\* The inductive invariant: values have their types, handlers work on rows of
\* the right table, roles follow profiles, and every decision is in the log, in
\* a handler that will log it, or lost.
THEOREM AccountsInvariant == Spec => []AccountsInv
<1>1. AccountsInv /\ [Next]_vars => AccountsInv'
  BY TypeStep, CallsStep, RolesStep, HeldStep, TokensStep, LogStep, ToldStep DEF AccountsInv
<1> QED
  BY <1>1, InitAccountsInv, PTL DEF Spec

\* Values stay in their types.
THEOREM AccountsTyped == Spec => []AccountsTypeOK
<1>1. AccountsInv => AccountsTypeOK
  BY DEF AccountsInv
<1> QED
  BY <1>1, AccountsInvariant, PTL

\* Role and profile come from the same decision, however administrators overlap.
THEOREM RolesAreGranted == Spec => []RolesFollowProfiles
<1>1. AccountsInv => RolesFollowProfiles
  BY DEF AccountsInv
<1> QED
  BY <1>1, AccountsInvariant, PTL

\* No access token says RIDER before an administrator has approved the profile, nor
\* while the profile waits in the queue.
THEOREM RidersWereReviewed == Spec => []NoRiderUnreviewed
<1>1. AccountsInv => NoRiderUnreviewed
  BY DEF AccountsInv
<1> QED
  BY <1>1, AccountsInvariant, PTL

\* Every decision is logged, about to be, or its log entry failed; nobody is told
\* of a decision that is not in the log.
THEOREM DecisionsAreLogged == Spec => []AuditIsComplete
<1>1. AccountsInv => AuditIsComplete
  <2> SUFFICES ASSUME AccountsInv, NEW x \in Targets
               PROVE  /\ decided[x] = audits[x] + lost[x] + Cardinality(Owing(x))
                      /\ x \in Users => told[x] <= audits[x]
    BY DEF AuditIsComplete, Owing
  <2>1. Cardinality(Telling(x)) \in Nat
    BY HandlersCounted
  <2> QED
    BY <2>1 DEF AccountsInv, LogInv, ToldInv, AccountsTypeOK
<1> QED
  BY <1>1, AccountsInvariant, PTL

\* Every figure of the dashboard is the length of the list it leads to, and the
\* riders it counts are those whose profile is approved and who are still there.
THEOREM DashboardsAgree == Spec => []DashboardAgreesWithTheLists
<1>1. AccountsInv => DashboardAgreesWithTheLists
  <2> SUFFICES ASSUME AccountsInv
               PROVE  DashboardAgreesWithTheLists
    OBVIOUS
  <2>1. \A u \in Users : user[u].role \in Roles /\ user[u].suspended \in BOOLEAN
    BY DEF AccountsInv, AccountsTypeOK, Row
  <2>2. \A u \in Users : user[u].role = "RIDER" <=> profile[u] = "APPROVED"
    BY FirstRolesAreNoRider DEF AccountsInv, RolesFollowProfiles
  <2>3. Present = GetUsers(Roles, BOOLEAN, Users)
    BY <2>1 DEF Present, GetUsers
  <2>4. {u \in Present : user[u].role = "RIDER"} = GetUsers({"RIDER"}, BOOLEAN, Users)
    BY <2>1 DEF Present, GetUsers
  <2>5. {u \in Present : user[u].role = "RIDER"} = {u \in Present : profile[u] = "APPROVED"}
    BY <2>2 DEF Present
  <2>6. {r \in Reports : report[r] = "OPEN"} = GetReports({"OPEN"})
    BY DEF GetReports
  <2>7. \A u \in Users : GetMyReports(u) \subseteq GetReports({"OPEN", "RESOLVED", "DISMISSED"})
    BY DEF GetMyReports, GetReports, AccountsInv, AccountsTypeOK
  <2> QED
    BY <2>3, <2>4, <2>5, <2>6, <2>7
    DEF DashboardAgreesWithTheLists, DashboardStats, GetPendingRiders
<1> QED
  BY <1>1, AccountsInvariant, PTL

\* A decided profile is never back in the queue, nor a closed report open.
THEOREM DecisionsStand == Spec => DecidedStaysDecided
<1>1. ASSUME AccountsInv, [Next]_vars
      PROVE  [/\ \A u \in Users : profile[u] \in {"APPROVED", "REJECTED"}
                                    => profile'[u] \in {"APPROVED", "REJECTED"}
              /\ \A r \in Reports : report[r] \in {"RESOLVED", "DISMISSED"}
                                    => report'[r] \in {"RESOLVED", "DISMISSED"}]_vars
  <2> USE <1>1 DEF AccountsInv
  <2>1. \A u \in Users : profile[u] \in {"APPROVED", "REJECTED"}
                           => profile'[u] \in {"APPROVED", "REJECTED"}
    <3>1. CASE \E k \in Calls : WriteVerification(k)
      BY <3>1, VerificationWrites DEF AccountsTypeOK
    <3>2. CASE ~ \E k \in Calls : WriteVerification(k)
      BY <3>2, OthersKeepRoles
    <3> QED
      BY <3>1, <3>2
  <2>2. \A r \in Reports : report[r] \in {"RESOLVED", "DISMISSED"}
                           => report'[r] \in {"RESOLVED", "DISMISSED"}
    <3>1. ASSUME NEW k \in Calls, InsertReport(k)
          PROVE  \A r \in Reports : report[r] \in {"RESOLVED", "DISMISSED"}
                                      => report'[r] \in {"RESOLVED", "DISMISSED"}
      BY <3>1 DEF InsertReport, AccountsTypeOK
    <3>2. ASSUME NEW k \in Calls, WriteResolution(k)
          PROVE  \A r \in Reports : report[r] \in {"RESOLVED", "DISMISSED"}
                                      => report'[r] \in {"RESOLVED", "DISMISSED"}
      BY <3>2 DEF WriteResolution, Resolved, AccountsTypeOK
    <3>3. ASSUME NEW k \in Calls, Start(k) \/ InsertProfile(k) \/ SoftDelete(k)
                   \/ WriteSuspension(k) \/ WriteVerification(k) \/ LogAudit(k) \/ Tell(k)
                   \/ Abort(k)
          PROVE  report' = report
      BY <3>3, StartBegins DEF InsertProfile, SoftDelete, WriteSuspension, WriteVerification,
        LogAudit, Tell, Abort, Tables
    <3>4. ASSUME NEW u \in Users, IssueTokens(u) \/ TokenExpires(u)
          PROVE  report' = report
      BY <3>4 DEF IssueTokens, TokenExpires, Tables
    <3> QED
      BY <3>1, <3>2, <3>3, <3>4 DEF Next, Resume, vars
  <2> QED
    BY <2>1, <2>2
<1> QED
  BY <1>1, AccountsInvariant, PTL DEF Spec, DecidedStaysDecided
=============================================================================
