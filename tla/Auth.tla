-------------------------------- MODULE Auth --------------------------------
(***************************************************************************)
(* AuthService: accounts, the one-time codes that verify an address or     *)
(* reset a password, and the refresh tokens that keep a session alive;     *)
(* with CleanupService, which deletes the rows that ran out, and with the  *)
(* administrator and the user who suspend and delete accounts meanwhile.   *)
(*                                                                         *)
(* An action is the code between two awaits.  Codes and tokens are random  *)
(* and are named by their rows; a guess is the row whose code it is, or 0. *)
(* Rows are numbered in the order of their INSERTs, which is that of       *)
(* createdAt and, all rows of a table living equally long, of expiresAt:   *)
(* the clock only decides when the next one expires.  Names, hashes and    *)
(* access tokens decide nothing here, and of a code the table knows, not  *)
(* the mail it went out with.                                              *)
(***************************************************************************)
EXTENDS Integers, FiniteSets

CONSTANTS
  Users,
  NoUser,       \* whose a row or a handler is that is not there
  MaxOtps,      \* bound on rows of otp_verifications
  MaxTokens,    \* bound on rows of refresh_tokens
  MaxAttempts,  \* OTP_MAX_ATTEMPTS
  Calls         \* slots for handlers executing at the same time

ASSUME AuthAssumption ==
  /\ NoUser \notin Users
  /\ MaxOtps \in Nat /\ MaxTokens \in Nat
  /\ MaxAttempts \in Nat \ {0}
  /\ IsFiniteSet(Calls)

VARIABLES
  account,  \* table users
  otp,      \* table otp_verifications
  token,    \* table refresh_tokens
  call      \* what each executing handler does next

vars == <<account, otp, token, call>>

Otps == 1..MaxOtps
Tokens == 1..MaxTokens
Purposes == {"email_verification", "password_reset"}

\* mailed and cut are history: whether a code for it was accepted, and whether
\* the last password reset was cut off before it revoked the tokens.
Account == [standing : {"absent", "active", "suspended", "deleted"},
            verified : BOOLEAN, mailed : BOOLEAN, cut : BOOLEAN]

\* used counts how often the code was accepted, of which the row keeps whether.
Otp == [life : {"absent", "fresh", "expired", "gone"}, user : Users \cup {NoUser},
        purpose : Purposes, attempts : Nat, used : Nat]

\* A token is dead once it is revoked or expired: no handler tells these apart.
\* parent and old are history: the token it was exchanged for, and whether the
\* password was reset since.
Token == [life : {"absent", "live", "dead", "gone"},
          user : Users \cup {NoUser}, parent : 0..MaxTokens, old : BOOLEAN]

Steps == {"idle", "createUser", "reRegister", "createOtp", "sendMail",
          "findOtp", "increment", "markUsed", "setVerified", "writePassword", "revokeAll",
          "revoke", "revokeForLogout", "rereadUser", "issueTokens"}

\* id is the code or the token the handler works with.
Call == [step : Steps, user : Users \cup {NoUser}, purpose : Purposes, id : Nat]

Idle == [step |-> "idle", user |-> NoUser, purpose |-> "email_verification", id |-> 0]

NoOtp(life) == [life |-> life, user |-> NoUser, purpose |-> "email_verification",
                attempts |-> 0, used |-> 0]
NoToken(life) == [life |-> life, user |-> NoUser, parent |-> 0, old |-> FALSE]

Init ==
  /\ account = [u \in Users |-> [standing |-> "absent", verified |-> FALSE,
                                mailed |-> FALSE, cut |-> FALSE]]
  /\ otp = [i \in Otps |-> NoOtp("absent")]
  /\ token = [t \in Tokens |-> NoToken("absent")]
  /\ call = [k \in Calls |-> Idle]

-----------------------------------------------------------------------------
Begin(k, step, u, purpose, id) ==
  /\ call[k] = Idle
  /\ call' = [call EXCEPT ![k] = [step |-> step, user |-> u, purpose |-> purpose, id |-> id]]
GoOn(k, step) == call' = [call EXCEPT ![k].step = step]
Return(k) == call' = [call EXCEPT ![k] = Idle]

Stored(u) == account[u].standing # "absent"
Deleted(u) == account[u].standing = "deleted"
At(k, step) == call[k].step = step
Mine(k) == call[k].user
InHand(k) == call[k].id

(* The handlers up to their first await, where they go on at all.          *)

Register(k, u) ==
  /\ \/ ~Stored(u) /\ Begin(k, "createUser", u, "email_verification", 0)
     \/ /\ Stored(u) /\ ~account[u].verified /\ ~Deleted(u)
        /\ Begin(k, "reRegister", u, "email_verification", 0)
  /\ UNCHANGED <<account, otp, token>>

VerifyEmail(k, u) ==
  /\ Stored(u) /\ ~account[u].verified
  /\ Begin(k, "findOtp", u, "email_verification", 0)
  /\ UNCHANGED <<account, otp, token>>

\* With the right password.
Login(k, u) ==
  /\ account[u].standing = "active" /\ account[u].verified
  /\ Begin(k, "issueTokens", u, "email_verification", 0)
  /\ UNCHANGED <<account, otp, token>>

ForgotPassword(k, u) ==
  /\ Stored(u) /\ ~Deleted(u)
  /\ Begin(k, "createOtp", u, "password_reset", 0)
  /\ UNCHANGED <<account, otp, token>>

ResetPassword(k, u) ==
  /\ Stored(u)
  /\ Begin(k, "findOtp", u, "password_reset", 0)
  /\ UNCHANGED <<account, otp, token>>

RefreshTokens(k, t) ==
  /\ token[t].life = "live"
  /\ Begin(k, "revoke", token[t].user, "email_verification", t)
  /\ UNCHANGED <<account, otp, token>>

\* (Of a dead token it changes nothing.)
Logout(k, t) ==
  /\ token[t].life = "live"
  /\ Begin(k, "revokeForLogout", token[t].user, "email_verification", t)
  /\ UNCHANGED <<account, otp, token>>

-----------------------------------------------------------------------------
(* register.                                                               *)

\* The address is unique: the second INSERT throws.
CreateUser(k) ==
  /\ At(k, "createUser")
  /\ IF Stored(Mine(k))
     THEN Return(k) /\ UNCHANGED account
     ELSE /\ account' = [account EXCEPT ![Mine(k)].standing = "active"]
          /\ GoOn(k, "createOtp")
  /\ UNCHANGED <<otp, token>>

\* A new password and name, whatever the account has become since.
ReRegister(k) ==
  /\ At(k, "reRegister")
  /\ GoOn(k, "createOtp")
  /\ UNCHANGED <<account, otp, token>>

(* sendEmailOtp and validateOtp.                                           *)

CreateOtp(k, i) ==
  /\ At(k, "createOtp")
  /\ otp[i].life = "absent"
  /\ \A j \in 1..(i - 1) : otp[j].life # "absent"
  /\ otp' = [otp EXCEPT ![i] = [@ EXCEPT !.life = "fresh", !.user = Mine(k),
                                         !.purpose = call[k].purpose]]
  /\ GoOn(k, "sendMail")
  /\ UNCHANGED <<account, token>>

\* EmailService.send returns whatever becomes of the mail.
SendMail(k) ==
  /\ At(k, "sendMail")
  /\ Return(k)
  /\ UNCHANGED <<account, otp, token>>

MatchesAny(i, u, purpose) ==
  otp[i].life \in {"fresh", "expired"} /\ otp[i].user = u /\ otp[i].used = 0
Matches(i, u, purpose) ==
  /\ otp[i].life \in {"fresh", "expired"}
  /\ otp[i].user = u /\ otp[i].purpose = purpose /\ otp[i].used = 0

LatestOtps(u, purpose) ==
  {i \in Otps : Matches(i, u, purpose)
                  /\ \A j \in Otps : Matches(j, u, purpose) => j <= i}

LockedSlip(i) == otp[i].attempts > MaxAttempts
Locked(i) == otp[i].attempts >= MaxAttempts

ValidateOtp(k, guess) ==
  LET latest == LatestOtps(Mine(k), call[k].purpose)
  IN  /\ At(k, "findOtp")
      /\ IF \E i \in latest : ~Locked(i) /\ otp[i].life = "fresh"
         THEN \E i \in latest :
                call' = [call EXCEPT ![k] = [@ EXCEPT !.id = i,
                           !.step = IF guess = i THEN "markUsed" ELSE "increment"]]
         ELSE Return(k)
      /\ UNCHANGED <<account, otp, token>>

\* update throws when the row is gone.
IncrementOtpAttempts(k) ==
  /\ At(k, "increment")
  /\ otp' = IF otp[InHand(k)].life = "gone" THEN otp
            ELSE [otp EXCEPT ![InHand(k)].attempts = @ + 1]
  /\ Return(k)
  /\ UNCHANGED <<account, token>>

AfterCode(purpose) ==
  IF purpose = "email_verification" THEN "setVerified" ELSE "writePassword"

MarkOtpUsed(k) ==
  /\ At(k, "markUsed")
  /\ IF otp[InHand(k)].life = "gone"
     THEN Return(k) /\ UNCHANGED <<account, otp>>
     ELSE /\ otp' = [otp EXCEPT ![InHand(k)].used = @ + 1]
          /\ account' = [account EXCEPT ![Mine(k)].mailed =
               @ \/ otp[InHand(k)].purpose = "email_verification"]
          /\ GoOn(k, AfterCode(call[k].purpose))
  /\ UNCHANGED token

(* verifyEmail and resetPassword, once the code is accepted.               *)

SetVerified(k) ==
  /\ At(k, "setVerified")
  /\ account' = [account EXCEPT ![Mine(k)].verified = TRUE]
  /\ call' = [call EXCEPT ![k] = [@ EXCEPT !.step = "issueTokens", !.id = 0]]
  /\ UNCHANGED <<otp, token>>

WritePassword(k) ==
  /\ At(k, "writePassword")
  /\ token' = [t \in Tokens |-> [token[t] EXCEPT !.old = @ \/ token[t].user = Mine(k)]]
  /\ GoOn(k, "revokeAll")
  /\ UNCHANGED <<account, otp>>

RevocableSlip(t, u) ==
  token[t].user = u /\ token[t].life = "live" /\ token[t].parent = 0
Revocable(t, u) == token[t].user = u /\ token[t].life = "live"

RevokeAll(k) ==
  /\ At(k, "revokeAll")
  /\ token' = [t \in Tokens |-> IF Revocable(t, Mine(k))
                 THEN [token[t] EXCEPT !.life = "dead"] ELSE token[t]]
  /\ account' = [account EXCEPT ![Mine(k)].cut = FALSE]
  /\ Return(k)
  /\ UNCHANGED otp

(* refreshTokens, logout and issueTokens.                                  *)

\* update throws when the row is gone.
RevokedSlip(row) == row
Revoked(row) == [row EXCEPT !.life = "dead"]

Revoke(k) ==
  /\ At(k, "revoke") \/ At(k, "revokeForLogout")
  /\ IF token[InHand(k)].life = "gone"
     THEN Return(k) /\ UNCHANGED token
     ELSE /\ token' = [token EXCEPT ![InHand(k)] = Revoked(@)]
          /\ IF At(k, "revoke") THEN GoOn(k, "rereadUser") ELSE Return(k)
  /\ UNCHANGED <<account, otp>>

RereadUser(k) ==
  /\ At(k, "rereadUser")
  /\ IF account[Mine(k)].standing = "active"
     THEN GoOn(k, "issueTokens")
     ELSE Return(k)
  /\ UNCHANGED <<account, otp, token>>

IssueTokens(k, t) ==
  /\ At(k, "issueTokens")
  /\ token[t].life = "absent"
  /\ \A r \in 1..(t - 1) : token[r].life # "absent"
  /\ token' = [token EXCEPT ![t] = [life |-> "live", user |-> Mine(k),
                  parent |-> InHand(k), old |-> FALSE]]
  /\ Return(k)
  /\ UNCHANGED <<account, otp>>

-----------------------------------------------------------------------------
(* What else happens to the rows.                                          *)

\* AdminService.suspendUser and UsersService.deleteMe.  A deleted account may be
\* suspended as well, which makes no difference to anything here.
SuspendUser(u) ==
  /\ \/ account[u].standing = "active"
        /\ account' = [account EXCEPT ![u].standing = "suspended"]
     \/ account[u].standing = "suspended"
        /\ account' = [account EXCEPT ![u].standing = "active"]
  /\ UNCHANGED <<otp, token, call>>

DeleteMe(u) ==
  /\ account[u].standing \in {"active", "suspended"}
  /\ account' = [account EXCEPT ![u].standing = "deleted"]
  /\ UNCHANGED <<otp, token, call>>

OtpExpires(i) ==
  /\ otp[i].life = "fresh"
  /\ \A j \in 1..(i - 1) : otp[j].life # "fresh"
  /\ otp' = [otp EXCEPT ![i].life = "expired"]
  /\ UNCHANGED <<account, token, call>>

TokenExpires(t) ==
  /\ token[t].life = "live"
  /\ \A r \in 1..(t - 1) : token[r].life # "live"
  /\ token' = [token EXCEPT ![t].life = "dead"]
  /\ UNCHANGED <<account, otp, call>>

PurgedOtp(row) == row.life = "expired"

CleanExpiredOtps ==
  /\ \E i \in Otps : PurgedOtp(otp[i])
  /\ otp' = [i \in Otps |-> IF PurgedOtp(otp[i])
               THEN NoOtp("gone") ELSE otp[i]]
  /\ UNCHANGED <<account, token, call>>

Purgeable(row) == row.life = "dead"

\* All that expired, and those revoked more than a week ago.
CleanStaleRefreshTokens ==
  /\ \E stale \in (SUBSET {t \in Tokens : Purgeable(token[t])}) \ {{}} :
       token' = [t \in Tokens |-> IF t \in stale THEN NoToken("gone") ELSE token[t]]
  /\ UNCHANGED <<account, otp, call>>

\* A call of the handler throws, or its server dies.
Abort(k) ==
  /\ call[k] # Idle
  /\ account' = IF At(k, "revokeAll")
                THEN [account EXCEPT ![Mine(k)].cut = TRUE] ELSE account
  /\ Return(k)
  /\ UNCHANGED <<otp, token>>

-----------------------------------------------------------------------------
Start(k) ==
  \/ \E u \in Users : \/ Register(k, u) \/ VerifyEmail(k, u) \/ Login(k, u)
                      \/ ForgotPassword(k, u) \/ ResetPassword(k, u)
  \/ \E t \in Tokens : RefreshTokens(k, t) \/ Logout(k, t)

Resume(k) ==
  \/ CreateUser(k) \/ ReRegister(k) \/ SendMail(k) \/ IncrementOtpAttempts(k) \/ MarkOtpUsed(k)
  \/ SetVerified(k) \/ WritePassword(k) \/ RevokeAll(k) \/ Revoke(k) \/ RereadUser(k)
  \/ \E i \in Otps : CreateOtp(k, i)
  \/ \E guess \in 0..MaxOtps : ValidateOtp(k, guess)
  \/ \E t \in Tokens : IssueTokens(k, t)

Next ==
  \/ \E k \in Calls : Start(k) \/ Resume(k) \/ Abort(k)
  \/ \E u \in Users : SuspendUser(u) \/ DeleteMe(u)
  \/ \E i \in Otps : OtpExpires(i)
  \/ \E t \in Tokens : TokenExpires(t)
  \/ CleanExpiredOtps \/ CleanStaleRefreshTokens

Spec == Init /\ [][Next]_vars

-----------------------------------------------------------------------------
\* Values stay in their types.
AuthTypeOK ==
  /\ account \in [Users -> Account]
  /\ otp \in [Otps -> Otp]
  /\ token \in [Tokens -> Token]
  /\ call \in [Calls -> Call]

\* The attempts on a code and the times it is accepted are counted an await
\* after they are checked, and still there are never more of them than the limit
\* and one for every other handler that was at it.
GuessesAreBounded ==
  \A i \in Otps :
    otp[i].attempts + otp[i].used <= MaxAttempts - 1 + Cardinality(Calls)

\* A verified address took a code that was mailed to it for that purpose.
VerifiedByACode == \A u \in Users : account[u].verified => account[u].mailed

\* A token that was exchanged is dead before its successor is there, whoever
\* else exchanges it or resets the password meanwhile.
RotationRevokesTheParent ==
  \A t \in Tokens : token[t].parent # 0 =>
    LET parent == token[token[t].parent]
    IN  \/ parent.life = "gone"
        \/ parent.life = "dead" /\ parent.user = token[t].user

\* Two writes reset a password.  Once both are done no session from before is
\* alive, unless the second was lost.
ResetEndsOldSessions ==
  \A t \in Tokens : token[t].life = "live" /\ token[t].old =>
    \/ account[token[t].user].cut
    \/ \E k \in Calls : At(k, "revokeAll") /\ Mine(k) = token[t].user
=============================================================================
