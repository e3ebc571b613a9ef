----------------------------- MODULE AuthProofs -----------------------------
(***************************************************************************)
(* Proofs about module Auth, for any number of users, codes, tokens,       *)
(* attempts and handlers.                                                  *)
(***************************************************************************)
EXTENDS Auth, Counting

\* What a handler in flight relies on: the row it found is still the user's, of
\* the purpose it was asked for, or gone; a token it has exchanged stays dead.
CallOK(k) ==
  LET c == call[k]
  IN  /\ c.step # "idle" => c.user \in Users
      /\ c.step \in {"increment", "markUsed"} =>
           /\ c.id \in Otps
           /\ otp[c.id].life # "absent"
           /\ otp[c.id].life = "gone"
                \/ (otp[c.id].user = c.user /\ otp[c.id].purpose = c.purpose)
      /\ c.step \in {"revoke", "revokeForLogout"} =>
           /\ c.id \in Tokens
           /\ token[c.id].life # "absent"
           /\ token[c.id].life = "gone" \/ token[c.id].user = c.user
      /\ c.step = "rereadUser" \/ (c.step = "issueTokens" /\ c.id # 0) =>
           /\ c.id \in Tokens
           /\ token[c.id].life = "gone"
                \/ (token[c.id].life = "dead" /\ token[c.id].user = c.user)
      /\ c.step = "setVerified" => account[c.user].mailed

CallsInv == \A k \in Calls : CallOK(k)

\* Rows that are there belong to somebody.
TokensInv ==
  \A t \in Tokens :
    IF token[t].life \in {"live", "dead"} THEN token[t].user \in Users
    ELSE token[t] = NoToken(token[t].life)

\* Handlers that are about to count a guess of a code.
Guessing(i) == {k \in Calls : call[k].step \in {"increment", "markUsed"} /\ InHand(k) = i}

GuessesInv ==
  \A i \in Otps : otp[i].attempts + otp[i].used + Cardinality(Guessing(i))
                    <= MaxAttempts - 1 + Cardinality(Calls)

AuthInv ==
  /\ AuthTypeOK /\ CallsInv /\ TokensInv /\ GuessesInv
  /\ VerifiedByACode /\ RotationRevokesTheParent /\ ResetEndsOldSessions

-----------------------------------------------------------------------------
(* The records the actions write.                                          *)

LEMMA BoundsTyped == MaxOtps \in Nat /\ MaxTokens \in Nat /\ MaxAttempts \in Nat \ {0}
BY AuthAssumption

LEMMA AccountTyped ==
  ASSUME NEW row \in Account
  PROVE  /\ \A s \in {"absent", "active", "suspended", "deleted"} :
              [row EXCEPT !.standing = s] \in Account
         /\ \A b \in BOOLEAN : /\ [row EXCEPT !.mailed = b] \in Account
                               /\ [row EXCEPT !.cut = b] \in Account
                               /\ [row EXCEPT !.verified = b] \in Account
BY DEF Account

\* ... in the table.
LEMMA AccountsTyped ==
  ASSUME account \in [Users -> Account], NEW u \in Users, NEW row \in Account,
         account' = account \/ account' = [account EXCEPT ![u] = row]
  PROVE  account' \in [Users -> Account]
OBVIOUS

LEMMA OtpTyped ==
  /\ \A life \in {"absent", "gone"} : NoOtp(life) \in Otp
  /\ \A row \in Otp :
       /\ \A u \in Users, p \in Purposes :
            [row EXCEPT !.life = "fresh", !.user = u, !.purpose = p] \in Otp
       /\ [row EXCEPT !.life = "expired"] \in Otp
       /\ [row EXCEPT !.attempts = @ + 1] \in Otp
       /\ [row EXCEPT !.used = @ + 1] \in Otp
<1>1. \A life \in {"absent", "gone"} : NoOtp(life) \in Otp
  BY DEF Otp, NoOtp, Purposes
<1>2. \A row \in Otp, u \in Users, p \in Purposes :
        [row EXCEPT !.life = "fresh", !.user = u, !.purpose = p] \in Otp
  BY DEF Otp
<1>3. \A row \in Otp : [row EXCEPT !.life = "expired"] \in Otp
  BY DEF Otp
<1>4. \A row \in Otp : [row EXCEPT !.attempts = @ + 1] \in Otp
  BY DEF Otp
<1>5. \A row \in Otp : [row EXCEPT !.used = @ + 1] \in Otp
  BY DEF Otp
<1> QED
  BY <1>1, <1>2, <1>3, <1>4, <1>5

LEMMA TokenTyped ==
  /\ \A life \in {"absent", "gone"} : NoToken(life) \in Token
  /\ \A row \in Token : /\ [row EXCEPT !.life = "dead"] \in Token
                        /\ \A b \in BOOLEAN : [row EXCEPT !.old = b] \in Token
  /\ \A u \in Users, p \in 0..MaxTokens :
       [life |-> "live", user |-> u, parent |-> p, old |-> FALSE] \in Token
BY BoundsTyped DEF Token, NoToken

LEMMA CallTyped ==
  /\ Idle \in Call
  /\ \A u \in Users, p \in Purposes, n \in Nat, step \in Steps :
       [step |-> step, user |-> u, purpose |-> p, id |-> n] \in Call
  /\ \A c \in Call, step \in Steps : [c EXCEPT !.step = step] \in Call
  /\ \A c \in Call, step \in Steps, n \in Nat :
       /\ [c EXCEPT !.id = n, !.step = step] \in Call
       /\ [c EXCEPT !.step = step, !.id = n] \in Call
<1>1. Idle \in Call
  BY DEF Idle, Call, Purposes, Steps
<1>2. \A u \in Users, p \in Purposes, n \in Nat, step \in Steps :
        [step |-> step, user |-> u, purpose |-> p, id |-> n] \in Call
  BY DEF Call
<1>3. \A c \in Call, step \in Steps : [c EXCEPT !.step = step] \in Call
  BY DEF Call
<1>4. \A c \in Call, step \in Steps, n \in Nat :
        [c EXCEPT !.id = n, !.step = step] \in Call
  BY DEF Call
<1>5. \A c \in Call, step \in Steps, n \in Nat :
        [c EXCEPT !.step = step, !.id = n] \in Call
  BY DEF Call
<1> QED
  BY <1>1, <1>2, <1>3, <1>4, <1>5

\* A handler begins with the user it is about.
LEMMA StartBegins ==
  ASSUME AuthTypeOK, TokensInv, NEW k \in Calls, Start(k)
  PROVE  /\ UNCHANGED <<account, otp, token>>
         /\ call[k] = Idle
         /\ \E step \in Steps \ {"idle"}, u \in Users, p \in Purposes :
              \/ /\ step \in {"createUser", "reRegister", "findOtp", "issueTokens", "createOtp"}
                 /\ call' = [call EXCEPT ![k] =
                               [step |-> step, user |-> u, purpose |-> p, id |-> 0]]
              \/ \E t \in Tokens :
                   /\ token[t].life = "live" /\ token[t].user = u
                   /\ step \in {"revoke", "revokeForLogout"}
                   /\ call' = [call EXCEPT ![k] =
                                 [step |-> step, user |-> u, purpose |-> p, id |-> t]]
<1> USE DEF Begin, Steps, Purposes
<1>1. ASSUME NEW u \in Users,
             \/ Register(k, u) \/ VerifyEmail(k, u) \/ Login(k, u)
             \/ ForgotPassword(k, u) \/ ResetPassword(k, u)
      PROVE  /\ UNCHANGED <<account, otp, token>>
             /\ call[k] = Idle
             /\ \E step \in {"createUser", "reRegister", "findOtp", "issueTokens", "createOtp"},
                   p \in Purposes :
                  call' = [call EXCEPT ![k] =
                             [step |-> step, user |-> u, purpose |-> p, id |-> 0]]
  BY <1>1 DEF Register, VerifyEmail, Login, ForgotPassword, ResetPassword
<1>2. ASSUME NEW t \in Tokens, RefreshTokens(k, t) \/ Logout(k, t)
      PROVE  /\ UNCHANGED <<account, otp, token>>
             /\ call[k] = Idle
             /\ token[t].life = "live" /\ token[t].user \in Users
             /\ \E step \in {"revoke", "revokeForLogout"}, p \in Purposes :
                  call' = [call EXCEPT ![k] =
                             [step |-> step, user |-> token[t].user, purpose |-> p, id |-> t]]
  BY <1>2 DEF RefreshTokens, Logout, TokensInv
<1>3. CASE \E u \in Users : \/ Register(k, u) \/ VerifyEmail(k, u) \/ Login(k, u)
                            \/ ForgotPassword(k, u) \/ ResetPassword(k, u)
  <2>1. PICK u \in Users : \/ Register(k, u) \/ VerifyEmail(k, u) \/ Login(k, u)
                           \/ ForgotPassword(k, u) \/ ResetPassword(k, u)
    BY <1>3
  <2> QED
    BY <1>1, <2>1
<1>4. CASE \E t \in Tokens : RefreshTokens(k, t) \/ Logout(k, t)
  <2>1. PICK t \in Tokens : RefreshTokens(k, t) \/ Logout(k, t)
    BY <1>4
  <2> QED
    BY <1>2, <2>1
<1> QED
  BY <1>3, <1>4 DEF Start

\* What GoOn and Return leave in the table of handlers.
LEMMA GoOnTyped ==
  ASSUME AuthTypeOK, NEW k \in Calls, NEW step \in Steps, GoOn(k, step)
  PROVE  call' \in [Calls -> Call]
<1>1. call[k] \in Call /\ [call[k] EXCEPT !.step = step] \in Call
  BY CallTyped DEF AuthTypeOK
<1>2. call' = [call EXCEPT ![k] = [call[k] EXCEPT !.step = step]]
  BY DEF GoOn
<1> QED
  BY <1>1, <1>2 DEF AuthTypeOK

LEMMA ReturnTyped ==
  ASSUME AuthTypeOK, NEW k \in Calls, Return(k)
  PROVE  call' \in [Calls -> Call]
BY CallTyped DEF AuthTypeOK, Return

LEMMA StepsAre ==
  /\ {"idle", "createUser", "reRegister", "createOtp", "sendMail", "findOtp",
      "increment", "markUsed", "setVerified", "writePassword", "revokeAll",
      "revoke", "revokeForLogout", "rereadUser", "issueTokens"} \subseteq Steps
  /\ \A p \in Purposes : AfterCode(p) \in {"setVerified", "writePassword"}
  /\ "email_verification" \in Purposes
BY DEF Steps, AfterCode, Purposes

-----------------------------------------------------------------------------
(* Type correctness.                                                       *)

LEMMA TypeStep ==
  ASSUME AuthTypeOK, CallsInv, TokensInv, [Next]_vars
  PROVE  AuthTypeOK'
<1> USE StepsAre
<1> DEFINE U(k) == Mine(k)
<1>0. /\ \A k \in Calls : call[k] \in Call
      /\ \A k \in Calls : call[k].step # "idle" => Mine(k) \in Users
      /\ \A u \in Users : account[u] \in Account
      /\ \A i \in Otps : otp[i] \in Otp
      /\ \A t \in Tokens : token[t] \in Token
  BY DEF AuthTypeOK, CallsInv, CallOK, Mine
<1>1. ASSUME NEW k \in Calls, Start(k)
      PROVE  AuthTypeOK'
  <2>1. \A t \in Tokens : t \in Nat
    BY BoundsTyped DEF Tokens
  <2>2. PICK c \in Call : call' = [call EXCEPT ![k] = c]
    BY <1>1, <2>1, StartBegins, CallTyped
  <2> QED
    BY <1>1, <2>2, StartBegins DEF AuthTypeOK
<1>2. ASSUME NEW k \in Calls, CreateUser(k)
      PROVE  AuthTypeOK'
  <2>1. call' \in [Calls -> Call]
    BY <1>2, GoOnTyped, ReturnTyped DEF CreateUser
  <2>2. account' \in [Users -> Account]
    <3>1. \/ account' = account
          \/ account' = [account EXCEPT ![Mine(k)] = [@ EXCEPT !.standing = "active"]]
      BY <1>2 DEF CreateUser
    <3> QED
      BY <3>1, <1>0, AccountTyped DEF AuthTypeOK
  <2> QED
    BY <1>2, <2>1, <2>2 DEF CreateUser, AuthTypeOK
<1>3. ASSUME NEW k \in Calls, ReRegister(k) \/ SendMail(k) \/ RereadUser(k)
      PROVE  AuthTypeOK'
  <2>1. call' \in [Calls -> Call]
    BY <1>3, GoOnTyped, ReturnTyped DEF ReRegister, SendMail, RereadUser
  <2> QED
    BY <1>3, <2>1 DEF ReRegister, SendMail, RereadUser, AuthTypeOK
<1>4. ASSUME NEW k \in Calls, NEW i \in Otps, CreateOtp(k, i)
      PROVE  AuthTypeOK'
  <2>1. call' \in [Calls -> Call]
    BY <1>4, GoOnTyped DEF CreateOtp
  <2>2. Mine(k) \in Users /\ call[k].purpose \in Purposes
    BY <1>4, <1>0 DEF CreateOtp, At, Call
  <2>3. [otp[i] EXCEPT !.life = "fresh", !.user = Mine(k), !.purpose = call[k].purpose] \in Otp
    BY <1>0, <2>2, OtpTyped
  <2>4. otp' \in [Otps -> Otp]
    BY <1>4, <2>3 DEF CreateOtp, AuthTypeOK
  <2> QED
    BY <1>4, <2>1, <2>4 DEF CreateOtp, AuthTypeOK
<1>5. ASSUME NEW k \in Calls, NEW guess \in 0..MaxOtps, ValidateOtp(k, guess)
      PROVE  AuthTypeOK'
  <2>1. \A i \in Otps : i \in Nat
    BY BoundsTyped DEF Otps
  <2>2. \/ Return(k)
        \/ \E i \in Otps, step \in Steps :
             call' = [call EXCEPT ![k] = [@ EXCEPT !.id = i, !.step = step]]
    BY <1>5 DEF ValidateOtp, LatestOtps
  <2>3. CASE Return(k)
    BY <1>5, <2>3, ReturnTyped DEF ValidateOtp, AuthTypeOK
  <2>4. CASE ~Return(k)
    <3>1. PICK i \in Otps, step \in Steps :
            call' = [call EXCEPT ![k] = [call[k] EXCEPT !.id = i, !.step = step]]
      BY <2>2, <2>4
    <3>2. [call[k] EXCEPT !.id = i, !.step = step] \in Call
      BY <2>1, <1>0, CallTyped
    <3>3. call' \in [Calls -> Call]
      BY <3>1, <3>2 DEF AuthTypeOK
    <3> QED
      BY <1>5, <3>3 DEF ValidateOtp, AuthTypeOK
  <2> QED
    BY <2>3, <2>4
<1>6. ASSUME NEW k \in Calls, IncrementOtpAttempts(k)
      PROVE  AuthTypeOK'
  <2>1. call' \in [Calls -> Call]
    BY <1>6, ReturnTyped DEF IncrementOtpAttempts
  <2>2. InHand(k) \in Otps
    BY <1>6 DEF IncrementOtpAttempts, At, InHand, CallsInv, CallOK
  <2>3. \/ otp' = otp
        \/ otp' = [otp EXCEPT ![InHand(k)] = [otp[InHand(k)] EXCEPT !.attempts = @ + 1]]
    BY <1>6 DEF IncrementOtpAttempts
  <2>4. otp' \in [Otps -> Otp]
    BY <2>2, <2>3, <1>0, OtpTyped DEF AuthTypeOK
  <2> QED
    BY <1>6, <2>1, <2>4 DEF IncrementOtpAttempts, AuthTypeOK
<1>7. ASSUME NEW k \in Calls, MarkOtpUsed(k)
      PROVE  AuthTypeOK'
  <2>1. call[k].purpose \in Purposes
    BY <1>0 DEF Call
  <2>2. call' \in [Calls -> Call]
    BY <1>7, <2>1, ReturnTyped, GoOnTyped DEF MarkOtpUsed
  <2>3. InHand(k) \in Otps
    BY <1>7 DEF MarkOtpUsed, At, InHand, CallsInv, CallOK
  <2>4. \/ otp' = otp
        \/ otp' = [otp EXCEPT ![InHand(k)] = [otp[InHand(k)] EXCEPT !.used = @ + 1]]
    BY <1>7 DEF MarkOtpUsed
  <2>5. otp' \in [Otps -> Otp]
    BY <2>3, <2>4, <1>0, OtpTyped DEF AuthTypeOK
  <2>6. Mine(k) \in Users
    BY <1>7, <1>0 DEF MarkOtpUsed, At
  <2>7. account' \in [Users -> Account]
    <3> DEFINE b == account[Mine(k)].mailed \/ otp[InHand(k)].purpose = "email_verification"
    <3>1. b \in BOOLEAN
      BY <2>6, <1>0 DEF Account
    <3>2. [account[Mine(k)] EXCEPT !.mailed = b] \in Account
      BY <3>1, <2>6, <1>0, AccountTyped
    <3>3. \/ account' = account
          \/ account' = [account EXCEPT ![Mine(k)] = [account[Mine(k)] EXCEPT !.mailed = b]]
      BY <1>7 DEF MarkOtpUsed
    <3> QED
      BY <2>6, <3>2, <3>3, AccountsTyped DEF AuthTypeOK
  <2> QED
    BY <1>7, <2>2, <2>5, <2>7 DEF MarkOtpUsed, AuthTypeOK
<1>8. ASSUME NEW k \in Calls, SetVerified(k)
      PROVE  AuthTypeOK'
  <2>1. account' = [account EXCEPT ![Mine(k)] = [account[Mine(k)] EXCEPT !.verified = TRUE]]
    BY <1>8 DEF SetVerified
  <2>2. account' \in [Users -> Account]
    BY <2>1, <1>0, <1>8, AccountTyped DEF AuthTypeOK, SetVerified, At
  <2>3. [call[k] EXCEPT !.step = "issueTokens", !.id = 0] \in Call
    BY <1>0, CallTyped
  <2> QED
    BY <1>8, <2>2, <2>3 DEF SetVerified, AuthTypeOK
<1>9. ASSUME NEW k \in Calls, WritePassword(k)
      PROVE  AuthTypeOK'
  <2>1. call' \in [Calls -> Call]
    BY <1>9, GoOnTyped DEF WritePassword
  <2>2. \A t \in Tokens : (token[t].old \/ token[t].user = Mine(k)) \in BOOLEAN
    BY <1>0 DEF Token
  <2>3. token' \in [Tokens -> Token]
    BY <1>9, <2>2, <1>0, TokenTyped DEF WritePassword
  <2> QED
    BY <1>9, <2>1, <2>3 DEF WritePassword, AuthTypeOK
<1>10. ASSUME NEW k \in Calls, RevokeAll(k)
       PROVE  AuthTypeOK'
  <2>1. account' = [account EXCEPT ![Mine(k)] = [account[Mine(k)] EXCEPT !.cut = FALSE]]
    BY <1>10 DEF RevokeAll
  <2>2. account' \in [Users -> Account]
    BY <2>1, <1>0, <1>10, AccountTyped DEF AuthTypeOK, RevokeAll, At
  <2>3. token' \in [Tokens -> Token]
    BY <1>10, <1>0, TokenTyped DEF RevokeAll
  <2> QED
    BY <1>10, <2>2, <2>3, ReturnTyped DEF RevokeAll, AuthTypeOK
<1>11. ASSUME NEW k \in Calls, Revoke(k)
       PROVE  AuthTypeOK'
  <2>1. call' \in [Calls -> Call]
    BY <1>11, GoOnTyped, ReturnTyped DEF Revoke
  <2>2. InHand(k) \in Tokens
    BY <1>11 DEF Revoke, At, InHand, CallsInv, CallOK
  <2>3. token' \in [Tokens -> Token]
    BY <1>11, <2>2, <1>0, TokenTyped DEF Revoke, Revoked, AuthTypeOK
  <2> QED
    BY <1>11, <2>1, <2>3 DEF Revoke, AuthTypeOK
<1>12. ASSUME NEW k \in Calls, NEW t \in Tokens, IssueTokens(k, t)
       PROVE  AuthTypeOK'
  <2>1. Mine(k) \in Users
    BY <1>12, <1>0 DEF IssueTokens, At
  <2>2. InHand(k) \in 0..MaxTokens
    BY <1>12, BoundsTyped DEF IssueTokens, At, InHand, CallsInv, CallOK, Tokens
  <2>3. token' \in [Tokens -> Token]
    BY <1>12, <2>1, <2>2, TokenTyped DEF IssueTokens, AuthTypeOK
  <2> QED
    BY <1>12, <2>3, ReturnTyped DEF IssueTokens, AuthTypeOK
<1>13. ASSUME NEW k \in Calls, Abort(k)
       PROVE  AuthTypeOK'
  <2>1. \/ account' = account
        \/ At(k, "revokeAll") /\
             account' = [account EXCEPT ![Mine(k)] = [account[Mine(k)] EXCEPT !.cut = TRUE]]
    BY <1>13 DEF Abort
  <2>2. account' \in [Users -> Account]
    <3>1. CASE At(k, "revokeAll")
      <4>1. Mine(k) \in Users
        BY <3>1, <1>0 DEF At
      <4>2. [account[Mine(k)] EXCEPT !.cut = TRUE] \in Account
        BY <4>1, <1>0, AccountTyped
      <4> QED
        BY <4>1, <4>2, <2>1, AccountsTyped DEF AuthTypeOK
    <3>2. CASE ~At(k, "revokeAll")
      BY <3>2, <2>1 DEF AuthTypeOK
    <3> QED
      BY <3>1, <3>2
  <2> QED
    BY <1>13, <2>2, ReturnTyped DEF Abort, AuthTypeOK
<1>14. ASSUME NEW u \in Users, SuspendUser(u) \/ DeleteMe(u)
       PROVE  AuthTypeOK'
  <2>1. PICK s \in {"active", "suspended", "deleted"} :
          account' = [account EXCEPT ![u] = [account[u] EXCEPT !.standing = s]]
    BY <1>14 DEF SuspendUser, DeleteMe
  <2>2. account' \in [Users -> Account]
    BY <2>1, <1>0, AccountTyped, AccountsTyped DEF AuthTypeOK
  <2> QED
    BY <1>14, <2>2 DEF SuspendUser, DeleteMe, AuthTypeOK
<1>15. ASSUME NEW i \in Otps, OtpExpires(i)
       PROVE  AuthTypeOK'
  <2>1. otp' = [otp EXCEPT ![i] = [otp[i] EXCEPT !.life = "expired"]]
    BY <1>15 DEF OtpExpires
  <2> QED
    BY <1>15, <2>1, <1>0, OtpTyped DEF OtpExpires, AuthTypeOK
<1>16. ASSUME NEW t \in Tokens, TokenExpires(t)
       PROVE  AuthTypeOK'
  <2>1. token' = [token EXCEPT ![t] = [token[t] EXCEPT !.life = "dead"]]
    BY <1>16 DEF TokenExpires
  <2> QED
    BY <1>16, <2>1, <1>0, TokenTyped DEF TokenExpires, AuthTypeOK
<1>17. CASE CleanExpiredOtps
  BY <1>17, <1>0, OtpTyped DEF CleanExpiredOtps, AuthTypeOK
<1>18. CASE CleanStaleRefreshTokens
  BY <1>18, <1>0, TokenTyped DEF CleanStaleRefreshTokens, AuthTypeOK
<1>19. CASE UNCHANGED vars
  BY <1>19 DEF vars, AuthTypeOK
<1> QED
  BY <1>1, <1>2, <1>3, <1>4, <1>5, <1>6, <1>7, <1>8, <1>9, <1>10, <1>11, <1>12, <1>13,
     <1>14, <1>15, <1>16, <1>17, <1>18, <1>19 DEF Next, Resume

-----------------------------------------------------------------------------
(* How rows age.                                                           *)

TokenAges(t) ==
  \/ token'[t] = token[t]
  \/ /\ token[t].life \in {"live", "dead"}
     /\ token'[t].user = token[t].user
     /\ token'[t].parent = token[t].parent
     /\ token'[t].life = token[t].life \/ token'[t].life = "dead"
  \/ token[t].life = "dead" /\ token'[t] = NoToken("gone")
  \/ /\ token[t].life = "absent"
     /\ \E k \in Calls :
          /\ At(k, "issueTokens")
          /\ token'[t] = [life |-> "live", user |-> Mine(k),
                         parent |-> InHand(k), old |-> FALSE]

\* A token that is there keeps its owner and its parent and never comes alive.
LEMMA TokensAge ==
  ASSUME AuthTypeOK, CallsInv, TokensInv, [Next]_vars
  PROVE  \A t \in Tokens : TokenAges(t)
<1>1. CASE UNCHANGED token
  BY <1>1 DEF TokenAges
<1>2. ASSUME NEW k \in Calls, WritePassword(k)
      PROVE  \A t \in Tokens : TokenAges(t)
  <2>1. TAKE t \in Tokens
  <2>2. token'[t] = [token[t] EXCEPT !.old = @ \/ token[t].user = Mine(k)]
    BY <1>2 DEF WritePassword
  <2>3. Mine(k) \in Users
    BY <1>2 DEF WritePassword, At, Mine, CallsInv, CallOK
  <2>4. token[t] \in Token
    BY DEF AuthTypeOK
  <2>5. CASE token[t].life \in {"live", "dead"}
    BY <2>2, <2>4, <2>5 DEF TokenAges, Token
  <2>6. CASE token[t].life \notin {"live", "dead"}
    <3>1. token[t] = NoToken(token[t].life)
      BY <2>6 DEF TokensInv
    <3>2. (token[t].old \/ token[t].user = Mine(k)) = FALSE
      BY <3>1, <2>3, AuthAssumption DEF NoToken
    <3>3. token'[t] = [token[t] EXCEPT !.old = FALSE]
      BY <2>2, <3>2
    <3>4. \A row \in Token : row.old = FALSE => [row EXCEPT !.old = FALSE] = row
      BY DEF Token
    <3>5. token[t].old = FALSE
      BY <3>1 DEF NoToken
    <3>6. token'[t] = token[t]
      BY <2>4, <3>3, <3>4, <3>5
    <3> QED
      BY <3>6 DEF TokenAges
  <2> QED
    BY <2>5, <2>6
<1>3. ASSUME NEW k \in Calls, RevokeAll(k)
      PROVE  \A t \in Tokens : TokenAges(t)
  BY <1>3 DEF RevokeAll, Revocable, TokenAges, AuthTypeOK, Token
<1>4. ASSUME NEW k \in Calls, Revoke(k)
      PROVE  \A t \in Tokens : TokenAges(t)
  <2>1. /\ InHand(k) \in Tokens
        /\ token[InHand(k)].life # "absent"
    BY <1>4 DEF Revoke, At, InHand, CallsInv, CallOK
  <2>2. CASE token[InHand(k)].life = "gone"
    BY <1>4, <2>2 DEF Revoke, TokenAges
  <2>3. CASE token[InHand(k)].life # "gone"
    <3>1. token' = [token EXCEPT ![InHand(k)] = [token[InHand(k)] EXCEPT !.life = "dead"]]
      BY <1>4, <2>3 DEF Revoke, Revoked
    <3> QED
      BY <2>1, <2>3, <3>1 DEF TokenAges, AuthTypeOK, Token
  <2> QED
    BY <2>2, <2>3
<1>5. ASSUME NEW k \in Calls, NEW t \in Tokens, IssueTokens(k, t)
      PROVE  \A r \in Tokens : TokenAges(r)
  BY <1>5 DEF IssueTokens, TokenAges, AuthTypeOK
<1>6. ASSUME NEW t \in Tokens, TokenExpires(t)
      PROVE  \A r \in Tokens : TokenAges(r)
  <2>1. /\ token' = [token EXCEPT ![t] = [token[t] EXCEPT !.life = "dead"]]
        /\ token[t].life = "live"
    BY <1>6 DEF TokenExpires
  <2> QED
    BY <2>1 DEF TokenAges, AuthTypeOK, Token
<1>7. CASE CleanStaleRefreshTokens
  BY <1>7 DEF CleanStaleRefreshTokens, Purgeable, TokenAges, AuthTypeOK
<1> QED
  BY <1>1, <1>2, <1>3, <1>4, <1>5, <1>6, <1>7, StartBegins
  DEF Next, Resume, CreateUser, ReRegister, SendMail, IncrementOtpAttempts, MarkOtpUsed,
      SetVerified, RereadUser, CreateOtp, ValidateOtp, Abort, SuspendUser, DeleteMe,
      OtpExpires, CleanExpiredOtps, vars

OtpAges(i) ==
  otp[i].life # "absent" =>
    /\ otp'[i].life # "absent"
    /\ \/ otp'[i].life = "gone"
       \/ /\ otp[i].life # "gone"
          /\ otp'[i].user = otp[i].user /\ otp'[i].purpose = otp[i].purpose

\* So does a code, and what it is for.
LEMMA OtpsAge ==
  ASSUME AuthTypeOK, CallsInv, TokensInv, [Next]_vars
  PROVE  \A i \in Otps : OtpAges(i)
<1>1. CASE UNCHANGED otp
  BY <1>1 DEF OtpAges
<1>2. ASSUME NEW k \in Calls, NEW i \in Otps, CreateOtp(k, i)
      PROVE  \A j \in Otps : OtpAges(j)
  <2>1. /\ otp[i].life = "absent"
        /\ \A j \in Otps \ {i} : otp'[j] = otp[j]
    BY <1>2 DEF CreateOtp, AuthTypeOK
  <2> QED
    BY <2>1 DEF OtpAges
<1>3. ASSUME NEW k \in Calls, IncrementOtpAttempts(k) \/ MarkOtpUsed(k)
      PROVE  \A j \in Otps : OtpAges(j)
  <2>1. \/ otp' = otp
        \/ otp' = [otp EXCEPT ![InHand(k)] = [otp[InHand(k)] EXCEPT !.attempts = @ + 1]]
        \/ otp' = [otp EXCEPT ![InHand(k)] = [otp[InHand(k)] EXCEPT !.used = @ + 1]]
    BY <1>3 DEF IncrementOtpAttempts, MarkOtpUsed
  <2>2. InHand(k) \in Otps
    BY <1>3 DEF IncrementOtpAttempts, MarkOtpUsed, At, InHand, CallsInv, CallOK
  <2> QED
    BY <2>1, <2>2 DEF OtpAges, AuthTypeOK, Otp
<1>4. ASSUME NEW i \in Otps, OtpExpires(i)
      PROVE  \A j \in Otps : OtpAges(j)
  <2>1. /\ otp' = [otp EXCEPT ![i] = [otp[i] EXCEPT !.life = "expired"]]
        /\ otp[i].life = "fresh"
    BY <1>4 DEF OtpExpires
  <2> QED
    BY <2>1 DEF OtpAges, AuthTypeOK, Otp
<1>5. CASE CleanExpiredOtps
  BY <1>5 DEF CleanExpiredOtps, PurgedOtp, OtpAges, AuthTypeOK, NoOtp
<1> QED
  BY <1>1, <1>2, <1>3, <1>4, <1>5, StartBegins
  DEF Next, Resume, CreateUser, ReRegister, SendMail, WritePassword, RevokeAll, Revoke,
      SetVerified, RereadUser, ValidateOtp, IssueTokens, Abort, SuspendUser, DeleteMe,
      TokenExpires, CleanStaleRefreshTokens, vars

\* What was mailed stays mailed.
LEMMA MailedStays ==
  ASSUME AuthTypeOK, CallsInv, TokensInv, [Next]_vars
  PROVE  \A u \in Users : account[u].mailed => account'[u].mailed
<1>1. CASE UNCHANGED account
  BY <1>1
<1>2. ASSUME NEW k \in Calls, CreateUser(k) \/ SetVerified(k) \/ RevokeAll(k) \/ Abort(k)
      PROVE  \A u \in Users : account[u].mailed => account'[u].mailed
  BY <1>2 DEF CreateUser, SetVerified, RevokeAll, Abort, AuthTypeOK, Account
<1>3. ASSUME NEW k \in Calls, MarkOtpUsed(k)
      PROVE  \A u \in Users : account[u].mailed => account'[u].mailed
  BY <1>3 DEF MarkOtpUsed, AuthTypeOK, Account
<1>4. ASSUME NEW v \in Users, SuspendUser(v) \/ DeleteMe(v)
      PROVE  \A u \in Users : account[u].mailed => account'[u].mailed
  BY <1>4 DEF SuspendUser, DeleteMe, AuthTypeOK, Account
<1> QED
  BY <1>1, <1>2, <1>3, <1>4, StartBegins
  DEF Next, Resume, ReRegister, SendMail, IncrementOtpAttempts, WritePassword, Revoke,
      RereadUser, ValidateOtp, CreateOtp, IssueTokens, OtpExpires, TokenExpires,
      CleanExpiredOtps, CleanStaleRefreshTokens, vars

-----------------------------------------------------------------------------
(* Handlers in flight, tokens, and what they preserve.                     *)

\* What the others do takes nothing from a handler between two awaits.
LEMMA CallStays ==
  ASSUME AuthTypeOK, CallsInv, TokensInv, [Next]_vars, NEW k \in Calls, call'[k] = call[k]
  PROVE  CallOK(k)'
<1> DEFINE c == call[k]
<1>1. CallOK(k)
  BY DEF CallsInv
<1>2. ASSUME c.step \in {"increment", "markUsed"}
      PROVE  /\ c.id \in Otps
             /\ otp'[c.id].life # "absent"
             /\ otp'[c.id].life = "gone"
                  \/ (otp'[c.id].user = c.user /\ otp'[c.id].purpose = c.purpose)
  BY <1>1, <1>2, OtpsAge DEF CallOK, OtpAges
<1>3. ASSUME c.step \in {"revoke", "revokeForLogout"}
      PROVE  /\ c.id \in Tokens
             /\ token'[c.id].life # "absent"
             /\ token'[c.id].life = "gone" \/ token'[c.id].user = c.user
  BY <1>1, <1>3, TokensAge DEF CallOK, TokenAges, NoToken
<1>4. ASSUME c.step = "rereadUser" \/ (c.step = "issueTokens" /\ c.id # 0)
      PROVE  /\ c.id \in Tokens
             /\ token'[c.id].life = "gone"
                  \/ (token'[c.id].life = "dead" /\ token'[c.id].user = c.user)
  BY <1>1, <1>4, TokensAge DEF CallOK, TokenAges, NoToken
<1>5. ASSUME c.step = "setVerified"
      PROVE  account'[c.user].mailed
  BY <1>1, <1>5, MailedStays DEF CallOK
<1> QED
  BY <1>1, <1>2, <1>3, <1>4, <1>5 DEF CallOK

LEMMA CallsStep ==
  ASSUME AuthTypeOK, CallsInv, TokensInv, [Next]_vars
  PROVE  CallsInv'
<1>0. SUFFICES ASSUME NEW k \in Calls, call'[k] # call[k]
               PROVE  CallOK(k)'
  BY CallStays DEF CallsInv
<1>a. call \in [Calls -> Call] /\ CallOK(k)
  BY DEF AuthTypeOK, CallsInv
<1>1. ASSUME NEW j \in Calls, Start(j)
      PROVE  CallOK(k)'
  <2>1. PICK step \in Steps \ {"idle"}, u \in Users, p \in Purposes :
              \/ /\ step \in {"createUser", "reRegister", "findOtp", "issueTokens", "createOtp"}
                 /\ call' = [call EXCEPT ![j] =
                               [step |-> step, user |-> u, purpose |-> p, id |-> 0]]
              \/ \E t \in Tokens :
                   /\ token[t].life = "live" /\ token[t].user = u
                   /\ step \in {"revoke", "revokeForLogout"}
                   /\ call' = [call EXCEPT ![j] =
                                 [step |-> step, user |-> u, purpose |-> p, id |-> t]]
    BY <1>1, StartBegins
  <2>2. j = k
    BY <2>1, <1>0, <1>a
  <2>3. token' = token
    BY <1>1, StartBegins
  <2>4. CASE call' = [call EXCEPT ![j] = [step |-> step, user |-> u, purpose |-> p, id |-> 0]]
             /\ step \in {"createUser", "reRegister", "findOtp", "issueTokens", "createOtp"}
    BY <2>2, <2>4, <1>a DEF CallOK
  <2>5. ASSUME NEW t \in Tokens, token[t].life = "live", token[t].user = u,
               step \in {"revoke", "revokeForLogout"},
               call' = [call EXCEPT ![j] = [step |-> step, user |-> u, purpose |-> p, id |-> t]]
        PROVE  CallOK(k)'
    BY <2>2, <2>3, <2>5, <1>a DEF CallOK
  <2> QED
    BY <2>1, <2>4, <2>5
<1>2. ASSUME Return(k)
      PROVE  CallOK(k)'
  BY <1>2, <1>a DEF Return, Idle, CallOK
<1>3. ASSUME NEW step \in {"createOtp", "sendMail", "writePassword", "revokeAll"},
             call[k].step # "idle", GoOn(k, step)
      PROVE  CallOK(k)'
  <2>1. call'[k] = [call[k] EXCEPT !.step = step]
    BY <1>3, <1>a DEF GoOn
  <2>2. call'[k].step = step /\ call'[k].user \in Users
    BY <2>1, <1>3, <1>a DEF CallOK, Call
  <2> QED
    BY <2>2 DEF CallOK
<1>4. ASSUME NEW guess \in 0..MaxOtps, ValidateOtp(k, guess), ~Return(k)
      PROVE  CallOK(k)'
  <2>1. PICK i \in LatestOtps(Mine(k), call[k].purpose), step \in {"markUsed", "increment"} :
          call' = [call EXCEPT ![k] = [call[k] EXCEPT !.id = i, !.step = step]]
    BY <1>4 DEF ValidateOtp
  <2>2. /\ i \in Otps
        /\ otp[i].life \in {"fresh", "expired"}
        /\ otp[i].user = Mine(k) /\ otp[i].purpose = call[k].purpose
    BY DEF LatestOtps, Matches
  <2>3. /\ call'[k].step = step /\ call'[k].id = i
        /\ call'[k].user = Mine(k) /\ call'[k].purpose = call[k].purpose
        /\ Mine(k) \in Users
    BY <1>4, <2>1, <1>a DEF Call, ValidateOtp, At, CallOK, Mine
  <2>4. otp' = otp
    BY <1>4 DEF ValidateOtp
  <2> QED
    BY <2>2, <2>3, <2>4 DEF CallOK
<1>5. ASSUME MarkOtpUsed(k), ~Return(k)
      PROVE  CallOK(k)'
  <2>1. /\ GoOn(k, AfterCode(call[k].purpose))
        /\ account' = [account EXCEPT ![Mine(k)].mailed =
               @ \/ otp[InHand(k)].purpose = "email_verification"]
        /\ call[k].step = "markUsed"
        /\ otp[InHand(k)].life # "gone"
    BY <1>5 DEF MarkOtpUsed, At
  <2>2. Mine(k) \in Users /\ otp[InHand(k)].purpose = call[k].purpose
    BY <2>1, <1>a DEF CallOK, Mine, InHand
  <2>3. CASE call[k].purpose = "email_verification"
    <3>1. account'[Mine(k)].mailed
      BY <2>1, <2>2, <2>3 DEF AuthTypeOK, Account
    <3>2. call'[k].step = "setVerified" /\ call'[k].user = Mine(k)
      BY <2>1, <2>3, <1>a DEF GoOn, AfterCode, Call, Mine
    <3> QED
      BY <2>2, <3>1, <3>2 DEF CallOK
  <2>4. CASE call[k].purpose # "email_verification"
    BY <2>1, <2>4, <1>3 DEF AfterCode
  <2> QED
    BY <2>3, <2>4
<1>6. ASSUME SetVerified(k)
      PROVE  CallOK(k)'
  <2>1. /\ call'[k].step = "issueTokens" /\ call'[k].id = 0
        /\ call'[k].user \in Users
    BY <1>6, <1>a DEF SetVerified, At, CallOK, Call
  <2> QED
    BY <2>1 DEF CallOK
<1>7. ASSUME Revoke(k), ~Return(k)
      PROVE  CallOK(k)'
  <2>1. /\ GoOn(k, "rereadUser")
        /\ call[k].step = "revoke"
        /\ token[InHand(k)].life # "gone"
        /\ token' = [token EXCEPT ![InHand(k)] = [token[InHand(k)] EXCEPT !.life = "dead"]]
    BY <1>7 DEF Revoke, Revoked, At
  <2>2. InHand(k) \in Tokens /\ token[InHand(k)].user = call[k].user /\ call[k].user \in Users
    BY <2>1, <1>a DEF CallOK, InHand
  <2>3. token'[InHand(k)].life = "dead" /\ token'[InHand(k)].user = call[k].user
    BY <2>1, <2>2 DEF AuthTypeOK, Token
  <2>4. /\ call'[k].step = "rereadUser" /\ call'[k].user = call[k].user
        /\ call'[k].id = InHand(k)
    BY <2>1, <1>a DEF GoOn, Call, InHand
  <2> QED
    BY <2>2, <2>3, <2>4 DEF CallOK
<1>8. ASSUME RereadUser(k), ~Return(k)
      PROVE  CallOK(k)'
  <2>1. GoOn(k, "issueTokens") /\ call[k].step = "rereadUser" /\ token' = token
    BY <1>8 DEF RereadUser, At
  <2>2. /\ call'[k].step = "issueTokens" /\ call'[k].user = call[k].user
        /\ call'[k].id = call[k].id
    BY <2>1, <1>a DEF GoOn, Call
  <2> QED
    BY <2>1, <2>2, <1>a DEF CallOK
<1>9. ASSUME NEW j \in Calls, j # k
      PROVE  /\ ~Return(j)
             /\ \A step : ~GoOn(j, step)
             /\ \A c : call' # [call EXCEPT ![j] = c]
  BY <1>0, <1>9, <1>a DEF Return, GoOn
<1>10. ASSUME NEW j \in Calls, Resume(j)
       PROVE  CallOK(k)'
  <2>1. j = k
    BY <1>9, <1>10 DEF Resume, CreateUser, ReRegister, SendMail, IncrementOtpAttempts,
      MarkOtpUsed, SetVerified, WritePassword, RevokeAll, Revoke, RereadUser, CreateOtp,
      ValidateOtp, IssueTokens
  <2>2. CASE CreateUser(k) \/ ReRegister(k) \/ SendMail(k)
    BY <2>2, <1>2, <1>3 DEF CreateUser, ReRegister, SendMail, At
  <2>3. CASE IncrementOtpAttempts(k) \/ RevokeAll(k)
    BY <2>3, <1>2 DEF IncrementOtpAttempts, RevokeAll
  <2>4. CASE WritePassword(k) \/ \E i \in Otps : CreateOtp(k, i)
    BY <2>4, <1>3 DEF WritePassword, CreateOtp, At
  <2>5. CASE \E t \in Tokens : IssueTokens(k, t)
    BY <2>5, <1>2 DEF IssueTokens
  <2> QED
    BY <2>1, <2>2, <2>3, <2>4, <2>5, <1>2, <1>4, <1>5, <1>6, <1>7, <1>8, <1>10 DEF Resume
<1>11. ASSUME NEW j \in Calls, Abort(j)
       PROVE  CallOK(k)'
  BY <1>2, <1>9, <1>11 DEF Abort
<1> QED
  BY <1>0, <1>1, <1>10, <1>11
  DEF Next, SuspendUser, DeleteMe, OtpExpires, TokenExpires, CleanExpiredOtps,
      CleanStaleRefreshTokens, vars

LEMMA TokensStep ==
  ASSUME AuthTypeOK, CallsInv, TokensInv, [Next]_vars
  PROVE  TokensInv'
<1> SUFFICES ASSUME NEW t \in Tokens
             PROVE  IF token'[t].life \in {"live", "dead"} THEN token'[t].user \in Users
                    ELSE token'[t] = NoToken(token'[t].life)
  BY DEF TokensInv
<1>1. IF token[t].life \in {"live", "dead"} THEN token[t].user \in Users
      ELSE token[t] = NoToken(token[t].life)
  BY DEF TokensInv
<1>2. \A k \in Calls : At(k, "issueTokens") => Mine(k) \in Users
  BY DEF CallsInv, CallOK, At, Mine
<1>3. CASE token'[t] = token[t]
  BY <1>1, <1>3
<1>4. CASE token[t].life \in {"live", "dead"} /\ token'[t].user = token[t].user
           /\ (token'[t].life = token[t].life \/ token'[t].life = "dead")
  BY <1>1, <1>4
<1>5. CASE token'[t] = NoToken("gone")
  BY <1>5 DEF NoToken
<1>6. ASSUME NEW k \in Calls, At(k, "issueTokens"),
             token'[t] = [life |-> "live", user |-> Mine(k), parent |-> InHand(k), old |-> FALSE]
      PROVE  token'[t].life = "live" /\ token'[t].user \in Users
  BY <1>2, <1>6
<1> QED
  BY <1>3, <1>4, <1>5, <1>6, TokensAge DEF TokenAges

-----------------------------------------------------------------------------
(* The properties.                                                         *)

LEMMA VerifiedStep ==
  ASSUME AuthTypeOK, CallsInv, TokensInv, VerifiedByACode, [Next]_vars
  PROVE  VerifiedByACode'
<1> SUFFICES ASSUME NEW u \in Users, account'[u].verified
             PROVE  account'[u].mailed
  BY DEF VerifiedByACode
<1>1. account[u] \in Account /\ (account[u].verified => account[u].mailed)
  BY DEF AuthTypeOK, VerifiedByACode
<1>2. CASE account'[u].verified = account[u].verified
  BY <1>1, <1>2, MailedStays
<1>3. ASSUME NEW k \in Calls, SetVerified(k)
      PROVE  account'[u].mailed
  <2>1. Mine(k) \in Users /\ account[Mine(k)].mailed
    BY <1>3 DEF SetVerified, At, CallsInv, CallOK, Mine
  <2>2. CASE u = Mine(k)
    BY <2>1, <2>2, MailedStays
  <2>3. CASE u # Mine(k)
    BY <2>3, <1>1, <1>2, <1>3 DEF SetVerified, AuthTypeOK
  <2> QED
    BY <2>2, <2>3
<1>4. CASE UNCHANGED account
  BY <1>2, <1>4
<1>5. ASSUME NEW k \in Calls, CreateUser(k) \/ MarkOtpUsed(k) \/ RevokeAll(k) \/ Abort(k)
      PROVE  account'[u].verified = account[u].verified
  <2>1. \/ account' = account
        \/ \E s : account' = [account EXCEPT ![Mine(k)] = [account[Mine(k)] EXCEPT !.standing = s]]
        \/ \E b : account' = [account EXCEPT ![Mine(k)] = [account[Mine(k)] EXCEPT !.mailed = b]]
        \/ \E b : account' = [account EXCEPT ![Mine(k)] = [account[Mine(k)] EXCEPT !.cut = b]]
    BY <1>5 DEF CreateUser, MarkOtpUsed, RevokeAll, Abort
  <2> QED
    BY <2>1, <1>1 DEF AuthTypeOK, Account
<1>6. ASSUME NEW v \in Users, SuspendUser(v) \/ DeleteMe(v)
      PROVE  account'[u].verified = account[u].verified
  BY <1>6 DEF SuspendUser, DeleteMe, AuthTypeOK, Account
<1> QED
  BY <1>2, <1>3, <1>4, <1>5, <1>6, StartBegins
  DEF Next, Resume, ReRegister, SendMail, IncrementOtpAttempts, WritePassword, Revoke,
      RereadUser, ValidateOtp, CreateOtp, IssueTokens, OtpExpires, TokenExpires,
      CleanExpiredOtps, CleanStaleRefreshTokens, vars

LEMMA RotationStep ==
  ASSUME AuthTypeOK, CallsInv, TokensInv, RotationRevokesTheParent, [Next]_vars
  PROVE  RotationRevokesTheParent'
<1> SUFFICES ASSUME NEW t \in Tokens, token'[t].parent # 0
             PROVE  LET parent == token'[token'[t].parent]
                    IN  \/ parent.life = "gone"
                        \/ parent.life = "dead" /\ parent.user = token'[t].user
  BY DEF RotationRevokesTheParent
\* What is dead or gone stays so, and its owner's while it is there.
<1>1. ASSUME NEW r \in Tokens, NEW u,
             token[r].life = "gone" \/ (token[r].life = "dead" /\ token[r].user = u)
      PROVE  token'[r].life = "gone" \/ (token'[r].life = "dead" /\ token'[r].user = u)
  BY <1>1, TokensAge DEF TokenAges, NoToken
<1>2. CASE token'[t].parent = token[t].parent /\ token'[t].user = token[t].user
  <2>1. token[t].parent \in Tokens
    BY <1>2, BoundsTyped DEF AuthTypeOK, Token, Tokens
  <2> QED
    BY <2>1, <1>1, <1>2 DEF RotationRevokesTheParent
<1>3. ASSUME NEW k \in Calls, At(k, "issueTokens"),
             token'[t] = [life |-> "live", user |-> Mine(k), parent |-> InHand(k), old |-> FALSE]
      PROVE  LET parent == token'[token'[t].parent]
             IN  \/ parent.life = "gone"
                 \/ parent.life = "dead" /\ parent.user = token'[t].user
  <2>1. token'[t].parent = InHand(k) /\ token'[t].user = Mine(k)
    BY <1>3
  <2>2. /\ InHand(k) \in Tokens
        /\ token[InHand(k)].life = "gone"
             \/ (token[InHand(k)].life = "dead" /\ token[InHand(k)].user = Mine(k))
    BY <2>1, <1>3 DEF At, Mine, InHand, CallsInv, CallOK
  <2> QED
    BY <2>1, <2>2, <1>1
<1>4. CASE token'[t] = NoToken("gone")
  BY <1>4 DEF NoToken
<1> QED
  BY <1>2, <1>3, <1>4, TokensAge DEF TokenAges

LEMMA ResetStep ==
  ASSUME AuthTypeOK, CallsInv, TokensInv, ResetEndsOldSessions, [Next]_vars
  PROVE  ResetEndsOldSessions'
<1> DEFINE Excused(u) == \/ account[u].cut
                         \/ \E k \in Calls : At(k, "revokeAll") /\ Mine(k) = u
<1> SUFFICES ASSUME NEW t \in Tokens, token'[t].life = "live", token'[t].old
             PROVE  \/ account'[token'[t].user].cut
                    \/ \E k \in Calls : At(k, "revokeAll")' /\ Mine(k)' = token'[t].user
  BY DEF ResetEndsOldSessions
<1>0. /\ token[t].life = "live"
      /\ token'[t].user = token[t].user
      /\ token[t].user \in Users
  <2>1. ASSUME NEW k \in Calls
        PROVE  token'[t] # [life |-> "live", user |-> Mine(k), parent |-> InHand(k), old |-> FALSE]
    OBVIOUS
  <2>2. token'[t] # NoToken("gone")
    BY DEF NoToken
  <2>3. token[t].life = "live" => token[t].user \in Users
    BY DEF TokensInv
  <2> QED
    BY <2>1, <2>2, <2>3, TokensAge DEF TokenAges
<1>1. PICK u \in Users : u = token[t].user
  BY <1>0
<1> DEFINE Excuse == \/ account'[u].cut
                     \/ \E k \in Calls : At(k, "revokeAll")' /\ Mine(k)' = u
<1>2. SUFFICES Excuse
  BY <1>0, <1>1
<1>3. ASSUME token'[t] = token[t]
      PROVE  Excused(u)
  BY <1>0, <1>1, <1>3 DEF ResetEndsOldSessions
<1>4. ASSUME NEW k \in Calls, WritePassword(k)
      PROVE  Excuse
  <2>1. call'[k].step = "revokeAll" /\ Mine(k)' = Mine(k)
    BY <1>4 DEF WritePassword, GoOn, AuthTypeOK, Call, Mine
  <2>2. CASE Mine(k) = u
    BY <2>1, <2>2 DEF At
  <2>3. CASE Mine(k) # u
    <3>1. token'[t] = token[t]
      BY <1>0, <1>1, <1>4, <2>3 DEF WritePassword, AuthTypeOK, Token
    <3>2. PICK j \in Calls : account[u].cut \/ (At(j, "revokeAll") /\ Mine(j) = u)
      BY <3>1, <1>3
    <3> QED
      BY <3>2, <2>3, <1>4 DEF WritePassword, GoOn, At, Mine, AuthTypeOK
  <2> QED
    BY <2>2, <2>3
<1>5. ASSUME NEW k \in Calls, RevokeAll(k)
      PROVE  Excuse
  <2>1. Mine(k) # u
    BY <1>0, <1>1, <1>5 DEF RevokeAll, Revocable, AuthTypeOK, Token
  <2>2. token'[t] = token[t]
    BY <1>0, <1>1, <1>5, <2>1 DEF RevokeAll, Revocable
  <2> QED
    BY <2>1, <2>2, <1>3, <1>5 DEF RevokeAll, Return, At, Mine, AuthTypeOK
<1>6. ASSUME NEW k \in Calls, Abort(k)
      PROVE  Excuse
  <2>1. Excused(u)
    BY <1>6, <1>3 DEF Abort
  <2>2. CASE At(k, "revokeAll") /\ Mine(k) = u
    BY <2>2, <1>6 DEF Abort, AuthTypeOK, Account
  <2>3. CASE ~(At(k, "revokeAll") /\ Mine(k) = u)
    BY <2>1, <2>3, <1>6 DEF Abort, Return, At, Mine, AuthTypeOK, Account
  <2> QED
    BY <2>2, <2>3
\* Whatever else happens leaves the token, the mark and that handler alone.
<1>7. ASSUME token'[t] = token[t], account'[u].cut = account[u].cut,
             \A k \in Calls : At(k, "revokeAll") => call'[k] = call[k]
      PROVE  Excuse
  BY <1>3, <1>7 DEF At, Mine
<1>8. ASSUME NEW k \in Calls,
             \/ CreateUser(k) \/ MarkOtpUsed(k) \/ SetVerified(k) \/ Start(k)
             \/ ReRegister(k) \/ SendMail(k) \/ IncrementOtpAttempts(k) \/ RereadUser(k)
             \/ (\E i \in Otps : CreateOtp(k, i))
             \/ (\E guess \in 0..MaxOtps : ValidateOtp(k, guess))
             \/ Revoke(k) \/ (\E r \in Tokens : IssueTokens(k, r))
      PROVE  Excuse
  <2>1. call[k].step # "revokeAll"
    <3>1. CASE Start(k)
      BY <3>1, StartBegins DEF Idle
    <3>2. CASE ~Start(k)
      BY <1>8, <3>2 DEF CreateUser, MarkOtpUsed, SetVerified, ReRegister, SendMail,
        IncrementOtpAttempts, RereadUser, CreateOtp, ValidateOtp, Revoke, IssueTokens, At
    <3> QED
      BY <3>1, <3>2
  <2>2. \A j \in Calls : j # k => call'[j] = call[j]
    <3>1. \E c : call' = [call EXCEPT ![k] = c]
      BY <1>8, StartBegins DEF CreateUser, MarkOtpUsed, SetVerified, ReRegister, SendMail,
        IncrementOtpAttempts, RereadUser, CreateOtp, ValidateOtp, Revoke, IssueTokens,
        GoOn, Return
    <3> QED
      BY <3>1 DEF AuthTypeOK
  <2>3. account'[u].cut = account[u].cut
    <3>1. \/ account' = account
          \/ \E s : account' = [account EXCEPT ![Mine(k)] = [account[Mine(k)] EXCEPT !.standing = s]]
          \/ \E b : account' = [account EXCEPT ![Mine(k)] = [account[Mine(k)] EXCEPT !.mailed = b]]
          \/ \E b : account' = [account EXCEPT ![Mine(k)] = [account[Mine(k)] EXCEPT !.verified = b]]
      BY <1>8, StartBegins DEF CreateUser, MarkOtpUsed, SetVerified, ReRegister, SendMail,
        IncrementOtpAttempts, RereadUser, CreateOtp, ValidateOtp, Revoke, IssueTokens
    <3> QED
      BY <3>1 DEF AuthTypeOK, Account
  <2>4. token'[t] = token[t]
    <3>1. CASE Revoke(k)
      <4>1. \/ token' = token
            \/ token' = [token EXCEPT ![InHand(k)] = [token[InHand(k)] EXCEPT !.life = "dead"]]
        BY <3>1 DEF Revoke, Revoked
      <4> QED
        BY <4>1 DEF AuthTypeOK, Token
    <3>2. CASE \E r \in Tokens : IssueTokens(k, r)
      BY <3>2 DEF IssueTokens, AuthTypeOK
    <3>3. CASE ~Revoke(k) /\ ~\E r \in Tokens : IssueTokens(k, r)
      BY <1>8, <3>3, StartBegins DEF CreateUser, MarkOtpUsed, SetVerified, ReRegister,
        SendMail, IncrementOtpAttempts, RereadUser, CreateOtp, ValidateOtp
    <3> QED
      BY <3>1, <3>2, <3>3
  <2>5. \A j \in Calls : At(j, "revokeAll") => call'[j] = call[j]
    BY <2>1, <2>2 DEF At
  <2> QED
    BY <2>3, <2>4, <2>5, <1>7
<1>9. ASSUME NEW v \in Users, SuspendUser(v) \/ DeleteMe(v)
      PROVE  Excuse
  <2>1. UNCHANGED <<token, call>>
    BY <1>9 DEF SuspendUser, DeleteMe
  <2>2. \E s : account' = [account EXCEPT ![v] = [account[v] EXCEPT !.standing = s]]
    BY <1>9 DEF SuspendUser, DeleteMe
  <2>3. account'[u].cut = account[u].cut
    BY <2>2 DEF AuthTypeOK, Account
  <2> QED
    BY <2>1, <2>3, <1>7
<1>10. CASE (\E i \in Otps : OtpExpires(i)) \/ CleanExpiredOtps \/ UNCHANGED vars
  BY <1>10, <1>7 DEF OtpExpires, CleanExpiredOtps, vars
<1>11. ASSUME NEW r \in Tokens, TokenExpires(r)
       PROVE  Excuse
  <2>1. token' = [token EXCEPT ![r] = [token[r] EXCEPT !.life = "dead"]]
    BY <1>11 DEF TokenExpires
  <2>2. token'[t] = token[t]
    BY <2>1 DEF AuthTypeOK, Token
  <2> QED
    BY <2>2, <1>7, <1>11 DEF TokenExpires
<1>12. CASE CleanStaleRefreshTokens
  BY <1>7, <1>12 DEF CleanStaleRefreshTokens, NoToken
<1> QED
  BY <1>4, <1>5, <1>6, <1>8, <1>9, <1>10, <1>11, <1>12 DEF Next, Resume

\* One handler moves: the others go on guessing what they guessed.
Moves(k) == \A j \in Calls \ {k} : call'[j] = call[j]
Guesses(c, i) == c.step \in {"increment", "markUsed"} /\ c.id = i

LEMMA GuessingMoves ==
  ASSUME NEW k \in Calls, Moves(k), NEW i \in Otps
  PROVE  /\ Cardinality(Guessing(i)) \in Nat /\ Cardinality(Guessing(i)') \in Nat
         /\ Cardinality(Guessing(i)') = Cardinality(Guessing(i))
              + One(Guesses(call'[k], i)) - One(Guesses(call[k], i))
<1> DEFINE S == {j \in Calls : Guesses(call[j], i)}
           T == {j \in Calls : Guesses(call'[j], i)}
<1>1. S \in SUBSET Calls /\ T \in SUBSET Calls /\ S \ {k} = T \ {k}
  BY DEF Moves
<1>2. Guessing(i) = S /\ Guessing(i)' = T
  BY DEF Guessing, InHand, Guesses
<1>3. One(k \in T) = One(Guesses(call'[k], i)) /\ One(k \in S) = One(Guesses(call[k], i))
  BY DEF One
<1>4. IsFiniteSet(Calls)
  BY AuthAssumption
<1> HIDE DEF S, T
<1>5. /\ Cardinality(S) \in Nat /\ Cardinality(T) \in Nat
      /\ Cardinality(T) = Cardinality(S) + One(k \in T) - One(k \in S)
  BY <1>1, <1>4, CountStep
<1> QED
  BY <1>2, <1>3, <1>5

LEMMA GuessesBounded ==
  ASSUME NEW i \in Otps
  PROVE  /\ Cardinality(Guessing(i)') \in Nat /\ Cardinality(Calls) \in Nat
         /\ Cardinality(Guessing(i)') <= Cardinality(Calls)
<1>1. Guessing(i)' \in SUBSET Calls
  BY DEF Guessing
<1>2. IsFiniteSet(Calls)
  BY AuthAssumption
<1> QED
  BY <1>1, <1>2, CountBound

LEMMA GuessStep ==
  ASSUME AuthTypeOK, CallsInv, TokensInv, GuessesInv, [Next]_vars
  PROVE  GuessesInv'
<1> SUFFICES ASSUME NEW i \in Otps
             PROVE  otp'[i].attempts + otp'[i].used + Cardinality(Guessing(i)')
                      <= MaxAttempts - 1 + Cardinality(Calls)
  BY DEF GuessesInv
<1> DEFINE Count == otp[i].attempts + otp[i].used + Cardinality(Guessing(i))
           Bounded == otp'[i].attempts + otp'[i].used + Cardinality(Guessing(i)')
                        <= MaxAttempts - 1 + Cardinality(Calls)
<1>0. /\ otp[i].attempts \in Nat /\ otp[i].used \in Nat
      /\ otp'[i].attempts \in Nat /\ otp'[i].used \in Nat
      /\ MaxAttempts \in Nat \ {0} /\ Cardinality(Calls) \in Nat
      /\ Count <= MaxAttempts - 1 + Cardinality(Calls)
  <2>1. AuthTypeOK'
    BY TypeStep
  <2> QED
    BY <2>1, GuessesBounded, BoundsTyped DEF AuthTypeOK, Otp, GuessesInv
\* A handler moves, and not on to guess this code; the code is as it was.
<1>1. ASSUME NEW k \in Calls, Moves(k), ~Guesses(call'[k], i),
             otp'[i].attempts = otp[i].attempts, otp'[i].used = otp[i].used
      PROVE  Bounded
  <2>1. Cardinality(Guessing(i)) \in Nat /\ Cardinality(Guessing(i)') \in Nat
    BY <1>1, GuessingMoves
  <2>2. Cardinality(Guessing(i)') <= Cardinality(Guessing(i))
    BY <1>1, <2>1, GuessingMoves DEF One
  <2> QED
    BY <1>0, <1>1, <2>1, <2>2
<1>2. ASSUME call' = call, otp'[i].attempts = otp[i].attempts, otp'[i].used = otp[i].used
      PROVE  Bounded
  <2>1. Guessing(i)' = Guessing(i)
    BY <1>2 DEF Guessing, InHand
  <2> QED
    BY <2>1, <1>0, <1>2
<1>3. ASSUME NEW k \in Calls, Start(k)
      PROVE  Bounded
  <2>1. Moves(k) /\ ~Guesses(call'[k], i)
    <3>1. PICK step \in Steps \ {"idle"}, u \in Users, p \in Purposes, id \in Nat :
            /\ step \notin {"increment", "markUsed"}
            /\ call' = [call EXCEPT ![k] = [step |-> step, user |-> u, purpose |-> p, id |-> id]]
      <4>1. \A t \in Tokens : t \in Nat
        BY BoundsTyped DEF Tokens
      <4> QED
        BY <1>3, <4>1, StartBegins
    <3> QED
      BY <3>1 DEF Moves, Guesses, AuthTypeOK
  <2>2. otp' = otp
    BY <1>3, StartBegins
  <2> QED
    BY <2>1, <2>2, <1>1
<1>4. ASSUME NEW k \in Calls, NEW step \in Steps \ {"increment", "markUsed"},
             GoOn(k, step) \/ Return(k),
             otp'[i].attempts = otp[i].attempts, otp'[i].used = otp[i].used
      PROVE  Bounded
  <2>1. Moves(k)
    BY <1>4 DEF GoOn, Return, Moves, AuthTypeOK
  <2>2. call'[k].step \notin {"increment", "markUsed"}
    BY <1>4 DEF GoOn, Return, Idle, AuthTypeOK, Call
  <2> QED
    BY <2>1, <2>2, <1>1, <1>4 DEF Guesses
<1>5. ASSUME NEW k \in Calls, CreateUser(k) \/ ReRegister(k) \/ SendMail(k)
                              \/ WritePassword(k) \/ RevokeAll(k) \/ Revoke(k)
                              \/ RereadUser(k) \/ Abort(k)
      PROVE  Bounded
  BY <1>5, <1>4, StepsAre DEF CreateUser, ReRegister, SendMail, WritePassword, RevokeAll,
    Revoke, RereadUser, Abort
<1>6. ASSUME NEW k \in Calls, NEW t \in Tokens, IssueTokens(k, t)
      PROVE  Bounded
  BY <1>6, <1>4, StepsAre DEF IssueTokens
<1>7. ASSUME NEW k \in Calls, SetVerified(k)
      PROVE  Bounded
  <2>1. Moves(k) /\ call'[k].step = "issueTokens"
    BY <1>7 DEF SetVerified, Moves, AuthTypeOK, Call
  <2> QED
    BY <2>1, <1>7, <1>1 DEF SetVerified, Guesses
<1>8. ASSUME NEW k \in Calls, NEW j \in Otps, CreateOtp(k, j)
      PROVE  Bounded
  <2>1. otp'[i].attempts = otp[i].attempts /\ otp'[i].used = otp[i].used
    BY <1>8 DEF CreateOtp, AuthTypeOK, Otp
  <2> QED
    BY <2>1, <1>8, <1>4, StepsAre DEF CreateOtp
\* The check: whatever the others are at, they are no more than all handlers.
<1>9. ASSUME NEW k \in Calls, NEW guess \in 0..MaxOtps, ValidateOtp(k, guess)
      PROVE  Bounded
  <2>1. otp' = otp
    BY <1>9 DEF ValidateOtp
  <2>2. CASE Return(k)
    BY <2>1, <2>2, <1>4, StepsAre
  <2>3. CASE ~Return(k)
    <3>1. PICK j \in LatestOtps(Mine(k), call[k].purpose), step \in {"increment", "markUsed"} :
            /\ call' = [call EXCEPT ![k] = [call[k] EXCEPT !.id = j, !.step = step]]
            /\ \E l \in LatestOtps(Mine(k), call[k].purpose) :
                 ~Locked(l) /\ otp[l].life = "fresh"
      BY <1>9, <2>3 DEF ValidateOtp
    <3>2. /\ j \in Otps /\ otp[j].used = 0 /\ otp[j].attempts < MaxAttempts
      <4>1. PICK l \in LatestOtps(Mine(k), call[k].purpose) : ~Locked(l)
        BY <3>1
      <4>2. /\ j \in Otps /\ l \in Otps /\ j <= l /\ l <= j
            /\ otp[j].used = 0
        BY DEF LatestOtps, Matches
      <4>3. j = l
        BY <4>2, BoundsTyped DEF Otps
      <4> QED
        BY <4>1, <4>2, <4>3, BoundsTyped DEF Locked, AuthTypeOK, Otp
    <3>3. CASE i = j
      BY <3>2, <3>3, <2>1, <1>0, GuessesBounded
    <3>4. CASE i # j
      <4>1. Moves(k) /\ call'[k].id = j
        BY <3>1 DEF Moves, AuthTypeOK, Call
      <4> QED
        BY <3>4, <4>1, <2>1, <1>1 DEF Guesses
    <3> QED
      BY <3>3, <3>4
  <2> QED
    BY <2>2, <2>3
\* The guess is counted, and its handler is not about to count it any more.
<1>10. ASSUME NEW k \in Calls, IncrementOtpAttempts(k) \/ MarkOtpUsed(k)
       PROVE  Bounded
  <2>1. Moves(k) /\ call'[k].step \notin {"increment", "markUsed"}
    <3>1. PICK step \in {"setVerified", "writePassword"} : Return(k) \/ GoOn(k, step)
      BY <1>10 DEF IncrementOtpAttempts, MarkOtpUsed, AfterCode
    <3> QED
      BY <3>1 DEF GoOn, Return, Idle, Moves, AuthTypeOK, Call
  <2>2. call[k].step \in {"increment", "markUsed"} /\ InHand(k) \in Otps
    BY <1>10 DEF IncrementOtpAttempts, MarkOtpUsed, At, InHand, CallsInv, CallOK
  <2>3. CASE InHand(k) = i
    <3>1. otp'[i].attempts + otp'[i].used <= otp[i].attempts + otp[i].used + 1
      <4>1. \/ otp' = otp
            \/ otp' = [otp EXCEPT ![i] = [otp[i] EXCEPT !.attempts = @ + 1]]
            \/ otp' = [otp EXCEPT ![i] = [otp[i] EXCEPT !.used = @ + 1]]
        BY <1>10, <2>3 DEF IncrementOtpAttempts, MarkOtpUsed
      <4> QED
        BY <4>1, <1>0 DEF AuthTypeOK, Otp
    <3>2. /\ Cardinality(Guessing(i)) \in Nat /\ Cardinality(Guessing(i)') \in Nat
          /\ Cardinality(Guessing(i)') = Cardinality(Guessing(i)) - 1
      <4>1. One(Guesses(call'[k], i)) = 0 /\ One(Guesses(call[k], i)) = 1
        BY <2>1, <2>2, <2>3 DEF One, Guesses, InHand
      <4> QED
        BY <2>1, <4>1, GuessingMoves
    <3> QED
      BY <3>1, <3>2, <1>0
  <2>4. CASE InHand(k) # i
    <3>1. otp'[i] = otp[i]
      <4>1. \/ otp' = otp
            \/ \E row : otp' = [otp EXCEPT ![InHand(k)] = row]
        BY <1>10 DEF IncrementOtpAttempts, MarkOtpUsed
      <4> QED
        BY <4>1, <2>4 DEF AuthTypeOK
    <3> QED
      BY <3>1, <2>1, <2>2, <2>4, <1>1, <1>10 DEF Guesses, IncrementOtpAttempts, MarkOtpUsed
  <2> QED
    BY <2>3, <2>4
<1>11. ASSUME NEW j \in Otps, OtpExpires(j)
       PROVE  Bounded
  <2>1. otp' = [otp EXCEPT ![j] = [otp[j] EXCEPT !.life = "expired"]]
    BY <1>11 DEF OtpExpires
  <2>2. otp'[i].attempts = otp[i].attempts /\ otp'[i].used = otp[i].used
    BY <2>1 DEF AuthTypeOK, Otp
  <2> QED
    BY <2>2, <1>2, <1>11 DEF OtpExpires
<1>12. CASE CleanExpiredOtps
  <2>1. \/ otp'[i] = otp[i]
        \/ otp'[i].attempts = 0 /\ otp'[i].used = 0
    BY <1>12 DEF CleanExpiredOtps, NoOtp
  <2>2. CASE otp'[i] = otp[i]
    BY <2>2, <1>2, <1>12 DEF CleanExpiredOtps
  <2>3. CASE otp'[i].attempts = 0 /\ otp'[i].used = 0
    BY <2>3, <1>0, GuessesBounded
  <2> QED
    BY <2>1, <2>2, <2>3
<1> QED
  BY <1>2, <1>3, <1>5, <1>6, <1>7, <1>8, <1>9, <1>10, <1>11, <1>12
  DEF Next, Resume, SuspendUser, DeleteMe, TokenExpires, CleanStaleRefreshTokens, vars

-----------------------------------------------------------------------------
LEMMA InitAuthInv == Init => AuthInv
<1> SUFFICES ASSUME Init
             PROVE  AuthInv
  OBVIOUS
<1>1. AuthTypeOK
  BY OtpTyped, TokenTyped, CallTyped DEF Init, AuthTypeOK, Account
<1>2. CallsInv
  BY DEF Init, CallsInv, CallOK, Idle
<1>3. TokensInv
  BY DEF Init, TokensInv, NoToken
<1>4. GuessesInv
  <2>1. \A i \in Otps : Guessing(i) = {}
    BY DEF Init, Guessing, Idle
  <2>2. Cardinality({}) = 0
    BY FS_EmptySet
  <2>3. Cardinality(Calls) \in Nat
    BY AuthAssumption, FS_CardinalityType
  <2>4. \A i \in Otps : otp[i].attempts = 0 /\ otp[i].used = 0
    BY DEF Init, NoOtp
  <2> QED
    BY <2>1, <2>2, <2>3, <2>4, BoundsTyped DEF GuessesInv
<1>5. VerifiedByACode /\ RotationRevokesTheParent /\ ResetEndsOldSessions
  BY DEF Init, VerifiedByACode, RotationRevokesTheParent, ResetEndsOldSessions, NoToken
<1> QED
  BY <1>1, <1>2, <1>3, <1>4, <1>5 DEF AuthInv

\* The strengthened invariant: what a handler between two awaits relies on and
\* how rows age carry the four properties, for any number of users and handlers.
THEOREM AuthInvariant == Spec => []AuthInv
<1>1. AuthInv /\ [Next]_vars => AuthInv'
  BY TypeStep, CallsStep, TokensStep, VerifiedStep, RotationStep, ResetStep, GuessStep
  DEF AuthInv
<1> QED
  BY InitAuthInv, <1>1, PTL DEF Spec

\* Type correctness.
THEOREM AuthTyped == Spec => []AuthTypeOK
BY AuthInvariant, PTL DEF AuthInv

\* A verified address took a code that was mailed to it for that purpose.
THEOREM VerifiedTookACode == Spec => []VerifiedByACode
BY AuthInvariant, PTL DEF AuthInv

\* A token that was exchanged is dead, its successor's owner's, or gone.
THEOREM ParentsAreRevoked == Spec => []RotationRevokesTheParent
BY AuthInvariant, PTL DEF AuthInv

\* After a reset that was not cut off no session from before is alive.
THEOREM OldSessionsEnd == Spec => []ResetEndsOldSessions
BY AuthInvariant, PTL DEF AuthInv

\* A code is guessed at most as often as the limit says, and once more for every
\* other handler that checked the count before it was raised.
THEOREM GuessesAreLimited == Spec => []GuessesAreBounded
<1>1. AuthInv => GuessesAreBounded
  <2> SUFFICES ASSUME AuthInv, NEW i \in Otps
               PROVE  otp[i].attempts + otp[i].used <= MaxAttempts - 1 + Cardinality(Calls)
    BY DEF GuessesAreBounded
  <2>1. Guessing(i) \in SUBSET Calls /\ IsFiniteSet(Calls)
    BY AuthAssumption DEF Guessing
  <2>2. Cardinality(Guessing(i)) \in Nat /\ Cardinality(Calls) \in Nat
    BY <2>1, CountBound
  <2> QED
    BY <2>2, BoundsTyped DEF AuthInv, GuessesInv, AuthTypeOK, Otp
<1> QED
  BY AuthInvariant, <1>1, PTL
=============================================================================
