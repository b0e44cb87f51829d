--------------------------- MODULE IdentityProofs ---------------------------
(***************************************************************************)
(* Theorems about Identity for every value of its constants: the types,    *)
(* the slack of the hourly limit and of the rotation, the end of the       *)
(* sessions, and that challenges are one-time tickets.                     *)
(***************************************************************************)
EXTENDS Identity, FiniteSetTheorems, TLAPS

AccountRow == [state : {"NONE", "ACTIVE", "WITHDRAWN"}, password : Challenges \cup {None}]

ChallengeRow == [state : {"NONE", "OPEN", "VERIFIED", "OVER", "DELETED"},
                 purpose : Purposes, attempts : 0..MaxAttempts]

SessionRow == [state : {"NONE", "VALID", "ENDED"}, account : Accounts \cup {None},
               password : Challenges \cup {None}, exchanged : Nat, late : BOOLEAN]

RequestRow == [pc : {"idle", "counted", "matched", "resolved", "login", "token", "refresh"},
               purpose : Purposes, challenge : Challenges \cup {None},
               session : Sessions \cup {None}, account : Accounts \cup {None},
               password : Challenges \cup {None}, late : BOOLEAN]

\* What a request needs for its next step, it has read.
Refers(q) ==
  /\ q.pc \in {"matched", "resolved"} => q.challenge \in Challenges
  /\ q.pc = "resolved" /\ q.purpose # "SIGNUP" => q.account \in Accounts
  /\ q.pc \in {"login", "token", "refresh"} => q.account \in Accounts
  /\ q.pc \in {"token", "refresh"} => q.session \in Sessions

RequestsRefer == \A r \in Requests : Refers(request[r])

SessionsRefer == \A s \in Sessions : session[s].state = "VALID" => session[s].account \in Accounts

\* Of a challenge that is over, only that it was there is left.
Plain(row) ==
  /\ row.state = "NONE" => row = NoChallenge
  /\ row.state = "OVER" => row.attempts = 0
  /\ row.state = "DELETED" => row = Deleted

RowsPlain == \A c \in Challenges : Plain(challenge[c])

\* A code that was found to match had an attempt counted.
Tried(r) ==
  request[r].pc = "matched" =>
    LET row == challenge[request[r].challenge] IN
    row.state # "NONE" /\ (row.state = "OPEN" => row.attempts > 0)

\* As long as a challenge can be consumed, what the request has read with it holds:
\* its purpose, and that the account is there.
Fit(r) ==
  request[r].pc = "resolved" =>
    LET row == challenge[request[r].challenge] IN
    /\ row.state \notin {"NONE", "OPEN"}
    /\ row.state = "VERIFIED" =>
         /\ row.purpose = request[r].purpose
         /\ request[r].purpose # "SIGNUP" => Active(request[r].account)

CodesKnown == \A r \in Requests : Tried(r) /\ Fit(r)

\* Requests that have counted and not created yet.
Counted(purpose) == {r \in Requests : request[r].pc = "counted" /\ request[r].purpose = purpose}

CountedFits ==
  \A purpose \in Purposes :
    Cardinality(Recent(purpose)) + Cardinality(Counted(purpose)) <= HourlyLimit + Cardinality(Requests) - 1

\* Requests that have looked a token up and not exchanged it yet.
Holders(s) == {r \in Requests : request[r].session = s}

\* A token that is not exchanged is held by nobody, or can still be looked up; each
\* request that holds one can exchange it once.
TokenFits(s) ==
  /\ session[s].state = "NONE" => session[s].exchanged = 0 /\ Holders(s) = {}
  /\ session[s].state = "VALID" => session[s].exchanged = 0
  /\ session[s].exchanged + Cardinality(Holders(s)) <= Cardinality(Requests)

TokensInv == \A s \in Sessions : TokenFits(s)

TypeInv ==
  /\ account \in [Accounts -> AccountRow]
  /\ challenge \in [Challenges -> ChallengeRow]
  /\ session \in [Sessions -> SessionRow]
  /\ request \in [Requests -> RequestRow]
  /\ RequestsRefer
  /\ SessionsRefer

CodesInv  == RowsPlain /\ CodesKnown

Inv == TypeInv /\ CodesInv /\ CountedFits /\ TokensInv /\ SessionsEndWithPassword

USE IdentityAssumption DEF Purposes

-----------------------------------------------------------------------------
(* Types.                                                                  *)

\* The rows that statements write have their types.
LEMMA RowTypes ==
  /\ Idle \in RequestRow /\ Refers(Idle)
  /\ Deleted \in ChallengeRow /\ NoChallenge \in ChallengeRow
  /\ \A p \in Purposes : Opened(p) \in ChallengeRow
  /\ \A row \in ChallengeRow : Ended(row) \in ChallengeRow
  /\ NoSession \in SessionRow
  /\ \A row \in SessionRow : EndedSession(row) \in SessionRow /\ EndedSession(row).state = "ENDED"
  /\ \A a \in Accounts, p \in Challenges \cup {None}, late \in BOOLEAN :
       Issued(a, p, late) \in SessionRow /\ Issued(a, p, late).account = a
  <1>1. Idle \in RequestRow /\ Refers(Idle)
    BY DEF RequestRow, Idle, Refers
  <1>2. /\ Deleted \in ChallengeRow /\ NoChallenge \in ChallengeRow
        /\ \A p \in Purposes : Opened(p) \in ChallengeRow
        /\ \A row \in ChallengeRow : Ended(row) \in ChallengeRow
    BY DEF ChallengeRow, Deleted, NoChallenge, Opened, Ended
  <1>3. NoSession \in SessionRow
    BY DEF SessionRow, NoSession
  <1>4. ASSUME NEW row \in SessionRow
        PROVE  EndedSession(row) \in SessionRow /\ EndedSession(row).state = "ENDED"
    BY DEF SessionRow, NoSession, EndedSession
  <1>5. ASSUME NEW a \in Accounts, NEW p \in Challenges \cup {None}, NEW late \in BOOLEAN
        PROVE  Issued(a, p, late) \in SessionRow /\ Issued(a, p, late).account = a
    <2>1. (IF late THEN None ELSE p) \in Challenges \cup {None}
      OBVIOUS
    <2> QED BY <2>1 DEF SessionRow, NoSession, Issued
  <1> QED BY <1>1, <1>2, <1>3, <1>4, <1>5

\* A request that goes on with what it has read.
LEMMA RequestGoesOn ==
  ASSUME TypeInv, NEW r \in Requests, NEW q \in RequestRow, Refers(q),
         request' = [request EXCEPT ![r] = q]
  PROVE  request' \in [Requests -> RequestRow] /\ RequestsRefer'
  BY DEF TypeInv, RequestsRefer, Refers

\* An answered request is as at first.
LEMMA RequestAnswered ==
  ASSUME TypeInv, NEW r \in Requests, Answered(r)
  PROVE  request' \in [Requests -> RequestRow] /\ RequestsRefer'
  BY RowTypes, RequestGoesOn DEF Answered

\* Sessions that end, or begin.
LEMMA SessionsEnd ==
  ASSUME TypeInv, NEW S \in SUBSET Sessions,
         session' = [s \in Sessions |-> IF s \in S THEN EndedSession(session[s]) ELSE session[s]]
  PROVE  session' \in [Sessions -> SessionRow] /\ SessionsRefer'
  BY RowTypes DEF TypeInv, SessionsRefer

\* A session of an account begins.
LEMMA SessionBegins ==
  ASSUME TypeInv, NEW s \in Sessions, NEW a \in Accounts, NEW p \in Challenges \cup {None},
         NEW late \in BOOLEAN, session' = [session EXCEPT ![s] = Issued(a, p, late)]
  PROVE  session' \in [Sessions -> SessionRow] /\ SessionsRefer'
  BY RowTypes DEF TypeInv, SessionsRefer

\* RevokeAllRefreshTokens ends sessions.
LEMMA RevokedEnd ==
  ASSUME TypeInv, NEW a, session' = RevokeAllRefreshTokens(a)
  PROVE  session' \in [Sessions -> SessionRow] /\ SessionsRefer'
  <1> DEFINE S == {s \in Sessions : session[s].state = "VALID" /\ session[s].account = a}
  <1>1. session' = [s \in Sessions |-> IF s \in S THEN EndedSession(session[s]) ELSE session[s]]
    BY DEF RevokeAllRefreshTokens
  <1> QED BY <1>1, SessionsEnd

\* The request that was counted creates its challenge, or is answered, or goes on.
LEMMA RequestCodeTypes ==
  ASSUME TypeInv, NEW r \in Requests, RequestCode(r)
  PROVE  TypeInv'
  <1>1. ASSUME NEW p \in Purposes, CountRecentChallenges(r, p)  PROVE TypeInv'
    <2> DEFINE q == [Idle EXCEPT !.pc = "counted", !.purpose = p]
    <2>1. q \in RequestRow /\ Refers(q)
      BY DEF Idle, RequestRow, Refers
    <2>2. request' = [request EXCEPT ![r] = q]
      BY <1>1 DEF CountRecentChallenges
    <2> HIDE DEF q
    <2>3. request' \in [Requests -> RequestRow] /\ RequestsRefer'
      BY <2>1, <2>2, RequestGoesOn
    <2> QED BY <1>1, <2>3 DEF CountRecentChallenges, TypeInv, SessionsRefer
  <1>2. ASSUME NEW c \in Challenges, CreateVerificationChallenge(r, c)  PROVE TypeInv'
    <2>1. Opened(request[r].purpose) \in ChallengeRow
      <3>1. request[r].purpose \in Purposes
        BY DEF TypeInv, RequestRow
      <3> QED BY <3>1, RowTypes
    <2>2. request' \in [Requests -> RequestRow] /\ RequestsRefer'
      BY <1>2, RequestAnswered DEF CreateVerificationChallenge
    <2> QED BY <1>2, <2>1, <2>2 DEF CreateVerificationChallenge, TypeInv, SessionsRefer
  <1> QED BY <1>1, <1>2 DEF RequestCode

\* Attempts are counted up to their limit.
LEMMA VerifyCodeTypes ==
  ASSUME TypeInv, NEW r \in Requests, VerifyCode(r)
  PROVE  TypeInv'
  <1>1. ASSUME NEW c \in Challenges, IncrementChallengeAttempt(r, c)  PROVE TypeInv'
    <2>1. challenge' \in [Challenges -> ChallengeRow]
      <3>1. challenge[c].attempts + 1 \in 0..MaxAttempts
        BY <1>1 DEF IncrementChallengeAttempt, Attemptable, TypeInv, ChallengeRow
      <3> QED BY <1>1, <3>1 DEF IncrementChallengeAttempt, TypeInv, ChallengeRow
    <2> DEFINE q == [Idle EXCEPT !.pc = "matched", !.challenge = c]
    <2>2. q \in RequestRow /\ Refers(q)
      BY DEF Idle, RequestRow, Refers
    <2>3. UNCHANGED request \/ request' = [request EXCEPT ![r] = q]
      BY <1>1 DEF IncrementChallengeAttempt
    <2> HIDE DEF q
    <2>4. request' \in [Requests -> RequestRow] /\ RequestsRefer'
      <3>1. CASE UNCHANGED request
        BY <3>1 DEF TypeInv, RequestsRefer, Refers
      <3>2. CASE request' = [request EXCEPT ![r] = q]
        BY <2>2, <3>2, RequestGoesOn
      <3> QED BY <2>3, <3>1, <3>2
    <2> QED BY <1>1, <2>1, <2>4 DEF IncrementChallengeAttempt, TypeInv, SessionsRefer
  <1>2. ASSUME MarkChallengeVerified(r)  PROVE TypeInv'
    <2>1. challenge' \in [Challenges -> ChallengeRow]
      BY <1>2 DEF MarkChallengeVerified, TypeInv, ChallengeRow
    <2>2. request' \in [Requests -> RequestRow] /\ RequestsRefer'
      BY <1>2, RequestAnswered DEF MarkChallengeVerified
    <2> QED BY <1>2, <2>1, <2>2 DEF MarkChallengeVerified, TypeInv, SessionsRefer
  <1> QED BY <1>1, <1>2 DEF VerifyCode

\* A request with a verified challenge.
LEMMA UseChallengeTypes ==
  ASSUME TypeInv, NEW r \in Requests, UseChallenge(r)
  PROVE  TypeInv'
  <1>1. ASSUME NEW c \in Challenges, ResolveVerifiedChallenge(r, c)  PROVE TypeInv'
    <2>1. PICK a \in Accounts \cup {None} :
            /\ IF challenge[c].purpose = "SIGNUP" THEN a = None ELSE a \in Accounts /\ Active(a)
            /\ request' = [request EXCEPT ![r] =
                 [Idle EXCEPT !.pc = "resolved", !.purpose = challenge[c].purpose,
                              !.challenge = c, !.account = a]]
      BY <1>1 DEF ResolveVerifiedChallenge
    <2> DEFINE q == [Idle EXCEPT !.pc = "resolved", !.purpose = challenge[c].purpose,
                                 !.challenge = c, !.account = a]
    <2>2. q \in RequestRow /\ Refers(q)
      BY <2>1 DEF Idle, RequestRow, Refers, TypeInv, ChallengeRow
    <2>3. request' = [request EXCEPT ![r] = q]
      BY <2>1
    <2> HIDE DEF q
    <2>4. request' \in [Requests -> RequestRow] /\ RequestsRefer'
      BY <2>2, <2>3, RequestGoesOn
    <2> QED BY <1>1, <2>4 DEF ResolveVerifiedChallenge, TypeInv, SessionsRefer
  <1>2. ASSUME Refuse(r)  PROVE TypeInv'
    <2>1. request' \in [Requests -> RequestRow] /\ RequestsRefer'
      BY <1>2, RequestAnswered DEF Refuse
    <2> QED BY <1>2, <2>1 DEF Refuse, TypeInv, SessionsRefer
  <1>3. ASSUME NEW a \in Accounts, NEW s \in Sessions, Signup(r, a, s)  PROVE TypeInv'
    <2>1. request[r].challenge \in Challenges
      BY <1>3 DEF Signup, Resolved, TypeInv, RequestsRefer, Refers
    <2>2. request' \in [Requests -> RequestRow] /\ RequestsRefer'
      BY <1>3, RequestAnswered DEF Signup
    <2>3. session' \in [Sessions -> SessionRow] /\ SessionsRefer'
      BY <1>3, <2>1, SessionBegins DEF Signup
    <2>4. challenge' \in [Challenges -> ChallengeRow]
      BY <1>3, <2>1, RowTypes DEF Signup, ConsumeChallenge, TypeInv
    <2>5. account' \in [Accounts -> AccountRow]
      BY <1>3, <2>1 DEF Signup, TypeInv, AccountRow
    <2> QED BY <2>2, <2>3, <2>4, <2>5 DEF TypeInv
  <1>4. ASSUME ResetPassword(r)  PROVE TypeInv'
    <2>1. request[r].challenge \in Challenges /\ request[r].account \in Accounts
      BY <1>4 DEF ResetPassword, Resolved, TypeInv, RequestsRefer, Refers
    <2>2. request' \in [Requests -> RequestRow] /\ RequestsRefer'
      BY <1>4, RequestAnswered DEF ResetPassword
    <2>3. session' \in [Sessions -> SessionRow] /\ SessionsRefer'
      BY <1>4, RevokedEnd DEF ResetPassword
    <2>4. challenge' \in [Challenges -> ChallengeRow]
      BY <1>4, <2>1, RowTypes DEF ResetPassword, ConsumeChallenge, TypeInv
    <2>5. account' \in [Accounts -> AccountRow]
      BY <1>4, <2>1 DEF ResetPassword, TypeInv, AccountRow
    <2> QED BY <2>2, <2>3, <2>4, <2>5 DEF TypeInv
  <1>5. ASSUME Withdraw(r)  PROVE TypeInv'
    <2>1. request[r].challenge \in Challenges /\ request[r].account \in Accounts
      BY <1>5 DEF Withdraw, Resolved, TypeInv, RequestsRefer, Refers
    <2>2. request' \in [Requests -> RequestRow] /\ RequestsRefer'
      BY <1>5, RequestAnswered DEF Withdraw
    <2>3. session' \in [Sessions -> SessionRow] /\ SessionsRefer'
      BY <1>5, RevokedEnd DEF Withdraw
    <2>4. challenge' \in [Challenges -> ChallengeRow]
      BY <1>5, RowTypes DEF Withdraw, DeleteChallengesByEmail, TypeInv
    <2>5. account' \in [Accounts -> AccountRow]
      BY <1>5, <2>1 DEF Withdraw, TypeInv, AccountRow
    <2> QED BY <2>2, <2>3, <2>4, <2>5 DEF TypeInv
  <1> QED BY <1>1, <1>2, <1>3, <1>4, <1>5 DEF UseChallenge

\* A request with a password or a refresh token.
LEMMA UseSessionTypes ==
  ASSUME TypeInv, NEW r \in Requests, UseSession(r)
  PROVE  TypeInv'
  <1>1. ASSUME NEW a \in Accounts, Login(r, a)  PROVE TypeInv'
    <2> DEFINE q == [Idle EXCEPT !.pc = "login", !.account = a, !.password = account[a].password]
    <2>1. q \in RequestRow /\ Refers(q)
      BY DEF Idle, RequestRow, Refers, TypeInv, AccountRow
    <2>2. request' = [request EXCEPT ![r] = q]
      BY <1>1 DEF Login
    <2> HIDE DEF q
    <2>3. request' \in [Requests -> RequestRow] /\ RequestsRefer'
      BY <2>1, <2>2, RequestGoesOn
    <2> QED BY <1>1, <2>3 DEF Login, TypeInv, SessionsRefer
  <1>2. ASSUME GetAccountByID(r)  PROVE TypeInv'
    <2> DEFINE q == IF Active(request[r].account) THEN [request[r] EXCEPT !.pc = "refresh"] ELSE Idle
    <2>1. q \in RequestRow /\ Refers(q)
      <3>1. [request[r] EXCEPT !.pc = "refresh"] \in RequestRow
        BY DEF TypeInv, RequestRow
      <3>2. Refers([request[r] EXCEPT !.pc = "refresh"])
        BY <1>2 DEF GetAccountByID, RequestRow, Refers, TypeInv, RequestsRefer
      <3> QED BY <3>1, <3>2, RowTypes
    <2>2. request' = [request EXCEPT ![r] = q]
      BY <1>2 DEF GetAccountByID, TypeInv
    <2> HIDE DEF q
    <2>3. request' \in [Requests -> RequestRow] /\ RequestsRefer'
      BY <2>1, <2>2, RequestGoesOn
    <2> QED BY <1>2, <2>3 DEF GetAccountByID, TypeInv, SessionsRefer
  <1>3. ASSUME NEW s \in Sessions, CreateRefreshToken(r, s)  PROVE TypeInv'
    <2>1. request[r].account \in Accounts /\ request[r].password \in Challenges \cup {None}
      BY <1>3 DEF CreateRefreshToken, TypeInv, RequestsRefer, Refers, RequestRow
    <2>2. ChangedSince(r) \in BOOLEAN
      BY DEF ChangedSince
    <2>3. session' \in [Sessions -> SessionRow] /\ SessionsRefer'
      BY <1>3, <2>1, <2>2, SessionBegins DEF CreateRefreshToken
    <2>4. request' \in [Requests -> RequestRow] /\ RequestsRefer'
      BY <1>3, RequestAnswered DEF CreateRefreshToken
    <2> QED BY <1>3, <2>3, <2>4 DEF CreateRefreshToken, TypeInv
  <1>4. ASSUME NEW s \in Sessions, GetRefreshToken(r, s)  PROVE TypeInv'
    <2> DEFINE q == [Idle EXCEPT !.pc = "token", !.session = s, !.account = session[s].account,
                                 !.password = account[session[s].account].password,
                                 !.late = session[s].late]
    <2>1. session[s].account \in Accounts /\ session[s].late \in BOOLEAN
      BY <1>4 DEF GetRefreshToken, TypeInv, SessionsRefer, SessionRow
    <2>2. account[session[s].account].password \in Challenges \cup {None}
      BY <2>1 DEF TypeInv, AccountRow
    <2>3. q \in RequestRow /\ Refers(q)
      BY <2>1, <2>2 DEF Idle, RequestRow, Refers
    <2>4. request' = [request EXCEPT ![r] = q]
      BY <1>4 DEF GetRefreshToken
    <2> HIDE DEF q
    <2>5. request' \in [Requests -> RequestRow] /\ RequestsRefer'
      BY <2>3, <2>4, RequestGoesOn
    <2> QED BY <1>4, <2>5 DEF GetRefreshToken, TypeInv, SessionsRefer
  <1>5. ASSUME NEW s \in Sessions, Refresh(r, s)  PROVE TypeInv'
    <2>1. /\ request[r].account \in Accounts /\ request[r].password \in Challenges \cup {None}
          /\ request[r].late \in BOOLEAN /\ request[r].session \in Sessions
      BY <1>5 DEF Refresh, TypeInv, RequestsRefer, Refers, RequestRow
    <2>2. request[r].late \/ ChangedSince(r) \in BOOLEAN
      BY <2>1 DEF ChangedSince
    <2> DEFINE old == request[r].session
               new == Issued(request[r].account, request[r].password,
                             request[r].late \/ ChangedSince(r))
    <2>3. new \in SessionRow /\ new.account \in Accounts
      BY <2>1, <2>2, RowTypes
    <2>4. EndedSession(session[old]) \in SessionRow /\ EndedSession(session[old]).state = "ENDED"
      BY <2>1, RowTypes DEF TypeInv
    <2>5. session' = [[session EXCEPT ![old] = EndedSession(@)] EXCEPT ![old].exchanged = @ + 1, ![s] = new]
      BY <1>5 DEF Refresh, RevokeRefreshToken
    <2> DEFINE once == [EndedSession(session[old]) EXCEPT !.exchanged = @ + 1]
    <2>6. once \in SessionRow /\ once.state = "ENDED"
      BY <2>4 DEF SessionRow
    <2>7. session' = [t \in Sessions |-> IF t = s THEN new ELSE IF t = old THEN once ELSE session[t]]
      BY <2>1, <2>5 DEF TypeInv
    <2> HIDE DEF new, once
    <2>8. session' \in [Sessions -> SessionRow] /\ SessionsRefer'
      BY <2>3, <2>6, <2>7 DEF TypeInv, SessionsRefer
    <2>9. request' \in [Requests -> RequestRow] /\ RequestsRefer'
      BY <1>5, RequestAnswered DEF Refresh
    <2> QED BY <1>5, <2>8, <2>9 DEF Refresh, TypeInv
  <1> QED BY <1>1, <1>2, <1>3, <1>4, <1>5 DEF UseSession

\* What goes on without a request.
LEMMA OtherTypes ==
  ASSUME TypeInv,
         \/ \E r \in Requests : Abandon(r)
         \/ \E s \in Sessions : Logout(s) \/ DeleteExpiredRefreshTokens(s)
         \/ \E c \in Challenges : Expire(c) \/ DeleteExpiredChallenges(c)
         \/ UNCHANGED vars
  PROVE  TypeInv'
  <1>1. ASSUME NEW r \in Requests, Abandon(r)  PROVE TypeInv'
    <2>1. request' \in [Requests -> RequestRow] /\ RequestsRefer'
      BY <1>1, RequestAnswered DEF Abandon
    <2> QED BY <1>1, <2>1 DEF Abandon, TypeInv, SessionsRefer
  <1>2. ASSUME NEW s \in Sessions, Logout(s)  PROVE TypeInv'
    <2>1. session' \in [Sessions -> SessionRow] /\ SessionsRefer'
      BY <1>2, RowTypes DEF Logout, RevokeRefreshToken, TypeInv, SessionsRefer
    <2> QED BY <1>2, <2>1 DEF Logout, TypeInv, RequestsRefer, Refers
  <1>3. ASSUME NEW s \in Sessions, DeleteExpiredRefreshTokens(s)  PROVE TypeInv'
    <2>1. session' \in [Sessions -> SessionRow] /\ SessionsRefer'
      BY <1>3, RowTypes DEF DeleteExpiredRefreshTokens, TypeInv, SessionsRefer, NoSession
    <2> QED BY <1>3, <2>1 DEF DeleteExpiredRefreshTokens, TypeInv, RequestsRefer, Refers
  <1>4. ASSUME NEW c \in Challenges, Expire(c)  PROVE TypeInv'
    BY <1>4, RowTypes DEF Expire, TypeInv, RequestsRefer, Refers, SessionsRefer
  <1>5. ASSUME NEW c \in Challenges, DeleteExpiredChallenges(c)  PROVE TypeInv'
    BY <1>5, RowTypes DEF DeleteExpiredChallenges, TypeInv, RequestsRefer, Refers, SessionsRefer
  <1>6. ASSUME UNCHANGED vars  PROVE TypeInv'
    BY <1>6 DEF vars, TypeInv, RequestsRefer, Refers, SessionsRefer
  <1> QED BY <1>1, <1>2, <1>3, <1>4, <1>5, <1>6

\* Every step keeps the types.
LEMMA TypesKept == TypeInv /\ [Next]_vars => TypeInv'
  BY RequestCodeTypes, VerifyCodeTypes, UseChallengeTypes, UseSessionTypes, OtherTypes DEF Next

-----------------------------------------------------------------------------
(* Challenges and what requests know of them.                              *)

\* A challenge never comes back: it is not open after it was verified, nor verified
\* after it was over, and its purpose and its attempts stay.
Forward(row, next) ==
  /\ row.state # "NONE" => next.state # "NONE"
  /\ row.state # "NONE" /\ next.state = "OPEN" =>
       row.state = "OPEN" /\ (row.attempts > 0 => next.attempts > 0)
  /\ row.state \notin {"NONE", "OPEN"} /\ next.state = "VERIFIED" =>
       row.state = "VERIFIED" /\ next.purpose = row.purpose

ChallengesForward == \A c \in Challenges : Forward(challenge[c], challenge'[c])

\* An account that is withdrawn takes the challenges with it.
AccountsStay ==
  (\A a \in Accounts : Active(a) => Active(a)') \/ (\A c \in Challenges : challenge'[c].state # "VERIFIED")

\* What the requests know stays true.
LEMMA KnownStays ==
  ASSUME TypeInv, CodesInv, ChallengesForward, AccountsStay, RowsPlain',
         \A r \in Requests : request'[r] = request[r] \/ (Tried(r) /\ Fit(r))'
  PROVE  CodesInv'
  <1>1. ASSUME NEW r \in Requests, request'[r] = request[r]  PROVE Tried(r)'
    <2>1. SUFFICES ASSUME request[r].pc = "matched"
                   PROVE  /\ challenge'[request[r].challenge].state # "NONE"
                          /\ challenge'[request[r].challenge].state = "OPEN" =>
                               challenge'[request[r].challenge].attempts > 0
      BY <1>1 DEF Tried
    <2>2. request[r].challenge \in Challenges
      BY <2>1 DEF TypeInv, RequestsRefer, Refers
    <2>3. Forward(challenge[request[r].challenge], challenge'[request[r].challenge])
      BY <2>2 DEF ChallengesForward
    <2>4. Tried(r)
      BY DEF CodesInv, CodesKnown
    <2> QED BY <2>1, <2>3, <2>4 DEF Forward, Tried
  <1>2. ASSUME NEW r \in Requests, request'[r] = request[r]  PROVE Fit(r)'
    <2> DEFINE c == request[r].challenge
    <2>1. SUFFICES ASSUME request[r].pc = "resolved"
                   PROVE  /\ challenge'[c].state \notin {"NONE", "OPEN"}
                          /\ challenge'[c].state = "VERIFIED" =>
                               /\ challenge'[c].purpose = request[r].purpose
                               /\ request[r].purpose # "SIGNUP" =>
                                    account'[request[r].account].state = "ACTIVE"
      BY <1>2 DEF Fit, Active
    <2>2. c \in Challenges /\ (request[r].purpose # "SIGNUP" => request[r].account \in Accounts)
      BY <2>1 DEF TypeInv, RequestsRefer, Refers
    <2>3. Forward(challenge[c], challenge'[c])
      BY <2>2 DEF ChallengesForward
    <2>4. /\ challenge[c].state \notin {"NONE", "OPEN"}
          /\ challenge[c].state = "VERIFIED" =>
               /\ challenge[c].purpose = request[r].purpose
               /\ request[r].purpose # "SIGNUP" => Active(request[r].account)
      BY <2>1 DEF CodesInv, CodesKnown, Fit
    <2> HIDE DEF c
    <2>5. challenge'[c].state \notin {"NONE", "OPEN"}
      BY <2>2, <2>3, <2>4 DEF Forward, ChallengesForward
    <2>6. ASSUME challenge'[c].state = "VERIFIED", request[r].purpose # "SIGNUP"
          PROVE  account'[request[r].account].state = "ACTIVE"
      BY <2>2, <2>3, <2>4, <2>6 DEF Forward, AccountsStay, Active
    <2> QED BY <2>3, <2>4, <2>5, <2>6 DEF Forward
  <1> QED BY <1>1, <1>2 DEF CodesInv, CodesKnown

\* An answered request knows nothing.
LEMMA AnsweredKnows ==
  ASSUME TypeInv, NEW r \in Requests, Answered(r)
  PROVE  \A q \in Requests : request'[q] = request[q] \/ (Tried(q) /\ Fit(q))'
  BY DEF TypeInv, Answered, Idle, Tried, Fit

\* Nor does one that goes on without a challenge.
LEMMA OthersKnow ==
  ASSUME TypeInv, NEW r \in Requests, NEW q, q.pc \notin {"matched", "resolved"},
         request' = [request EXCEPT ![r] = q]
  PROVE  \A p \in Requests : request'[p] = request[p] \/ (Tried(p) /\ Fit(p))'
  BY DEF TypeInv, Tried, Fit

\* When no challenge and no account changes, nothing known changes.
LEMMA CodesUnchanged ==
  ASSUME TypeInv, CodesInv, UNCHANGED <<account, challenge>>,
         \A r \in Requests : request'[r] = request[r] \/ (Tried(r) /\ Fit(r))'
  PROVE  CodesInv'
  <1>1. ChallengesForward /\ AccountsStay /\ RowsPlain'
    BY DEF ChallengesForward, Forward, AccountsStay, Active, CodesInv, RowsPlain, Plain
  <1> QED BY <1>1, KnownStays

\* A challenge that is consumed, or expires, is over.
LEMMA EndedForward ==
  ASSUME TypeInv, RowsPlain, NEW c \in Challenges, challenge[c].state # "NONE",
         challenge' = [challenge EXCEPT ![c] = Ended(@)]
  PROVE  ChallengesForward /\ RowsPlain'
  BY DEF TypeInv, ChallengesForward, Forward, Ended, RowsPlain, Plain

\* Requests for a code.
LEMMA RequestCodeCodes ==
  ASSUME TypeInv, CodesInv, NEW r \in Requests, RequestCode(r)
  PROVE  CodesInv'
  <1>1. ASSUME NEW p \in Purposes, CountRecentChallenges(r, p)  PROVE CodesInv'
    <2>1. \A q \in Requests : request'[q] = request[q] \/ (Tried(q) /\ Fit(q))'
      BY <1>1, OthersKnow DEF CountRecentChallenges, Idle
    <2> QED BY <1>1, <2>1, CodesUnchanged DEF CountRecentChallenges
  <1>2. ASSUME NEW c \in Challenges, CreateVerificationChallenge(r, c)  PROVE CodesInv'
    <2>1. ChallengesForward /\ RowsPlain'
      BY <1>2 DEF CreateVerificationChallenge, TypeInv, ChallengesForward, Forward, CodesInv, RowsPlain,
                  Plain, Opened
    <2>2. AccountsStay
      BY <1>2 DEF CreateVerificationChallenge, AccountsStay, Active
    <2> QED BY <1>2, <2>1, <2>2, AnsweredKnows, KnownStays DEF CreateVerificationChallenge
  <1> QED BY <1>1, <1>2 DEF RequestCode

\* Attempts and verifications.
LEMMA VerifyCodeCodes ==
  ASSUME TypeInv, CodesInv, NEW r \in Requests, VerifyCode(r)
  PROVE  CodesInv'
  <1>1. ASSUME NEW c \in Challenges, IncrementChallengeAttempt(r, c)  PROVE CodesInv'
    <2>1. challenge[c].attempts \in Nat /\ challenge[c].state = "OPEN"
      BY <1>1 DEF IncrementChallengeAttempt, Attemptable, TypeInv, ChallengeRow
    <2>2. challenge' = [challenge EXCEPT ![c].attempts = @ + 1]
      BY <1>1 DEF IncrementChallengeAttempt
    <2>3. challenge'[c].attempts > 0 /\ challenge'[c].state = "OPEN"
      BY <2>1, <2>2 DEF TypeInv, ChallengeRow
    <2>4. ChallengesForward /\ RowsPlain'
      BY <2>1, <2>2, <2>3 DEF TypeInv, ChallengesForward, Forward, CodesInv, RowsPlain, Plain
    <2>5. AccountsStay
      BY <1>1 DEF IncrementChallengeAttempt, AccountsStay, Active
    <2>6. \/ UNCHANGED request
          \/ request' = [request EXCEPT ![r] = [Idle EXCEPT !.pc = "matched", !.challenge = c]]
      BY <1>1 DEF IncrementChallengeAttempt
    <2>7. ASSUME NEW q \in Requests  PROVE request'[q] = request[q] \/ (Tried(q) /\ Fit(q))'
      <3>1. request'[q] = request[q] \/ request'[q] = [Idle EXCEPT !.pc = "matched", !.challenge = c]
        BY <2>6 DEF TypeInv
      <3>2. ASSUME request'[q] = [Idle EXCEPT !.pc = "matched", !.challenge = c]
            PROVE  request'[q].pc = "matched" /\ request'[q].challenge = c
        BY <3>2 DEF Idle
      <3> QED BY <2>3, <3>1, <3>2 DEF Tried, Fit
    <2> QED BY <2>4, <2>5, <2>7, KnownStays
  <1>2. ASSUME MarkChallengeVerified(r)  PROVE CodesInv'
    <2> DEFINE c == request[r].challenge
    <2>1. c \in Challenges
      BY <1>2 DEF MarkChallengeVerified, TypeInv, RequestsRefer, Refers
    <2>2. challenge' = [challenge EXCEPT ![c].state = IF Markable(challenge[c]) THEN "VERIFIED" ELSE @]
      BY <1>2 DEF MarkChallengeVerified
    <2> HIDE DEF c
    <2>3. ChallengesForward /\ RowsPlain'
      BY <2>1, <2>2 DEF TypeInv, ChallengeRow, Markable, ChallengesForward, Forward, CodesInv, RowsPlain, Plain
    <2>4. AccountsStay
      BY <1>2 DEF MarkChallengeVerified, AccountsStay, Active
    <2> QED BY <1>2, <2>3, <2>4, AnsweredKnows, KnownStays DEF MarkChallengeVerified
  <1> QED BY <1>1, <1>2 DEF VerifyCode

\* The account of a reset stays, the one of a withdrawal leaves no challenge.
LEMMA UseChallengeCodes ==
  ASSUME TypeInv, CodesInv, NEW r \in Requests, UseChallenge(r)
  PROVE  CodesInv'
  <1> DEFINE c == request[r].challenge
  <1>1. ASSUME NEW e \in Challenges, ResolveVerifiedChallenge(r, e)  PROVE CodesInv'
    <2>1. PICK a \in Accounts \cup {None} :
            /\ IF challenge[e].purpose = "SIGNUP" THEN a = None ELSE a \in Accounts /\ Active(a)
            /\ request' = [request EXCEPT ![r] =
                 [Idle EXCEPT !.pc = "resolved", !.purpose = challenge[e].purpose,
                              !.challenge = e, !.account = a]]
      BY <1>1 DEF ResolveVerifiedChallenge
    <2>2. \A q \in Requests : request'[q] = request[q] \/ (Tried(q) /\ Fit(q))'
      BY <1>1, <2>1 DEF ResolveVerifiedChallenge, Consumable, TypeInv, Tried, Fit, Idle, Active
    <2> QED BY <1>1, <2>2, CodesUnchanged DEF ResolveVerifiedChallenge
  <1>2. CASE Refuse(r)
    BY <1>2, AnsweredKnows, CodesUnchanged DEF Refuse
  <1>3. ASSUME NEW a \in Accounts, NEW s \in Sessions, Signup(r, a, s)  PROVE CodesInv'
    <2>1. c \in Challenges /\ challenge[c].state = "VERIFIED"
      BY <1>3 DEF Signup, Resolved, Consumable, TypeInv, RequestsRefer, Refers
    <2>2. ChallengesForward /\ RowsPlain'
      BY <1>3, <2>1, EndedForward DEF Signup, ConsumeChallenge, CodesInv
    <2>3. AccountsStay
      BY <1>3 DEF Signup, AccountsStay, Active, TypeInv
    <2> QED BY <1>3, <2>2, <2>3, AnsweredKnows, KnownStays DEF Signup
  <1>4. CASE ResetPassword(r)
    <2>1. c \in Challenges /\ challenge[c].state = "VERIFIED"
      BY <1>4 DEF ResetPassword, Resolved, Consumable, TypeInv, RequestsRefer, Refers
    <2>2. ChallengesForward /\ RowsPlain'
      BY <1>4, <2>1, EndedForward DEF ResetPassword, ConsumeChallenge, CodesInv
    <2>3. AccountsStay
      BY <1>4 DEF ResetPassword, AccountsStay, Active, TypeInv, AccountRow
    <2> QED BY <1>4, <2>2, <2>3, AnsweredKnows, KnownStays DEF ResetPassword
  <1>5. CASE Withdraw(r)
    <2>1. challenge' = [e \in Challenges |-> IF challenge[e].state # "NONE" THEN Deleted ELSE challenge[e]]
      BY <1>5 DEF Withdraw, DeleteChallengesByEmail
    <2>2. ChallengesForward /\ RowsPlain'
      BY <2>1 DEF ChallengesForward, Forward, CodesInv, RowsPlain, Plain, Deleted, NoChallenge
    <2>3. AccountsStay
      BY <2>1 DEF AccountsStay, Deleted
    <2> QED BY <1>5, <2>2, <2>3, AnsweredKnows, KnownStays DEF Withdraw
  <1> QED BY <1>1, <1>2, <1>3, <1>4, <1>5 DEF UseChallenge

\* Sessions have nothing to do with challenges.
LEMMA UseSessionCodes ==
  ASSUME TypeInv, CodesInv, NEW r \in Requests, UseSession(r)
  PROVE  CodesInv'
  <1>1. ASSUME NEW a \in Accounts, Login(r, a)  PROVE CodesInv'
    <2>1. \A q \in Requests : request'[q] = request[q] \/ (Tried(q) /\ Fit(q))'
      BY <1>1, OthersKnow DEF Login, Idle
    <2> QED BY <1>1, <2>1, CodesUnchanged DEF Login
  <1>2. CASE GetAccountByID(r)
    <2>1. PICK q : q.pc \notin {"matched", "resolved"} /\ request' = [request EXCEPT ![r] = q]
      <3>1. [request[r] EXCEPT !.pc = "refresh"].pc = "refresh" /\ Idle.pc = "idle"
        BY DEF Idle, TypeInv, RequestRow
      <3> QED BY <1>2, <3>1 DEF GetAccountByID, TypeInv
    <2>2. \A p \in Requests : request'[p] = request[p] \/ (Tried(p) /\ Fit(p))'
      BY <2>1, OthersKnow
    <2> QED BY <1>2, <2>2, CodesUnchanged DEF GetAccountByID
  <1>3. ASSUME NEW s \in Sessions, CreateRefreshToken(r, s) \/ Refresh(r, s)  PROVE CodesInv'
    BY <1>3, AnsweredKnows, CodesUnchanged DEF CreateRefreshToken, Refresh
  <1>4. ASSUME NEW s \in Sessions, GetRefreshToken(r, s)  PROVE CodesInv'
    <2>1. \A q \in Requests : request'[q] = request[q] \/ (Tried(q) /\ Fit(q))'
      BY <1>4, OthersKnow DEF GetRefreshToken, Idle
    <2> QED BY <1>4, <2>1, CodesUnchanged DEF GetRefreshToken
  <1> QED BY <1>1, <1>2, <1>3, <1>4 DEF UseSession

\* What goes on without a request.
LEMMA OtherCodes ==
  ASSUME TypeInv, CodesInv,
         \/ \E r \in Requests : Abandon(r)
         \/ \E s \in Sessions : Logout(s) \/ DeleteExpiredRefreshTokens(s)
         \/ \E c \in Challenges : Expire(c) \/ DeleteExpiredChallenges(c)
         \/ UNCHANGED vars
  PROVE  CodesInv'
  <1>1. ASSUME NEW r \in Requests, Abandon(r)  PROVE CodesInv'
    BY <1>1, AnsweredKnows, CodesUnchanged DEF Abandon
  <1>2. ASSUME NEW s \in Sessions, Logout(s) \/ DeleteExpiredRefreshTokens(s)  PROVE CodesInv'
    BY <1>2, CodesUnchanged DEF Logout, DeleteExpiredRefreshTokens
  <1>3. ASSUME NEW c \in Challenges, Expire(c)  PROVE CodesInv'
    <2>1. ChallengesForward /\ RowsPlain'
      BY <1>3, EndedForward DEF Expire, CodesInv
    <2>2. AccountsStay
      BY <1>3 DEF Expire, AccountsStay, Active
    <2> QED BY <1>3, <2>1, <2>2, KnownStays DEF Expire
  <1>4. ASSUME NEW c \in Challenges, DeleteExpiredChallenges(c)  PROVE CodesInv'
    <2>1. ChallengesForward /\ RowsPlain'
      BY <1>4 DEF DeleteExpiredChallenges, TypeInv, ChallengesForward, Forward, CodesInv, RowsPlain, Plain, Deleted
    <2>2. AccountsStay
      BY <1>4 DEF DeleteExpiredChallenges, AccountsStay, Active
    <2> QED BY <1>4, <2>1, <2>2, KnownStays DEF DeleteExpiredChallenges
  <1>5. CASE UNCHANGED vars
    BY <1>5, CodesUnchanged DEF vars
  <1> QED BY <1>1, <1>2, <1>3, <1>4, <1>5

\* Every step keeps what is known of the challenges.
LEMMA CodesKept == TypeInv /\ CodesInv /\ [Next]_vars => CodesInv'
  BY RequestCodeCodes, VerifyCodeCodes, UseChallengeCodes, UseSessionCodes, OtherCodes DEF Next

-----------------------------------------------------------------------------
(* The hourly limit.                                                       *)

\* Challenges and requests are finitely many.
LEMMA CountsAreNat ==
  ASSUME NEW p
  PROVE  /\ IsFiniteSet(Recent(p)) /\ Cardinality(Recent(p)) \in Nat
         /\ IsFiniteSet(Counted(p)) /\ Cardinality(Counted(p)) \in Nat
         /\ Cardinality(Counted(p)) <= Cardinality(Requests)
         /\ Cardinality(Requests) \in Nat
  <1>1. Recent(p) \in SUBSET Challenges /\ Counted(p) \in SUBSET Requests
    BY DEF Recent, Counted
  <1> QED BY <1>1, FS_Subset, FS_CardinalityType

\* The same of the next state.
LEMMA CountsAreNatNext ==
  ASSUME NEW p
  PROVE  /\ IsFiniteSet(Recent(p)') /\ Cardinality(Recent(p)') \in Nat
         /\ IsFiniteSet(Counted(p)') /\ Cardinality(Counted(p)') \in Nat
         /\ Cardinality(Counted(p)') <= Cardinality(Requests)
  <1>1. Recent(p)' \in SUBSET Challenges /\ Counted(p)' \in SUBSET Requests
    BY DEF Recent, Counted
  <1> QED BY <1>1, FS_Subset, FS_CardinalityType

\* A set within a finite set and one element more.
LEMMA OneMore ==
  ASSUME NEW S, IsFiniteSet(S), NEW x, NEW T \in SUBSET (S \cup {x})
  PROVE  Cardinality(T) <= Cardinality(S) + 1
  <1> DEFINE U == S \cup {x}
  <1>1. IsFiniteSet(U) /\ Cardinality(U) = IF x \in S THEN Cardinality(S) ELSE Cardinality(S) + 1
    BY FS_AddElement
  <1>2. T \in SUBSET U
    OBVIOUS
  <1> HIDE DEF U
  <1>3. IsFiniteSet(T) /\ Cardinality(T) <= Cardinality(U)
    BY <1>1, <1>2, FS_Subset
  <1>4. Cardinality(T) \in Nat /\ Cardinality(U) \in Nat /\ Cardinality(S) \in Nat
    BY <1>1, <1>3, FS_CardinalityType
  <1> QED BY <1>1, <1>3, <1>4

\* A step that counts nothing and creates nothing leaves the counts or lowers them.
LEMMA CountsStay ==
  ASSUME TypeInv, CountedFits,
         \A c \in Challenges : challenge'[c].state \notin {"NONE", "DELETED"} =>
           challenge[c].state \notin {"NONE", "DELETED"} /\ challenge'[c].purpose = challenge[c].purpose,
         \A r \in Requests : request'[r].pc = "counted" => request'[r] = request[r]
  PROVE  CountedFits'
  <1>1. ASSUME NEW p \in Purposes
        PROVE  Cardinality(Recent(p)') + Cardinality(Counted(p)') <= HourlyLimit + Cardinality(Requests) - 1
    <2>1. Recent(p)' \in SUBSET Recent(p) /\ Counted(p)' \in SUBSET Counted(p)
      BY DEF Recent, Counted
    <2>2. Cardinality(Recent(p)') <= Cardinality(Recent(p)) /\ Cardinality(Counted(p)') <= Cardinality(Counted(p))
      BY <2>1, CountsAreNat, FS_Subset
    <2>3. Cardinality(Recent(p)) + Cardinality(Counted(p)) <= HourlyLimit + Cardinality(Requests) - 1
      BY DEF CountedFits
    <2> QED BY <2>2, <2>3, CountsAreNat, CountsAreNatNext
  <1> QED BY <1>1 DEF CountedFits

\* Whoever counts has found room for one, and the others may do so at the same time.
LEMMA RequestCodeCounts ==
  ASSUME TypeInv, CountedFits, NEW r \in Requests, RequestCode(r)
  PROVE  CountedFits'
  <1>1. ASSUME NEW p \in Purposes, CountRecentChallenges(r, p)  PROVE CountedFits'
    <2>1. ASSUME NEW u \in Purposes
          PROVE  Cardinality(Recent(u)') + Cardinality(Counted(u)') <= HourlyLimit + Cardinality(Requests) - 1
      <3>1. Recent(u)' = Recent(u)
        BY <1>1 DEF CountRecentChallenges, Recent
      <3>2. CASE u = p
        <4>1. Cardinality(Recent(u)) < HourlyLimit
          BY <1>1, <3>2 DEF CountRecentChallenges
        <4> QED BY <3>1, <4>1, CountsAreNat, CountsAreNatNext
      <3>3. CASE u # p
        <4>1. Counted(u)' \in SUBSET Counted(u)
          BY <1>1, <3>3 DEF CountRecentChallenges, Counted, TypeInv, Idle
        <4>2. Cardinality(Counted(u)') <= Cardinality(Counted(u))
          BY <4>1, CountsAreNat, FS_Subset
        <4>3. Cardinality(Recent(u)) + Cardinality(Counted(u)) <= HourlyLimit + Cardinality(Requests) - 1
          BY DEF CountedFits
        <4> QED BY <3>1, <4>2, <4>3, CountsAreNat, CountsAreNatNext
      <3> QED BY <3>2, <3>3
    <2> QED BY <2>1 DEF CountedFits
  <1>2. ASSUME NEW c \in Challenges, CreateVerificationChallenge(r, c)  PROVE CountedFits'
    <2>1. ASSUME NEW u \in Purposes
          PROVE  Cardinality(Recent(u)') + Cardinality(Counted(u)') <= HourlyLimit + Cardinality(Requests) - 1
      <3>1. Cardinality(Recent(u)) + Cardinality(Counted(u)) <= HourlyLimit + Cardinality(Requests) - 1
        BY DEF CountedFits
      <3>2. CASE u = request[r].purpose
        <4>1. Recent(u)' \in SUBSET (Recent(u) \cup {c})
          BY <1>2 DEF CreateVerificationChallenge, Recent, TypeInv
        <4>2. Cardinality(Recent(u)') <= Cardinality(Recent(u)) + 1
          BY <4>1, CountsAreNat, OneMore
        <4>3. r \in Counted(u) /\ Counted(u)' = Counted(u) \ {r}
          BY <1>2, <3>2 DEF CreateVerificationChallenge, Answered, Idle, Counted, TypeInv
        <4>4. Cardinality(Counted(u)') = Cardinality(Counted(u)) - 1
          BY <4>3, CountsAreNat, FS_RemoveElement
        <4> QED BY <3>1, <4>2, <4>4, CountsAreNat, CountsAreNatNext
      <3>3. CASE u # request[r].purpose
        <4>1. Recent(u)' \in SUBSET Recent(u) /\ Counted(u)' \in SUBSET Counted(u)
          BY <1>2, <3>3 DEF CreateVerificationChallenge, Answered, Idle, Opened, Recent, Counted, TypeInv
        <4>2. Cardinality(Recent(u)') <= Cardinality(Recent(u)) /\ Cardinality(Counted(u)') <= Cardinality(Counted(u))
          BY <4>1, CountsAreNat, FS_Subset
        <4> QED BY <3>1, <4>2, CountsAreNat, CountsAreNatNext
      <3> QED BY <3>2, <3>3
    <2> QED BY <2>1 DEF CountedFits
  <1> QED BY <1>1, <1>2 DEF RequestCode

\* Every step keeps the counts within the limit and its slack.
LEMMA CountsKept == TypeInv /\ CountedFits /\ [Next]_vars => CountedFits'
  <1> SUFFICES ASSUME TypeInv, CountedFits, [Next]_vars  PROVE CountedFits'
    OBVIOUS
  <1>1. ASSUME NEW r \in Requests, VerifyCode(r)  PROVE CountedFits'
    <2>1. ASSUME NEW c \in Challenges, IncrementChallengeAttempt(r, c)  PROVE CountedFits'
      <3>1. \A e \in Challenges :
              /\ challenge'[e].state = challenge[e].state
              /\ challenge'[e].purpose = challenge[e].purpose
        BY <2>1 DEF IncrementChallengeAttempt, TypeInv, ChallengeRow
      <3>2. \A q \in Requests : request'[q].pc = "counted" => request'[q] = request[q]
        <4>1. CASE UNCHANGED request
          BY <4>1
        <4>2. CASE request' = [request EXCEPT ![r] = [Idle EXCEPT !.pc = "matched", !.challenge = c]]
          BY <4>2 DEF TypeInv, Idle
        <4> QED BY <2>1, <4>1, <4>2 DEF IncrementChallengeAttempt
      <3> QED BY <3>1, <3>2, CountsStay
    <2>2. CASE MarkChallengeVerified(r)
      BY <2>2, CountsStay DEF MarkChallengeVerified, Markable, Answered, TypeInv, ChallengeRow, Idle
    <2> QED BY <1>1, <2>1, <2>2 DEF VerifyCode
  <1>2. ASSUME NEW r \in Requests, UseChallenge(r)  PROVE CountedFits'
    <2>1. ASSUME NEW c \in Challenges, ResolveVerifiedChallenge(r, c)  PROVE CountedFits'
      BY <2>1, CountsStay DEF ResolveVerifiedChallenge, TypeInv, Idle
    <2>2. CASE Refuse(r)
      BY <2>2, CountsStay DEF Refuse, Answered, TypeInv, Idle
    <2>3. ASSUME NEW a \in Accounts, NEW s \in Sessions, Signup(r, a, s)  PROVE CountedFits'
      BY <2>3, CountsStay DEF Signup, Consumable, ConsumeChallenge, Ended, Answered, TypeInv, Idle
    <2>4. CASE ResetPassword(r)
      BY <2>4, CountsStay DEF ResetPassword, Consumable, ConsumeChallenge, Ended, Answered, TypeInv, Idle
    <2>5. CASE Withdraw(r)
      BY <2>5, CountsStay DEF Withdraw, DeleteChallengesByEmail, Deleted, Answered, TypeInv, Idle
    <2> QED BY <1>2, <2>1, <2>2, <2>3, <2>4, <2>5 DEF UseChallenge
  <1>3. ASSUME NEW r \in Requests, UseSession(r)  PROVE CountedFits'
    <2>1. ASSUME NEW a \in Accounts, Login(r, a)  PROVE CountedFits'
      BY <2>1, CountsStay DEF Login, TypeInv, Idle
    <2>2. CASE GetAccountByID(r)
      BY <2>2, CountsStay DEF GetAccountByID, TypeInv, RequestRow, Idle
    <2>3. ASSUME NEW s \in Sessions, CreateRefreshToken(r, s) \/ Refresh(r, s)  PROVE CountedFits'
      BY <2>3, CountsStay DEF CreateRefreshToken, Refresh, Answered, TypeInv, Idle
    <2>4. ASSUME NEW s \in Sessions, GetRefreshToken(r, s)  PROVE CountedFits'
      BY <2>4, CountsStay DEF GetRefreshToken, TypeInv, Idle
    <2> QED BY <1>3, <2>1, <2>2, <2>3, <2>4 DEF UseSession
  <1>4. ASSUME NEW r \in Requests, Abandon(r)  PROVE CountedFits'
    BY <1>4, CountsStay DEF Abandon, Answered, TypeInv, Idle
  <1>5. ASSUME NEW s \in Sessions, Logout(s) \/ DeleteExpiredRefreshTokens(s)  PROVE CountedFits'
    BY <1>5, CountsStay DEF Logout, DeleteExpiredRefreshTokens
  <1>6. ASSUME NEW c \in Challenges, Expire(c)  PROVE CountedFits'
    BY <1>6, CountsStay DEF Expire, Ended, TypeInv
  <1>7. ASSUME NEW c \in Challenges, DeleteExpiredChallenges(c)  PROVE CountedFits'
    BY <1>7, CountsStay DEF DeleteExpiredChallenges, Deleted, TypeInv
  <1>8. CASE UNCHANGED vars
    BY <1>8, CountsStay DEF vars
  <1> QED BY <1>1, <1>2, <1>3, <1>4, <1>5, <1>6, <1>7, <1>8, RequestCodeCounts DEF Next

-----------------------------------------------------------------------------
(* Refresh tokens.                                                         *)

\* The requests that hold a token are finitely many, now and in the next state.
LEMMA HoldersAreNat ==
  ASSUME NEW s
  PROVE  /\ IsFiniteSet(Holders(s)) /\ Cardinality(Holders(s)) \in Nat
         /\ Cardinality(Holders(s)) <= Cardinality(Requests)
         /\ IsFiniteSet(Holders(s)') /\ Cardinality(Holders(s)') \in Nat
         /\ Cardinality(Holders(s)') <= Cardinality(Requests)
         /\ Cardinality(Requests) \in Nat
  <1>1. Holders(s) \in SUBSET Requests /\ Holders(s)' \in SUBSET Requests
    BY DEF Holders
  <1>2. IsFiniteSet(Holders(s)) /\ Cardinality(Holders(s)) <= Cardinality(Requests)
    BY <1>1, FS_Subset
  <1>3. IsFiniteSet(Holders(s)') /\ Cardinality(Holders(s)') <= Cardinality(Requests)
    BY <1>1, FS_Subset
  <1> QED BY <1>2, <1>3, FS_CardinalityType

\* A token that stays, or ends, and that nobody looks up.
LEMMA TokenStays ==
  ASSUME TypeInv, NEW s \in Sessions, TokenFits(s), Holders(s)' \in SUBSET Holders(s),
         session'[s].exchanged = session[s].exchanged,
         session'[s].state = session[s].state \/ session'[s].state = "ENDED"
  PROVE  TokenFits(s)'
  <1>1. Cardinality(Holders(s)') <= Cardinality(Holders(s))
    BY HoldersAreNat, FS_Subset
  <1>2. session[s].exchanged \in Nat
    BY DEF TypeInv, SessionRow
  <1>3. session'[s].exchanged + Cardinality(Holders(s)') <= Cardinality(Requests)
    BY <1>1, <1>2, HoldersAreNat DEF TokenFits
  <1> QED BY <1>3 DEF TokenFits

\* A token that nobody has looked up.
LEMMA TokenNew ==
  ASSUME NEW s \in Sessions, Holders(s)' = {}, session'[s].exchanged = 0
  PROVE  TokenFits(s)'
  <1>1. Cardinality(Holders(s)') = 0
    BY FS_EmptySet
  <1>2. session'[s].exchanged + Cardinality(Holders(s)') <= Cardinality(Requests)
    BY <1>1, HoldersAreNat
  <1> QED BY <1>2 DEF TokenFits

\* All of them at once.
LEMMA TokensStay ==
  ASSUME TypeInv, TokensInv, \A s \in Sessions : Holders(s)' \in SUBSET Holders(s),
         \A s \in Sessions :
           /\ session'[s].exchanged = session[s].exchanged
           /\ session'[s].state = session[s].state \/ session'[s].state = "ENDED"
  PROVE  TokensInv'
  BY TokenStays DEF TokensInv

\* A token that begins: nobody can have looked it up.
LEMMA TokenBegins ==
  ASSUME TypeInv, TokensInv, \A t \in Sessions : Holders(t)' \in SUBSET Holders(t),
         NEW s \in Sessions, session[s].state = "NONE", NEW row, row.exchanged = 0,
         session' = [session EXCEPT ![s] = row]
  PROVE  TokensInv'
  <1>1. TokenFits(s)'
    <2>1. Holders(s)' = {}
      BY DEF TokensInv, TokenFits
    <2> QED BY <2>1, TokenNew DEF TypeInv
  <1>2. ASSUME NEW t \in Sessions, t # s  PROVE TokenFits(t)'
    BY <1>2, TokenStays DEF TokensInv, TypeInv
  <1> QED BY <1>1, <1>2 DEF TokensInv

\* Requests that look nothing up gain no token.
LEMMA HoldersStay ==
  ASSUME \A p \in Requests : request'[p].session \in {None, request[p].session}
  PROVE  \A s \in Sessions : Holders(s)' \in SUBSET Holders(s)
  BY DEF Holders

\* An answered request holds nothing.
LEMMA HoldersAnswered ==
  ASSUME TypeInv, NEW r \in Requests, Answered(r)
  PROVE  \A s \in Sessions : Holders(s)' \in SUBSET Holders(s)
  <1>1. Idle.session = None
    BY DEF Idle
  <1>2. request' = [request EXCEPT ![r] = Idle]
    BY DEF Answered
  <1>3. \A p \in Requests : request'[p].session \in {None, request[p].session}
    BY <1>1, <1>2 DEF TypeInv
  <1> QED BY <1>3, HoldersStay

\* The tokens of an account end together.
LEMMA RevokedStay ==
  ASSUME NEW a, session' = RevokeAllRefreshTokens(a), NEW s \in Sessions
  PROVE  /\ session'[s].exchanged = session[s].exchanged
         /\ session'[s].state = session[s].state \/ session'[s].state = "ENDED"
  BY DEF RevokeAllRefreshTokens, EndedSession, NoSession

\* Requests that have to do with codes.
LEMMA CodeTokens ==
  ASSUME TypeInv, TokensInv, NEW r \in Requests, RequestCode(r) \/ VerifyCode(r)
  PROVE  TokensInv'
  <1>1. UNCHANGED session
    BY DEF RequestCode, CountRecentChallenges, CreateVerificationChallenge, VerifyCode,
           IncrementChallengeAttempt, MarkChallengeVerified
  <1>2. \A s \in Sessions : Holders(s)' \in SUBSET Holders(s)
    <2>1. ASSUME NEW p \in Purposes, CountRecentChallenges(r, p)
          PROVE  \A s \in Sessions : Holders(s)' \in SUBSET Holders(s)
      <3> DEFINE q == [Idle EXCEPT !.pc = "counted", !.purpose = p]
      <3>1. (q.session = None \/ q.session = request[r].session) /\ request' = [request EXCEPT ![r] = q]
        BY <2>1 DEF CountRecentChallenges, Idle
      <3> HIDE DEF q
      <3>2. \A t \in Requests : request'[t].session \in {None, request[t].session}
        BY <3>1 DEF TypeInv
      <3> QED BY <3>2, HoldersStay
    <2>2. ASSUME NEW c \in Challenges, IncrementChallengeAttempt(r, c)
          PROVE  \A s \in Sessions : Holders(s)' \in SUBSET Holders(s)
      <3> DEFINE q == [Idle EXCEPT !.pc = "matched", !.challenge = c]
      <3>1. (q.session = None \/ q.session = request[r].session)
        BY DEF Idle
      <3>2. UNCHANGED request \/ request' = [request EXCEPT ![r] = q]
        BY <2>2 DEF IncrementChallengeAttempt
      <3> HIDE DEF q
      <3>3. \A p \in Requests : request'[p].session \in {None, request[p].session}
        BY <3>1, <3>2 DEF TypeInv
      <3> QED BY <3>3, HoldersStay
    <2>3. ASSUME NEW c \in Challenges, CreateVerificationChallenge(r, c)
          PROVE  \A s \in Sessions : Holders(s)' \in SUBSET Holders(s)
      BY <2>3, HoldersAnswered DEF CreateVerificationChallenge
    <2>4. CASE MarkChallengeVerified(r)
      BY <2>4, HoldersAnswered DEF MarkChallengeVerified
    <2> QED BY <2>1, <2>2, <2>3, <2>4 DEF RequestCode, VerifyCode
  <1> QED BY <1>1, <1>2, TokensStay

\* Requests that use a verified challenge.
LEMMA UseChallengeTokens ==
  ASSUME TypeInv, TokensInv, NEW r \in Requests, UseChallenge(r)
  PROVE  TokensInv'
  <1>1. ASSUME NEW c \in Challenges, ResolveVerifiedChallenge(r, c)  PROVE TokensInv'
    <2>1. PICK a \in Accounts \cup {None} :
            request' = [request EXCEPT ![r] =
              [Idle EXCEPT !.pc = "resolved", !.purpose = challenge[c].purpose,
                           !.challenge = c, !.account = a]]
      BY <1>1 DEF ResolveVerifiedChallenge
    <2> DEFINE q == [Idle EXCEPT !.pc = "resolved", !.purpose = challenge[c].purpose,
                                 !.challenge = c, !.account = a]
    <2>2. (q.session = None \/ q.session = request[r].session) /\ request' = [request EXCEPT ![r] = q]
      BY <2>1 DEF Idle
    <2> HIDE DEF q
    <2>3. \A s \in Sessions : Holders(s)' \in SUBSET Holders(s)
      <3>1. \A p \in Requests : request'[p].session \in {None, request[p].session}
        BY <2>2 DEF TypeInv
      <3> QED BY <3>1, HoldersStay
    <2> QED BY <1>1, <2>3, TokensStay DEF ResolveVerifiedChallenge
  <1>2. CASE Refuse(r)
    BY <1>2, HoldersAnswered, TokensStay DEF Refuse
  <1>3. ASSUME NEW a \in Accounts, NEW s \in Sessions, Signup(r, a, s)  PROVE TokensInv'
    <2> DEFINE row == Issued(a, request[r].challenge, FALSE)
    <2>1. row.exchanged = 0
      BY DEF Issued, NoSession
    <2>2. session[s].state = "NONE" /\ session' = [session EXCEPT ![s] = row] /\ Answered(r)
      BY <1>3 DEF Signup
    <2> HIDE DEF row
    <2> QED BY <2>1, <2>2, HoldersAnswered, TokenBegins
  <1>4. CASE ResetPassword(r)
    BY <1>4, HoldersAnswered, RevokedStay, TokensStay DEF ResetPassword
  <1>5. CASE Withdraw(r)
    BY <1>5, HoldersAnswered, RevokedStay, TokensStay DEF Withdraw
  <1> QED BY <1>1, <1>2, <1>3, <1>4, <1>5 DEF UseChallenge

\* A token that is looked up was never exchanged; of those that hold one, each that
\* exchanges it lets go of it.
LEMMA UseSessionTokens ==
  ASSUME TypeInv, TokensInv, NEW r \in Requests, UseSession(r)
  PROVE  TokensInv'
  <1>1. ASSUME NEW a \in Accounts, Login(r, a)  PROVE TokensInv'
    <2> DEFINE q == [Idle EXCEPT !.pc = "login", !.account = a, !.password = account[a].password]
    <2>1. (q.session = None \/ q.session = request[r].session) /\ request' = [request EXCEPT ![r] = q]
      BY <1>1 DEF Login, Idle
    <2> HIDE DEF q
    <2>2. \A s \in Sessions : Holders(s)' \in SUBSET Holders(s)
      <3>1. \A p \in Requests : request'[p].session \in {None, request[p].session}
        BY <2>1 DEF TypeInv
      <3> QED BY <3>1, HoldersStay
    <2> QED BY <1>1, <2>2, TokensStay DEF Login
  <1>2. CASE GetAccountByID(r)
    <2> DEFINE q == IF Active(request[r].account) THEN [request[r] EXCEPT !.pc = "refresh"] ELSE Idle
    <2>1. (q.session = None \/ q.session = request[r].session)
      BY DEF Idle, TypeInv, RequestRow
    <2>2. request' = [request EXCEPT ![r] = q]
      BY <1>2 DEF GetAccountByID, TypeInv
    <2> HIDE DEF q
    <2>3. \A s \in Sessions : Holders(s)' \in SUBSET Holders(s)
      <3>1. \A p \in Requests : request'[p].session \in {None, request[p].session}
        BY <2>1, <2>2 DEF TypeInv
      <3> QED BY <3>1, HoldersStay
    <2> QED BY <1>2, <2>3, TokensStay DEF GetAccountByID
  <1>3. ASSUME NEW s \in Sessions, CreateRefreshToken(r, s)  PROVE TokensInv'
    <2> DEFINE row == Issued(request[r].account, request[r].password, ChangedSince(r))
    <2>1. row.exchanged = 0
      BY DEF Issued, NoSession
    <2>2. session[s].state = "NONE" /\ session' = [session EXCEPT ![s] = row] /\ Answered(r)
      BY <1>3 DEF CreateRefreshToken
    <2> HIDE DEF row
    <2> QED BY <2>1, <2>2, HoldersAnswered, TokenBegins
  <1>4. ASSUME NEW s \in Sessions, GetRefreshToken(r, s)  PROVE TokensInv'
    <2>1. session'= session /\ session[s].state = "VALID"
      BY <1>4 DEF GetRefreshToken
    <2>2. session[s].exchanged = 0
      BY <2>1 DEF TokensInv, TokenFits
    <2>3. TokenFits(s)'
      BY <2>1, <2>2, HoldersAreNat DEF TokenFits
    <2>4. request'[r].session = s /\ \A p \in Requests \ {r} : request'[p] = request[p]
      BY <1>4 DEF GetRefreshToken, TypeInv, Idle
    <2>5. ASSUME NEW t \in Sessions, t # s  PROVE TokenFits(t)'
      <3>1. Holders(t)' \in SUBSET Holders(t)
        BY <2>4, <2>5 DEF Holders
      <3> QED BY <2>1, <3>1, TokenStays DEF TokensInv
    <2> QED BY <2>3, <2>5 DEF TokensInv
  <1>5. ASSUME NEW s \in Sessions, Refresh(r, s)  PROVE TokensInv'
    <2>0. PICK old \in Sessions : old = request[r].session
      BY <1>5 DEF Refresh, TypeInv, RequestsRefer, Refers
    <2>1. session[s].state = "NONE" /\ Answered(r)
      BY <1>5 DEF Refresh
    <2>2. r \in Holders(old) /\ s # old
      BY <2>0, <2>1 DEF TokensInv, TokenFits, Holders
    <2>3. \A t \in Sessions : Holders(t)' \in SUBSET Holders(t)
      BY <2>1, HoldersAnswered
    <2>4. TokenFits(s)'
      <3>1. session'[s] = Issued(request[r].account, request[r].password, request[r].late \/ ChangedSince(r))
        BY <1>5, <2>0, <2>2 DEF Refresh, RevokeRefreshToken, TypeInv
      <3>2. session'[s].exchanged = 0
        BY <3>1 DEF Issued, NoSession
      <3>3. Holders(s)' = {}
        BY <2>1, <2>3 DEF TokensInv, TokenFits
      <3> QED BY <3>2, <3>3, TokenNew
    <2>5. TokenFits(old)'
      <3>1. session'[old] = [EndedSession(session[old]) EXCEPT !.exchanged = @ + 1]
        BY <1>5, <2>0, <2>2 DEF Refresh, RevokeRefreshToken, TypeInv
      <3>2. session'[old].state = "ENDED" /\ session'[old].exchanged = session[old].exchanged + 1
        BY <3>1 DEF EndedSession, NoSession
      <3>3. Holders(old)' \in SUBSET (Holders(old) \ {r})
        <4>1. request'[r].session = None
          BY <2>1 DEF Answered, TypeInv, Idle
        <4>2. r \notin Holders(old)'
          BY <2>1, <4>1 DEF Holders
        <4> QED BY <2>1, <2>3, <4>2
      <3>4. IsFiniteSet(Holders(old) \ {r}) /\ Cardinality(Holders(old) \ {r}) = Cardinality(Holders(old)) - 1
        BY <2>2, HoldersAreNat, FS_RemoveElement
      <3>5. Cardinality(Holders(old)') <= Cardinality(Holders(old)) - 1
        BY <3>3, <3>4, FS_Subset
      <3>6. /\ session[old].exchanged \in Nat
            /\ session[old].exchanged + Cardinality(Holders(old)) <= Cardinality(Requests)
        BY <2>1 DEF TypeInv, SessionRow, TokensInv, TokenFits
      <3>7. session'[old].exchanged + Cardinality(Holders(old)') <= Cardinality(Requests)
        BY <3>2, <3>5, <3>6, HoldersAreNat
      <3>8. session'[old].exchanged # 0 /\ session'[old].state \notin {"NONE", "VALID"}
        BY <3>2, <3>6
      <3> QED BY <3>7, <3>8 DEF TokenFits
    <2>6. ASSUME NEW t \in Sessions, t # s, t # old  PROVE TokenFits(t)'
      <3>1. session'[t] = session[t]
        BY <1>5, <2>0, <2>6 DEF Refresh, RevokeRefreshToken, TypeInv
      <3> QED BY <2>3, <2>6, <3>1, TokenStays DEF TokensInv
    <2>7. ASSUME NEW t \in Sessions  PROVE TokenFits(t)'
      <3>1. CASE t = s
        BY <2>4, <3>1
      <3>2. CASE t = old
        BY <2>5, <3>2
      <3> QED BY <2>6, <3>1, <3>2
    <2> QED BY <2>7 DEF TokensInv
  <1> QED BY <1>1, <1>2, <1>3, <1>4, <1>5 DEF UseSession

\* Every step keeps what is known of the tokens.
LEMMA TokensKept == TypeInv /\ TokensInv /\ [Next]_vars => TokensInv'
  <1> SUFFICES ASSUME TypeInv, TokensInv, [Next]_vars  PROVE TokensInv'
    OBVIOUS
  <1>1. ASSUME NEW r \in Requests, Abandon(r)  PROVE TokensInv'
    BY <1>1, HoldersAnswered, TokensStay DEF Abandon
  <1>2. ASSUME NEW s \in Sessions, Logout(s)  PROVE TokensInv'
    <2>1. session' = [session EXCEPT ![s] = EndedSession(session[s])] /\ UNCHANGED request
      BY <1>2 DEF Logout, RevokeRefreshToken
    <2>2. EndedSession(session[s]).state = "ENDED" /\ EndedSession(session[s]).exchanged = session[s].exchanged
      BY DEF EndedSession, NoSession
    <2>3. \A t \in Sessions :
            /\ session'[t].exchanged = session[t].exchanged
            /\ session'[t].state = session[t].state \/ session'[t].state = "ENDED"
      BY <2>1, <2>2 DEF TypeInv
    <2>4. \A t \in Sessions : Holders(t)' \in SUBSET Holders(t)
      BY <2>1 DEF Holders
    <2> QED BY <2>3, <2>4, TokensStay
  <1>3. ASSUME NEW s \in Sessions, DeleteExpiredRefreshTokens(s)  PROVE TokensInv'
    <2>1. /\ session' = [session EXCEPT ![s] = NoSession] /\ UNCHANGED request
          /\ \A r \in Requests : request[r].session # s
      BY <1>3 DEF DeleteExpiredRefreshTokens
    <2>2. \A t \in Sessions : Holders(t)' \in SUBSET Holders(t)
      BY <2>1 DEF Holders
    <2>3. TokenFits(s)'
      <3>1. Holders(s)' = {} /\ session'[s].exchanged = 0
        BY <2>1 DEF Holders, TypeInv, NoSession
      <3> QED BY <3>1, TokenNew
    <2>4. ASSUME NEW t \in Sessions, t # s  PROVE TokenFits(t)'
      BY <2>1, <2>2, <2>4, TokenStays DEF TokensInv, TypeInv
    <2> QED BY <2>3, <2>4 DEF TokensInv
  <1>4. CASE UNCHANGED vars \/ \E c \in Challenges : Expire(c) \/ DeleteExpiredChallenges(c)
    <2>1. UNCHANGED <<session, request>>
      BY <1>4 DEF vars, Expire, DeleteExpiredChallenges
    <2>2. \A s \in Sessions : Holders(s)' \in SUBSET Holders(s)
      BY <2>1 DEF Holders
    <2> QED BY <2>1, <2>2, TokensStay
  <1> QED BY <1>1, <1>2, <1>3, <1>4, CodeTokens, UseChallengeTokens, UseSessionTokens DEF Next

-----------------------------------------------------------------------------
(* The end of the sessions.                                                *)

\* A session goes on with its account, or begins in keeping with it.
LEMMA EndsStay ==
  ASSUME SessionsEndWithPassword,
         \A s \in Sessions : session'[s].state = "VALID" /\ ~session'[s].late =>
           \/ session'[s] = session[s] /\ account'[session[s].account] = account[session[s].account]
           \/ account'[session'[s].account] = [state |-> "ACTIVE", password |-> session'[s].password]
  PROVE  SessionsEndWithPassword'
  BY DEF SessionsEndWithPassword

\* A session that is issued in time has the password it was asked for.
LEMMA IssuedInTime ==
  ASSUME NEW a, NEW p, NEW late \in BOOLEAN
  PROVE  /\ Issued(a, p, late).state = "VALID" /\ Issued(a, p, late).account = a
         /\ Issued(a, p, late).late = late
         /\ ~late => Issued(a, p, late).password = p
  BY DEF Issued, NoSession

\* The sessions of an account that is changed have ended.
LEMMA RevokedSessions ==
  ASSUME TypeInv, SessionsEndWithPassword, NEW a \in Accounts, session' = RevokeAllRefreshTokens(a),
         \A b \in Accounts \ {a} : account'[b] = account[b]
  PROVE  SessionsEndWithPassword'
  <1>1. ASSUME NEW s \in Sessions, session'[s].state = "VALID"
        PROVE  session'[s] = session[s] /\ account'[session[s].account] = account[session[s].account]
    <2>1. session[s].state = "VALID" /\ session[s].account # a /\ session'[s] = session[s]
      BY <1>1 DEF RevokeAllRefreshTokens, EndedSession, NoSession
    <2> QED BY <2>1 DEF TypeInv, SessionsRefer
  <1> QED BY <1>1, EndsStay

\* Requests that use a verified challenge.
LEMMA UseChallengeEnds ==
  ASSUME TypeInv, SessionsEndWithPassword, NEW r \in Requests, UseChallenge(r)
  PROVE  SessionsEndWithPassword'
  <1>1. ASSUME \/ Refuse(r)
               \/ \E c \in Challenges : ResolveVerifiedChallenge(r, c)
        PROVE  SessionsEndWithPassword'
    <2>1. UNCHANGED <<account, session>>
      BY <1>1 DEF Refuse, ResolveVerifiedChallenge
    <2> QED BY <2>1, EndsStay
  <1>2. ASSUME NEW a \in Accounts, NEW s \in Sessions, Signup(r, a, s)  PROVE SessionsEndWithPassword'
    <2>1. PICK c \in Challenges : c = request[r].challenge
      BY <1>2 DEF Signup, Resolved, TypeInv, RequestsRefer, Refers
    <2>2. account[a].state = "NONE" /\ account' = [account EXCEPT ![a] = [state |-> "ACTIVE", password |-> c]]
      BY <1>2, <2>1 DEF Signup
    <2>3. session' = [session EXCEPT ![s] = Issued(a, c, FALSE)]
      BY <1>2, <2>1 DEF Signup
    <2>4. ASSUME NEW t \in Sessions, t # s, session[t].state = "VALID", ~session[t].late
          PROVE  account'[session[t].account] = account[session[t].account]
      <3>1. session[t].account \in Accounts
        BY <2>4 DEF TypeInv, SessionsRefer
      <3>2. account[session[t].account] = [state |-> "ACTIVE", password |-> session[t].password]
        BY <2>4 DEF SessionsEndWithPassword
      <3>3. account[session[t].account].state = "ACTIVE"
        BY <3>2
      <3>4. session[t].account # a
        BY <2>2, <3>3
      <3> QED BY <2>2, <3>1, <3>4 DEF TypeInv
    <2>5. account'[session'[s].account] = [state |-> "ACTIVE", password |-> session'[s].password]
      <3>1. session'[s] = Issued(a, c, FALSE)
        BY <2>3 DEF TypeInv
      <3>2. session'[s].account = a /\ session'[s].password = c
        BY <3>1 DEF Issued, NoSession
      <3>3. account'[a] = [state |-> "ACTIVE", password |-> c]
        BY <2>2 DEF TypeInv
      <3> QED BY <3>2, <3>3
    <2>6. \A t \in Sessions \ {s} : session'[t] = session[t]
      BY <2>3 DEF TypeInv
    <2> QED BY <2>4, <2>5, <2>6, EndsStay
  <1>3. CASE ResetPassword(r)
    <2>1. PICK a \in Accounts : a = request[r].account
      BY <1>3 DEF ResetPassword, Resolved, TypeInv, RequestsRefer, Refers
    <2> QED BY <1>3, <2>1, RevokedSessions DEF ResetPassword, TypeInv
  <1>4. CASE Withdraw(r)
    <2>1. PICK a \in Accounts : a = request[r].account
      BY <1>4 DEF Withdraw, Resolved, TypeInv, RequestsRefer, Refers
    <2> QED BY <1>4, <2>1, RevokedSessions DEF Withdraw, TypeInv
  <1> QED BY <1>1, <1>2, <1>3, <1>4 DEF UseChallenge

\* Whoever makes a session notes whether its account was changed meanwhile.
LEMMA UseSessionEnds ==
  ASSUME TypeInv, SessionsEndWithPassword, NEW r \in Requests, UseSession(r)
  PROVE  SessionsEndWithPassword'
  <1>1. ASSUME \/ \E a \in Accounts : Login(r, a)
               \/ GetAccountByID(r)
               \/ \E s \in Sessions : GetRefreshToken(r, s)
        PROVE  SessionsEndWithPassword'
    <2>1. UNCHANGED <<account, session>>
      BY <1>1 DEF Login, GetAccountByID, GetRefreshToken
    <2> QED BY <2>1, EndsStay
  <1>2. ASSUME NEW s \in Sessions, NEW late \in BOOLEAN, ChangedSince(r) => late, UNCHANGED account,
               session'[s] = Issued(request[r].account, request[r].password, late),
               \A t \in Sessions \ {s} : session'[t] = session[t] \/ session'[t].state = "ENDED"
        PROVE  SessionsEndWithPassword'
    <2>1. ~late => account'[session'[s].account] = [state |-> "ACTIVE", password |-> session'[s].password]
      BY <1>2, IssuedInTime DEF ChangedSince
    <2>2. session'[s].late = late
      BY <1>2, IssuedInTime
    <2> QED BY <1>2, <2>1, <2>2, EndsStay
  <1>3. ASSUME NEW s \in Sessions, CreateRefreshToken(r, s)  PROVE SessionsEndWithPassword'
    <2>1. session' = [session EXCEPT ![s] = Issued(request[r].account, request[r].password, ChangedSince(r))]
      BY <1>3 DEF CreateRefreshToken
    <2>2. ChangedSince(r) \in BOOLEAN
      BY DEF ChangedSince
    <2> QED BY <1>2, <1>3, <2>1, <2>2 DEF CreateRefreshToken, TypeInv
  <1>4. ASSUME NEW s \in Sessions, Refresh(r, s)  PROVE SessionsEndWithPassword'
    <2> DEFINE late == request[r].late \/ ChangedSince(r)
    <2>1. late \in BOOLEAN /\ (ChangedSince(r) => late)
      BY DEF ChangedSince, TypeInv, RequestRow
    <2>2. session'[s] = Issued(request[r].account, request[r].password, late)
      BY <1>4 DEF Refresh, RevokeRefreshToken, TypeInv
    <2>3. ASSUME NEW t \in Sessions \ {s}  PROVE session'[t] = session[t] \/ session'[t].state = "ENDED"
      <3>1. CASE t = request[r].session
        <4>1. session'[t] = [EndedSession(session[t]) EXCEPT !.exchanged = @ + 1]
          BY <1>4, <3>1 DEF Refresh, RevokeRefreshToken, TypeInv
        <4> QED BY <4>1 DEF EndedSession, NoSession
      <3>2. CASE t # request[r].session
        BY <1>4, <3>2 DEF Refresh, RevokeRefreshToken, TypeInv
      <3> QED BY <3>1, <3>2
    <2> HIDE DEF late
    <2> QED BY <1>2, <1>4, <2>1, <2>2, <2>3 DEF Refresh
  <1> QED BY <1>1, <1>3, <1>4 DEF UseSession

\* Every step ends the sessions that it should.
LEMMA EndsKept == TypeInv /\ SessionsEndWithPassword /\ [Next]_vars => SessionsEndWithPassword'
  <1> SUFFICES ASSUME TypeInv, SessionsEndWithPassword, [Next]_vars  PROVE SessionsEndWithPassword'
    OBVIOUS
  <1>1. ASSUME NEW s \in Sessions, Logout(s) \/ DeleteExpiredRefreshTokens(s)
        PROVE  SessionsEndWithPassword'
    <2>1. UNCHANGED account /\ \A t \in Sessions : session'[t] = session[t] \/ session'[t].state # "VALID"
      <3>1. EndedSession(session[s]).state # "VALID" /\ NoSession.state # "VALID"
        BY DEF EndedSession, NoSession
      <3>2. CASE Logout(s)
        BY <3>1, <3>2 DEF Logout, RevokeRefreshToken, TypeInv
      <3>3. CASE DeleteExpiredRefreshTokens(s)
        BY <3>1, <3>3 DEF DeleteExpiredRefreshTokens, TypeInv
      <3> QED BY <1>1, <3>2, <3>3
    <2> QED BY <2>1, EndsStay
  <1>2. ASSUME \/ \E r \in Requests : RequestCode(r) \/ VerifyCode(r) \/ Abandon(r)
               \/ \E c \in Challenges : Expire(c) \/ DeleteExpiredChallenges(c)
               \/ UNCHANGED vars
        PROVE  SessionsEndWithPassword'
    <2>1. UNCHANGED <<account, session>>
      BY <1>2 DEF RequestCode, CountRecentChallenges, CreateVerificationChallenge, VerifyCode,
                  IncrementChallengeAttempt, MarkChallengeVerified, Abandon, Expire,
                  DeleteExpiredChallenges, vars
    <2> QED BY <2>1, EndsStay
  <1> QED BY <1>1, <1>2, UseChallengeEnds, UseSessionEnds DEF Next

-----------------------------------------------------------------------------
(* The invariant, and what follows from it.                                *)

\* The first states have the types.
LEMMA InitTypes == Init => TypeInv
  <1> SUFFICES ASSUME Init  PROVE TypeInv
    OBVIOUS
  <1>1. /\ challenge = [c \in Challenges |-> NoChallenge]
        /\ session = [s \in Sessions |-> NoSession]
        /\ request = [r \in Requests |-> Idle]
    BY DEF Init
  <1>2. account \in [Accounts -> AccountRow]
    BY DEF Init, AccountRow, NoAccount
  <1>3. challenge \in [Challenges -> ChallengeRow] /\ session \in [Sessions -> SessionRow]
    BY <1>1, RowTypes
  <1>4. request \in [Requests -> RequestRow] /\ RequestsRefer
    BY <1>1, RowTypes DEF RequestsRefer
  <1>5. SessionsRefer
    BY <1>1 DEF SessionsRefer, NoSession
  <1> QED BY <1>2, <1>3, <1>4, <1>5 DEF TypeInv

\* In the first states nothing has been asked for yet.
LEMMA InitInv == Init => Inv
  <1> SUFFICES ASSUME Init  PROVE Inv
    OBVIOUS
  <1>1. /\ challenge = [c \in Challenges |-> NoChallenge]
        /\ session = [s \in Sessions |-> NoSession]
        /\ request = [r \in Requests |-> Idle]
    BY DEF Init
  <1>2. RowsPlain
    BY <1>1 DEF RowsPlain, Plain, NoChallenge
  <1>3. CodesKnown
    BY <1>1 DEF CodesKnown, Tried, Fit, Idle
  <1>4. CountedFits
    <2>1. ASSUME NEW p \in Purposes
          PROVE  Cardinality(Recent(p)) + Cardinality(Counted(p)) <= HourlyLimit + Cardinality(Requests) - 1
      <3>1. Recent(p) = {} /\ Counted(p) = {}
        BY <1>1 DEF Recent, Counted, NoChallenge, Idle
      <3>2. Cardinality(Recent(p)) = 0 /\ Cardinality(Counted(p)) = 0
        BY <3>1, FS_EmptySet
      <3> QED BY <3>2, CountsAreNat
    <2> QED BY <2>1 DEF CountedFits
  <1>5. TokensInv
    <2>1. ASSUME NEW s \in Sessions  PROVE TokenFits(s)
      <3>1. Holders(s) = {} /\ session[s].state = "NONE" /\ session[s].exchanged = 0
        BY <1>1 DEF Holders, Idle, NoSession
      <3>2. Cardinality(Holders(s)) = 0
        BY <3>1, FS_EmptySet
      <3>3. session[s].exchanged + Cardinality(Holders(s)) <= Cardinality(Requests)
        BY <3>1, <3>2, HoldersAreNat
      <3> QED BY <3>1, <3>3 DEF TokenFits
    <2> QED BY <2>1 DEF TokensInv
  <1>6. SessionsEndWithPassword
    BY <1>1 DEF SessionsEndWithPassword, NoSession
  <1> QED BY <1>2, <1>3, <1>4, <1>5, <1>6, InitTypes DEF Inv, CodesInv

\* The invariant holds throughout.
LEMMA Invariance == Spec => []Inv
  <1>1. Init => Inv
    BY InitInv
  <1>2. Inv /\ [Next]_vars => Inv'
    BY TypesKept, CodesKept, CountsKept, TokensKept, EndsKept DEF Inv
  <1> QED BY <1>1, <1>2, PTL DEF Spec

\* The rows and the requests have their types; no attempt is counted beyond the limit
\* (attempts_chk).
THEOREM IdentityTypes == Spec => []IdentityTypeOK
  <1>1. Inv => IdentityTypeOK
    BY DEF Inv, TypeInv, IdentityTypeOK, AccountRow, ChallengeRow, SessionRow, RequestRow
  <1> QED BY <1>1, Invariance, PTL

\* However many requests are served at once, the hourly limit is exceeded by their number
\* less one at most (requestCode).
THEOREM LimitSlack == Spec => []HourlyLimitSlack
  <1>1. Inv => HourlyLimitSlack
    <2> SUFFICES ASSUME Inv, NEW p \in Purposes
                 PROVE  Cardinality(Recent(p)) <= HourlyLimit + Cardinality(Requests) - 1
      BY DEF HourlyLimitSlack
    <2>1. Cardinality(Recent(p)) + Cardinality(Counted(p)) <= HourlyLimit + Cardinality(Requests) - 1
      BY DEF Inv, CountedFits
    <2> QED BY <2>1, CountsAreNat
  <1> QED BY <1>1, Invariance, PTL

\* A refresh token is exchanged by no more requests than are served at once (Refresh).
THEOREM ExchangeSlack == Spec => []RotationSlack
  <1>1. Inv => RotationSlack
    <2> SUFFICES ASSUME Inv, NEW s \in Sessions  PROVE session[s].exchanged <= Cardinality(Requests)
      BY DEF RotationSlack
    <2>1. session[s].exchanged + Cardinality(Holders(s)) <= Cardinality(Requests) /\ session[s].exchanged \in Nat
      BY DEF Inv, TokensInv, TokenFits, TypeInv, SessionRow
    <2> QED BY <2>1, HoldersAreNat
  <1> QED BY <1>1, Invariance, PTL

\* A reset and a withdrawal end the sessions of their account, but for those that were
\* being made meanwhile (ResetPassword, Withdraw).
THEOREM PasswordEndsSessions == Spec => []SessionsEndWithPassword
  <1>1. Inv => SessionsEndWithPassword
    BY DEF Inv
  <1> QED BY <1>1, Invariance, PTL

-----------------------------------------------------------------------------
(* Challenges are one-time tickets.                                        *)

\* What the states of a challenge are as those of a ticket.
LEMMA TicketStates ==
  ASSUME NEW row \in ChallengeRow
  PROVE  /\ row.state = "NONE" <=> TicketOf(row).state = "none"
         /\ row.state = "OPEN" <=> TicketOf(row).state = "open"
         /\ row.state = "VERIFIED" <=> TicketOf(row).state = "passed"
         /\ row.state \in {"OVER", "DELETED"} <=> TicketOf(row).state = "over"
         /\ TicketOf(row).use = IF row.state = "OVER" THEN "SIGNUP" ELSE row.purpose
         /\ TicketOf(row).tries = row.attempts
  BY DEF TicketOf, TicketState, ChallengeRow

\* The tickets of the rows that statements write.
LEMMA TicketRows ==
  /\ TicketOf(NoChallenge) = Ticket!Unissued
  /\ TicketOf(Deleted) = Ticket!Over
  /\ \A p : TicketOf(Opened(p)) = [state |-> "open", use |-> p, tries |-> 0]
  /\ \A row : TicketOf(Ended(row)) = Ticket!Over
  BY DEF TicketOf, TicketState, NoChallenge, Deleted, Opened, Ended, Ticket!Unissued, Ticket!Over

TicketMap == [c \in Challenges |-> TicketOf(challenge[c])]

\* A row that changes is a ticket that changes.
LEMMA TicketChanges ==
  ASSUME TypeInv, NEW c \in Challenges, NEW row, challenge' = [challenge EXCEPT ![c] = row]
  PROVE  TicketMap' = [TicketMap EXCEPT ![c] = TicketOf(row)]
  BY DEF TicketMap, TypeInv

\* A new challenge is a ticket that is issued, an attempt a try, and so on.
LEMMA CodeSteps ==
  ASSUME TypeInv, CodesInv, NEW r \in Requests, RequestCode(r) \/ VerifyCode(r)
  PROVE  [Ticket!Next]_(Ticket!vars)
  <1>1. ASSUME NEW p \in Purposes, CountRecentChallenges(r, p)  PROVE UNCHANGED Ticket!vars
    BY <1>1 DEF CountRecentChallenges, Ticket!vars
  <1>2. ASSUME NEW c \in Challenges, CreateVerificationChallenge(r, c)  PROVE Ticket!Next
    <2>1. PICK p \in Purposes : p = request[r].purpose
      BY DEF TypeInv, RequestRow
    <2>2. TicketMap[c].state = "none"
      BY <1>2, TicketStates DEF CreateVerificationChallenge, TicketMap, TypeInv
    <2>3. TicketMap' = [TicketMap EXCEPT ![c] = [state |-> "open", use |-> p, tries |-> 0]]
      BY <1>2, <2>1, TicketChanges, TicketRows DEF CreateVerificationChallenge
    <2>4. Ticket!Issue(c, p)
      BY <1>2, <2>2, <2>3 DEF CreateVerificationChallenge, Ticket!Issue, TicketMap
    <2> QED BY <2>4 DEF Ticket!Next, Ticket!Uses
  <1>3. ASSUME NEW c \in Challenges, IncrementChallengeAttempt(r, c)  PROVE Ticket!Next
    <2> DEFINE row == [challenge[c] EXCEPT !.attempts = @ + 1]
    <2>1. challenge[c] \in ChallengeRow /\ challenge[c].state = "OPEN" /\ challenge[c].attempts < MaxAttempts
      BY <1>3 DEF IncrementChallengeAttempt, Attemptable, TypeInv
    <2>2. TicketMap[c].state = "open" /\ TicketMap[c].tries < MaxAttempts
      BY <2>1, TicketStates DEF TicketMap
    <2>3. TicketOf(row) = [TicketOf(challenge[c]) EXCEPT !.tries = @ + 1]
      BY <2>1 DEF TicketOf, ChallengeRow
    <2>4. challenge' = [challenge EXCEPT ![c] = row]
      BY <1>3 DEF IncrementChallengeAttempt
    <2> HIDE DEF row
    <2>5. TicketMap' = [TicketMap EXCEPT ![c] = TicketOf(row)]
      BY <2>4, TicketChanges
    <2>6. TicketMap' = [TicketMap EXCEPT ![c].tries = @ + 1]
      BY <2>3, <2>5 DEF TicketMap
    <2>7. Ticket!Try(c)
      BY <1>3, <2>2, <2>6 DEF IncrementChallengeAttempt, Ticket!Try, TicketMap
    <2> QED BY <2>7 DEF Ticket!Next
  <1>4. CASE MarkChallengeVerified(r)
    <2>1. PICK c \in Challenges : c = request[r].challenge
      BY <1>4 DEF MarkChallengeVerified, TypeInv, RequestsRefer, Refers
    <2>2. challenge' = [challenge EXCEPT ![c].state = IF Markable(challenge[c]) THEN "VERIFIED" ELSE @]
      BY <1>4, <2>1 DEF MarkChallengeVerified
    <2>3. CASE ~Markable(challenge[c])
      <3>1. challenge' = challenge
        BY <2>2, <2>3 DEF TypeInv, ChallengeRow
      <3> QED BY <1>4, <3>1 DEF MarkChallengeVerified, Ticket!vars
    <2>4. CASE Markable(challenge[c])
      <3> DEFINE row == [challenge[c] EXCEPT !.state = "VERIFIED"]
      <3>1. challenge[c] \in ChallengeRow /\ challenge[c].state = "OPEN" /\ challenge[c].attempts > 0
        BY <1>4, <2>1, <2>4 DEF MarkChallengeVerified, Markable, CodesInv, CodesKnown, Tried, TypeInv
      <3>2. TicketMap[c].state = "open" /\ TicketMap[c].tries > 0
        BY <3>1, TicketStates DEF TicketMap
      <3>3. TicketOf(row) = [TicketOf(challenge[c]) EXCEPT !.state = "passed"]
        BY <3>1 DEF TicketOf, TicketState, ChallengeRow
      <3>4. challenge' = [challenge EXCEPT ![c] = row]
        BY <2>2, <2>4
      <3> HIDE DEF row
      <3>5. TicketMap' = [TicketMap EXCEPT ![c] = TicketOf(row)]
        BY <3>4, TicketChanges
      <3>6. TicketMap' = [TicketMap EXCEPT ![c].state = "passed"]
        BY <3>3, <3>5 DEF TicketMap
      <3>7. Ticket!Pass(c)
        BY <1>4, <3>2, <3>6 DEF MarkChallengeVerified, Ticket!Pass, TicketMap
      <3> QED BY <3>7 DEF Ticket!Next
    <2> QED BY <2>3, <2>4
  <1> QED BY <1>1, <1>2, <1>3, <1>4 DEF RequestCode, VerifyCode

\* An account changes with the ticket that was passed for it.
LEMMA UseSteps ==
  ASSUME TypeInv, CodesInv, NEW r \in Requests, UseChallenge(r)
  PROVE  [Ticket!Next]_(Ticket!vars)
  <1>1. ASSUME \/ Refuse(r)
               \/ \E c \in Challenges : ResolveVerifiedChallenge(r, c)
        PROVE  UNCHANGED Ticket!vars
    BY <1>1 DEF Refuse, ResolveVerifiedChallenge, Ticket!vars
  <1>2. ASSUME NEW u \in Purposes, Resolved(r, u), NEW c \in Challenges, c = request[r].challenge,
               Consumable(challenge[c])
        PROVE  /\ Ticket!Usable(c, u)
               /\ u # "SIGNUP" => request[r].account \in Accounts /\ Active(request[r].account)
    <2>1. challenge[c] \in ChallengeRow /\ challenge[c].state = "VERIFIED"
      BY <1>2 DEF Consumable, TypeInv
    <2>2. /\ challenge[c].purpose = u
          /\ u # "SIGNUP" => request[r].account \in Accounts /\ Active(request[r].account)
      BY <1>2, <2>1 DEF Resolved, CodesInv, CodesKnown, Fit, TypeInv, RequestsRefer, Refers
    <2>3. TicketOf(challenge[c]).state = "passed" /\ TicketOf(challenge[c]).use = u
      BY <2>1, <2>2, TicketStates
    <2> QED BY <2>2, <2>3 DEF Ticket!Usable
  <1>3. ASSUME NEW c \in Challenges, ConsumeChallenge(c)
        PROVE  TicketMap' = [TicketMap EXCEPT ![c] = Ticket!Over]
    <2>1. challenge' = [challenge EXCEPT ![c] = Ended(challenge[c])]
      BY <1>3 DEF ConsumeChallenge
    <2> QED BY <2>1, TicketChanges, TicketRows
  <1>4. ASSUME Resolved(r, request[r].purpose)  PROVE request[r].challenge \in Challenges
    BY <1>4 DEF Resolved, TypeInv, RequestsRefer, Refers
  <1>5. ASSUME NEW a \in Accounts, NEW s \in Sessions, Signup(r, a, s)  PROVE Ticket!Next
    <2>1. PICK c \in Challenges : c = request[r].challenge
      BY <1>4, <1>5 DEF Signup, Resolved
    <2>2. Ticket!Usable(c, "SIGNUP") /\ TicketMap' = [TicketMap EXCEPT ![c] = Ticket!Over]
      BY <1>2, <1>3, <1>5, <2>1 DEF Signup
    <2>3. \A b \in Accounts : ~Ticket!Active(b)
      BY <1>5 DEF Signup, EmailExists, Active, Ticket!Active
    <2>4. Ticket!Open(c, a)
      BY <1>5, <2>1, <2>2, <2>3 DEF Signup, Ticket!Open, TicketMap
    <2> QED BY <2>4 DEF Ticket!Next
  <1>6. CASE ResetPassword(r)
    <2>1. PICK c \in Challenges : c = request[r].challenge
      BY <1>4, <1>6 DEF ResetPassword, Resolved
    <2>2. /\ Ticket!Usable(c, "PASSWORD_RESET") /\ TicketMap' = [TicketMap EXCEPT ![c] = Ticket!Over]
          /\ request[r].account \in Accounts /\ Active(request[r].account)
      BY <1>2, <1>3, <1>6, <2>1 DEF ResetPassword
    <2>3. PICK a \in Accounts : a = request[r].account
      BY <2>2
    <2>4. account' = [account EXCEPT ![a].password = c]
      BY <1>6, <2>1, <2>2, <2>3 DEF ResetPassword
    <2>5. Ticket!Change(c, a)
      BY <2>2, <2>3, <2>4 DEF Ticket!Change, Ticket!Active, Active, TicketMap
    <2> QED BY <2>5 DEF Ticket!Next
  <1>7. CASE Withdraw(r)
    <2>1. PICK c \in Challenges : c = request[r].challenge
      BY <1>4, <1>7 DEF Withdraw, Resolved
    <2>2. /\ Ticket!Usable(c, "WITHDRAW")
          /\ request[r].account \in Accounts /\ Active(request[r].account)
      BY <1>2, <1>7, <2>1 DEF Withdraw
    <2>3. PICK a \in Accounts : a = request[r].account
      BY <2>2
    <2>4. TicketMap' = [e \in Challenges |->
                          IF TicketMap[e].state = "none" THEN Ticket!Unissued ELSE Ticket!Over]
      <3>1. challenge' = [e \in Challenges |-> IF challenge[e].state # "NONE" THEN Deleted ELSE challenge[e]]
        BY <1>7 DEF Withdraw, DeleteChallengesByEmail
      <3>2. ASSUME NEW e \in Challenges
            PROVE  TicketOf(challenge'[e]) =
                     IF TicketOf(challenge[e]).state = "none" THEN Ticket!Unissued ELSE Ticket!Over
        <4>1. challenge[e].state = "NONE" <=> TicketOf(challenge[e]).state = "none"
          BY TicketStates DEF TypeInv
        <4>2. challenge[e].state = "NONE" => challenge[e] = NoChallenge
          BY DEF CodesInv, RowsPlain, Plain
        <4> QED BY <3>1, <4>1, <4>2, TicketRows
      <3> QED BY <3>2 DEF TicketMap
    <2>5. Ticket!Close(c, a)
      BY <1>7, <2>2, <2>3, <2>4 DEF Withdraw, Ticket!Close, Ticket!Active, Active, TicketMap
    <2> QED BY <2>5 DEF Ticket!Next
  <1> QED BY <1>1, <1>5, <1>6, <1>7 DEF UseChallenge

\* A challenge that expires is a ticket that lapses; its removal is not seen.
LEMMA AgeSteps ==
  ASSUME TypeInv, CodesInv, NEW c \in Challenges, Expire(c) \/ DeleteExpiredChallenges(c)
  PROVE  [Ticket!Next]_(Ticket!vars)
  <1>1. CASE Expire(c)
    <2>1. challenge[c] \in ChallengeRow /\ challenge' = [challenge EXCEPT ![c] = Ended(challenge[c])]
      BY <1>1 DEF Expire, TypeInv
    <2>2. TicketMap' = [TicketMap EXCEPT ![c] = Ticket!Over]
      BY <2>1, TicketChanges, TicketRows
    <2>3. TicketMap[c].state \in {"open", "passed"}
      BY <1>1, <2>1, TicketStates DEF Expire, TicketMap
    <2>4. Ticket!Lapse(c)
      BY <1>1, <2>2, <2>3 DEF Expire, Ticket!Lapse, TicketMap
    <2> QED BY <2>4 DEF Ticket!Next
  <1>2. CASE DeleteExpiredChallenges(c)
    <2>1. challenge[c].state = "OVER" /\ challenge' = [challenge EXCEPT ![c] = Deleted]
      BY <1>2 DEF DeleteExpiredChallenges
    <2>2. TicketOf(challenge[c]) = Ticket!Over
      BY <2>1 DEF CodesInv, RowsPlain, Plain, TicketOf, TicketState, Ticket!Over
    <2>3. TicketMap' = TicketMap
      BY <2>1, <2>2, TicketChanges, TicketRows DEF TicketMap
    <2> QED BY <1>2, <2>3 DEF DeleteExpiredChallenges, Ticket!vars, TicketMap
  <1> QED BY <1>1, <1>2

\* Whatever requests do side by side, an account is opened, given a password or closed
\* only with a challenge that was verified for it, which is then used up.
THEOREM TicketsOnce == Spec => TicketSpec
  <1>1. Init => Ticket!Init
    <2> SUFFICES ASSUME Init  PROVE Ticket!Init
      OBVIOUS
    <2>1. [c \in Challenges |-> TicketOf(challenge[c])] = [c \in Challenges |-> Ticket!Unissued]
      BY TicketRows DEF Init
    <2> QED BY <2>1 DEF Init, Ticket!Init, NoAccount, Ticket!NoAccount, Active
  <1>2. Inv /\ [Next]_vars => [Ticket!Next]_(Ticket!vars)
    <2> SUFFICES ASSUME TypeInv, CodesInv, [Next]_vars  PROVE [Ticket!Next]_(Ticket!vars)
      BY DEF Inv
    <2>1. ASSUME \/ \E r \in Requests : UseSession(r) \/ Abandon(r)
                 \/ \E s \in Sessions : Logout(s) \/ DeleteExpiredRefreshTokens(s)
                 \/ UNCHANGED vars
          PROVE  UNCHANGED Ticket!vars
      BY <2>1 DEF UseSession, Login, GetAccountByID, CreateRefreshToken, GetRefreshToken, Refresh,
                  Abandon, Logout, DeleteExpiredRefreshTokens, vars, Ticket!vars
    <2> QED BY <2>1, CodeSteps, UseSteps, AgeSteps DEF Next
  <1> QED BY <1>1, <1>2, Invariance, PTL DEF Spec, TicketSpec, Ticket!Spec

=============================================================================
