------------------------------ MODULE Identity ------------------------------
(***************************************************************************)
(* Accounts, one-time codes and sessions (internal/identity), for the      *)
(* requests that concern one e-mail address.  A request reads first,       *)
(* outside of any transaction, takes its time (bcrypt, the mail) and then  *)
(* commits one statement or one transaction; several requests do so at     *)
(* once.                                                                   *)
(*                                                                         *)
(* A challenge is looked up by the id or by the token that the client      *)
(* sends, or else the latest one is taken: together, any of them may be.   *)
(***************************************************************************)
EXTENDS Naturals, FiniteSets

CONSTANTS
  Requests,     \* requests that are served at the same time
  Challenges,   \* bound: verification_challenges that are created
  Accounts,     \* bound: accounts that use the address, one after the other
  Sessions,     \* bound: rows of refresh_tokens at a time
  MaxAttempts,  \* challengeMaxAttempts
  HourlyLimit,  \* challengeHourlyLimit
  None          \* a value that is none of these

ASSUME IdentityAssumption ==
  /\ IsFiniteSet(Requests) /\ IsFiniteSet(Challenges)
  /\ MaxAttempts \in Nat \ {0}
  /\ HourlyLimit \in Nat \ {0}
  /\ None \notin Requests \cup Challenges \cup Accounts \cup Sessions

Purposes == {"SIGNUP", "PASSWORD_RESET", "WITHDRAW"}

VARIABLES
  account,    \* accounts: state, and the challenge the password was set with
  challenge,  \* verification_challenges
  session,    \* refresh_tokens; see NoSession
  request     \* where a request stands, and what it has read

vars == <<account, challenge, session, request>>

NoAccount == [state |-> "NONE", password |-> None]

\* The state is what the statements tell from expires_at, verified_at and consumed_at: a
\* challenge that has expired or was consumed ("OVER") is of no use to any of them, but
\* counted for an hour.
NoChallenge == [state |-> "NONE", purpose |-> "SIGNUP", attempts |-> 0]

Opened(purpose) == [state |-> "OPEN", purpose |-> purpose, attempts |-> 0]
Ended(row)      == [state |-> "OVER", purpose |-> row.purpose, attempts |-> 0]
Deleted         == [state |-> "DELETED", purpose |-> "SIGNUP", attempts |-> 0]

\* password is the one its login was made with.  Two fields are kept for the properties:
\* how often the token was exchanged, and whether the account was changed while the
\* request was served that made the session, or one it descends from.  Of a token that
\* was revoked or has expired, nothing else is asked.
NoSession == [state |-> "NONE", account |-> None, password |-> None, exchanged |-> 0, late |-> FALSE]

EndedSession(row) == [NoSession EXCEPT !.state = "ENDED", !.exchanged = row.exchanged]

Issued(a, password, late) ==
  [NoSession EXCEPT !.state = "VALID", !.account = a, !.late = late,
                    !.password = IF late THEN None ELSE password]

Idle == [pc |-> "idle", purpose |-> "SIGNUP", challenge |-> None, session |-> None,
         account |-> None, password |-> None, late |-> FALSE]

IdentityTypeOK ==
  /\ account \in [Accounts -> [state : {"NONE", "ACTIVE", "WITHDRAWN"},
                               password : Challenges \cup {None}]]
  /\ challenge \in [Challenges -> [state : {"NONE", "OPEN", "VERIFIED", "OVER", "DELETED"},
                                   purpose : Purposes, attempts : 0..MaxAttempts]]
  /\ session \in [Sessions -> [state : {"NONE", "VALID", "ENDED"}, account : Accounts \cup {None},
                               password : Challenges \cup {None}, exchanged : Nat, late : BOOLEAN]]
  /\ request \in [Requests -> [pc : {"idle", "counted", "matched", "resolved", "login",
                                     "token", "refresh"},
                               purpose : Purposes, challenge : Challenges \cup {None},
                               session : Sessions \cup {None}, account : Accounts \cup {None},
                               password : Challenges \cup {None}, late : BOOLEAN]]

Active(a) == account[a].state = "ACTIVE"
EmailExists == \E a \in Accounts : Active(a)

\* An account that was there before is one imported from the legacy system.
Init ==
  /\ account \in [Accounts -> {NoAccount, [state |-> "ACTIVE", password |-> None]}]
  /\ \A a, b \in Accounts : Active(a) /\ Active(b) => a = b
  /\ challenge = [c \in Challenges |-> NoChallenge]
  /\ session = [s \in Sessions |-> NoSession]
  /\ request = [r \in Requests |-> Idle]

Answered(r) == request' = [request EXCEPT ![r] = Idle]

-----------------------------------------------------------------------------
(* Statements on verification_challenges.                                  *)

Recent(purpose) ==
  {c \in Challenges : /\ challenge[c].state \notin {"NONE", "DELETED"}
                      /\ challenge[c].purpose = purpose}

\* Wrong variant: the attempt after the last one is let in.
AttemptableOnceMore(row) == row.state = "OPEN" /\ row.attempts <= MaxAttempts

Attemptable(row) == row.state = "OPEN" /\ row.attempts < MaxAttempts

Markable(row) == row.state = "OPEN" /\ row.attempts <= MaxAttempts

Consumable(row) == row.state = "VERIFIED"

ConsumeChallenge(c) == challenge' = [challenge EXCEPT ![c] = Ended(@)]

\* Wrong variant: the other codes of a withdrawn account stay.
DeleteWithdrawChallenges ==
  [c \in Challenges |->
     IF challenge[c].state # "NONE" /\ challenge[c].purpose = "WITHDRAW"
     THEN Deleted ELSE challenge[c]]

DeleteChallengesByEmail ==
  [c \in Challenges |-> IF challenge[c].state # "NONE" THEN Deleted ELSE challenge[c]]

(* Statements on refresh_tokens.                                           *)

RevokeRefreshToken(s) == [session EXCEPT ![s] = EndedSession(@)]

\* Wrong variant: the sessions go on.
RevokeNoRefreshTokens(a) == session

RevokeAllRefreshTokens(a) ==
  [s \in Sessions |->
     IF session[s].state = "VALID" /\ session[s].account = a
     THEN EndedSession(session[s]) ELSE session[s]]

-----------------------------------------------------------------------------
(* requestCode.                                                            *)

\* Wrong variant: one challenge more than the limit.
CountOneMore(r, purpose) ==
  /\ request[r] = Idle
  /\ EmailExists <=> purpose # "SIGNUP"
  /\ Cardinality(Recent(purpose)) <= HourlyLimit
  /\ request' = [request EXCEPT ![r] = [Idle EXCEPT !.pc = "counted", !.purpose = purpose]]
  /\ UNCHANGED <<account, challenge, session>>

\* A code for a signup is for an address without an account, the others are for one.
CountRecentChallenges(r, purpose) ==
  /\ request[r] = Idle
  /\ EmailExists <=> purpose # "SIGNUP"
  /\ Cardinality(Recent(purpose)) < HourlyLimit
  /\ request' = [request EXCEPT ![r] = [Idle EXCEPT !.pc = "counted", !.purpose = purpose]]
  /\ UNCHANGED <<account, challenge, session>>

\* Whether the mail is sent makes no difference to the row.
CreateVerificationChallenge(r, c) ==
  /\ request[r].pc = "counted"
  /\ challenge[c].state = "NONE"
  /\ challenge' = [challenge EXCEPT ![c] = Opened(request[r].purpose)]
  /\ Answered(r)
  /\ UNCHANGED <<account, session>>

(* verifyCode.                                                             *)

\* The attempt is counted before the code, the address and the purpose are compared.
IncrementChallengeAttempt(r, c) ==
  /\ request[r] = Idle
  /\ Attemptable(challenge[c])
  /\ challenge' = [challenge EXCEPT ![c].attempts = @ + 1]
  /\ \/ UNCHANGED request
     \/ /\ challenge[c].purpose = "WITHDRAW" => EmailExists
        /\ request' = [request EXCEPT ![r] = [Idle EXCEPT !.pc = "matched", !.challenge = c]]
  /\ UNCHANGED <<account, session>>

MarkChallengeVerified(r) ==
  LET c == request[r].challenge IN
  /\ request[r].pc = "matched"
  /\ challenge' = [challenge EXCEPT ![c].state = IF Markable(challenge[c]) THEN "VERIFIED" ELSE @]
  /\ Answered(r)
  /\ UNCHANGED <<account, session>>

-----------------------------------------------------------------------------
(* Signup, ResetPassword and Withdraw: the challenge and the account are   *)
(* read, then all is done in one transaction, or the request is refused.   *)

ResolveVerifiedChallenge(r, c) ==
  /\ request[r] = Idle
  /\ Consumable(challenge[c])
  /\ \E a \in Accounts \cup {None} :
       /\ IF challenge[c].purpose = "SIGNUP" THEN a = None ELSE a \in Accounts /\ Active(a)
       /\ request' = [request EXCEPT ![r] =
                        [Idle EXCEPT !.pc = "resolved", !.purpose = challenge[c].purpose,
                                     !.challenge = c, !.account = a]]
  /\ UNCHANGED <<account, challenge, session>>

Resolved(r, purpose) == request[r].pc = "resolved" /\ request[r].purpose = purpose

\* The transaction rolls back: the challenge was used or has expired meanwhile, or the
\* address is taken (23505), or the account is withdrawn.
Refuse(r) ==
  LET c == request[r].challenge
      a == request[r].account
  IN
  /\ request[r].pc = "resolved"
  /\ \/ ~Consumable(challenge[c])
     \/ request[r].purpose = "SIGNUP" /\ EmailExists
     \/ request[r].purpose = "WITHDRAW" /\ ~Active(a)
  /\ Answered(r)
  /\ UNCHANGED <<account, challenge, session>>

Signup(r, a, s) ==
  LET c == request[r].challenge IN
  /\ Resolved(r, "SIGNUP")
  /\ Consumable(challenge[c])
  /\ ~EmailExists
  /\ account[a].state = "NONE"
  /\ session[s].state = "NONE"
  /\ ConsumeChallenge(c)
  /\ account' = [account EXCEPT ![a] = [state |-> "ACTIVE", password |-> c]]
  /\ session' = [session EXCEPT ![s] = Issued(a, c, FALSE)]
  /\ Answered(r)

\* UpdatePassword does not say whether it found the account.
ResetPassword(r) ==
  LET c == request[r].challenge
      a == request[r].account
  IN
  /\ Resolved(r, "PASSWORD_RESET")
  /\ Consumable(challenge[c])
  /\ ConsumeChallenge(c)
  /\ account' = [account EXCEPT ![a].password = IF Active(a) THEN c ELSE @]
  /\ session' = RevokeAllRefreshTokens(a)
  /\ Answered(r)

\* Its statements on documents are in Retention.
Withdraw(r) ==
  LET c == request[r].challenge
      a == request[r].account
  IN
  /\ Resolved(r, "WITHDRAW")
  /\ Consumable(challenge[c])
  /\ Active(a)
  /\ account' = [account EXCEPT ![a] = [state |-> "WITHDRAWN", password |-> None]]
  /\ challenge' = DeleteChallengesByEmail
  /\ session' = RevokeAllRefreshTokens(a)
  /\ Answered(r)

-----------------------------------------------------------------------------
(* Sessions.                                                               *)

\* The password fits; comparing it takes its time.
Login(r, a) ==
  /\ request[r] = Idle
  /\ Active(a)
  /\ request' = [request EXCEPT ![r] = [Idle EXCEPT !.pc = "login", !.account = a,
                                                    !.password = account[a].password]]
  /\ UNCHANGED <<account, challenge, session>>

\* The account is not what it was when the request came.
ChangedSince(r) ==
  account[request[r].account] # [state |-> "ACTIVE", password |-> request[r].password]

CreateRefreshToken(r, s) ==
  /\ request[r].pc = "login"
  /\ session[s].state = "NONE"
  /\ session' = [session EXCEPT ![s] =
                   Issued(request[r].account, request[r].password, ChangedSince(r))]
  /\ Answered(r)
  /\ UNCHANGED <<account, challenge>>

\* The password is noted for ChangedSince; the request itself does not read it.
GetRefreshToken(r, s) ==
  /\ request[r] = Idle
  /\ session[s].state = "VALID"
  /\ request' = [request EXCEPT ![r] =
                   [Idle EXCEPT !.pc = "token", !.session = s, !.account = session[s].account,
                                !.password = account[session[s].account].password,
                                !.late = session[s].late]]
  /\ UNCHANGED <<account, challenge, session>>

GetAccountByID(r) ==
  /\ request[r].pc = "token"
  /\ request' = [request EXCEPT ![r] = IF Active(@.account) THEN [@ EXCEPT !.pc = "refresh"] ELSE Idle]
  /\ UNCHANGED <<account, challenge, session>>

\* Wrong variant: the token goes on beside the next one.
RefreshWithoutRotation(r, s) ==
  LET old == request[r].session IN
  /\ request[r].pc = "refresh"
  /\ session[s].state = "NONE"
  /\ session' = [session EXCEPT
                   ![old].exchanged = @ + 1,
                   ![s] = Issued(request[r].account, request[r].password,
                                 request[r].late \/ ChangedSince(r))]
  /\ Answered(r)
  /\ UNCHANGED <<account, challenge>>

\* The transaction revokes the token, if nobody else has, and issues the next one.
Refresh(r, s) ==
  LET old == request[r].session IN
  /\ request[r].pc = "refresh"
  /\ session[s].state = "NONE"
  /\ session' = [RevokeRefreshToken(old) EXCEPT
                   ![old].exchanged = @ + 1,
                   ![s] = Issued(request[r].account, request[r].password,
                                 request[r].late \/ ChangedSince(r))]
  /\ Answered(r)
  /\ UNCHANGED <<account, challenge>>

\* The user logs out, or the token expires.
Logout(s) ==
  /\ session[s].state = "VALID"
  /\ session' = RevokeRefreshToken(s)
  /\ UNCHANGED <<account, challenge, request>>

-----------------------------------------------------------------------------
\* The request fails, is cancelled or dies with its process before its commit, also as
\* the victim of a deadlock.
Abandon(r) ==
  /\ request[r] # Idle
  /\ Answered(r)
  /\ UNCHANGED <<account, challenge, session>>

\* Ten minutes go by.
Expire(c) ==
  /\ challenge[c].state \in {"OPEN", "VERIFIED"}
  /\ challenge' = [challenge EXCEPT ![c] = Ended(@)]
  /\ UNCHANGED <<account, session, request>>

\* The worker's maintenance removes a row seven days later.  After the hour in which it is
\* counted nothing sees it any more, so that its removal may as well come then.
DeleteExpiredChallenges(c) ==
  /\ challenge[c].state = "OVER"
  /\ challenge' = [challenge EXCEPT ![c] = Deleted]
  /\ UNCHANGED <<account, session, request>>

DeleteExpiredRefreshTokens(s) ==
  /\ session[s].state = "ENDED"
  /\ \A r \in Requests : request[r].session # s
  /\ session' = [session EXCEPT ![s] = NoSession]
  /\ UNCHANGED <<account, challenge, request>>

-----------------------------------------------------------------------------
RequestCode(r) ==
  \/ \E purpose \in Purposes : CountRecentChallenges(r, purpose)
  \/ \E c \in Challenges : CreateVerificationChallenge(r, c)

VerifyCode(r) == (\E c \in Challenges : IncrementChallengeAttempt(r, c)) \/ MarkChallengeVerified(r)

UseChallenge(r) ==
  \/ \E c \in Challenges : ResolveVerifiedChallenge(r, c)
  \/ Refuse(r)
  \/ \E a \in Accounts, s \in Sessions : Signup(r, a, s)
  \/ ResetPassword(r)
  \/ Withdraw(r)

UseSession(r) ==
  \/ \E a \in Accounts : Login(r, a)
  \/ GetAccountByID(r)
  \/ \E s \in Sessions : CreateRefreshToken(r, s) \/ GetRefreshToken(r, s) \/ Refresh(r, s)

Next ==
  \/ \E r \in Requests : RequestCode(r)
  \/ \E r \in Requests : VerifyCode(r)
  \/ \E r \in Requests : UseChallenge(r)
  \/ \E r \in Requests : UseSession(r)
  \/ \E r \in Requests : Abandon(r)
  \/ \E s \in Sessions : Logout(s) \/ DeleteExpiredRefreshTokens(s)
  \/ \E c \in Challenges : Expire(c) \/ DeleteExpiredChallenges(c)

Spec == Init /\ [][Next]_vars

-----------------------------------------------------------------------------
(* What holds of the accounts under an address.                            *)

TicketState(state) ==
  CASE state = "NONE" -> "none"
    [] state = "OPEN" -> "open"
    [] state = "VERIFIED" -> "passed"
    [] OTHER -> "over"

TicketOf(row) ==
  [state |-> TicketState(row.state),
   use   |-> IF row.state = "OVER" THEN "SIGNUP" ELSE row.purpose,
   tries |-> row.attempts]

Ticket == INSTANCE OneTimeTicket
            WITH Tickets <- Challenges, MaxTries <- MaxAttempts,
                 ticket <- [c \in Challenges |-> TicketOf(challenge[c])]

\* The challenges are one-time tickets: whatever requests do side by side, an account
\* changes with a challenge that was verified for this within its attempts, once, and a
\* challenge is not used up without the change; none outlives the account.
TicketSpec == Ticket!Spec

\* The challenges of an hour are counted before one is created, and not locked: no more
\* can be created than the requests that are served at once have counted too early.
HourlyLimitSlack ==
  \A purpose \in Purposes : Cardinality(Recent(purpose)) <= HourlyLimit + Cardinality(Requests) - 1

\* A refresh token is looked up before the transaction that revokes it, so that requests
\* served at once may all exchange it; but no request that comes later can.
RotationSlack == \A s \in Sessions : session[s].exchanged <= Cardinality(Requests)

\* The sessions of an account end with its password and with the account itself, but for
\* those that were being made at that very time and what is made from them.
SessionsEndWithPassword ==
  \A s \in Sessions :
    session[s].state = "VALID" /\ ~session[s].late =>
      account[session[s].account] = [state |-> "ACTIVE", password |-> session[s].password]
=============================================================================
