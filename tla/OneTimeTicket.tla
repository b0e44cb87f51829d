--------------------------- MODULE OneTimeTicket ---------------------------
(***************************************************************************)
(* What the owner of a mailbox is promised about the accounts under its    *)
(* address: an account is opened, given a password or closed only with a   *)
(* ticket for that very thing, which was passed within so many tries and   *)
(* is good for one change; and with the account every ticket goes that was *)
(* issued before its end.                                                  *)
(***************************************************************************)
EXTENDS Naturals

CONSTANTS Tickets, Accounts, MaxTries, None

Uses == {"SIGNUP", "PASSWORD_RESET", "WITHDRAW"}

VARIABLES
  ticket,  \* its use, whether it is open, passed or over, and the tries at it
  account  \* its state, and the ticket its password was set with

vars == <<ticket, account>>

Unissued == [state |-> "none", use |-> "SIGNUP", tries |-> 0]
Over     == [state |-> "over", use |-> "SIGNUP", tries |-> 0]
NoAccount == [state |-> "NONE", password |-> None]

\* The accounts that exist were imported.
Init ==
  /\ ticket = [c \in Tickets |-> Unissued]
  /\ account \in [Accounts -> {NoAccount, [state |-> "ACTIVE", password |-> None]}]
  /\ \A a, b \in Accounts : account[a].state = "ACTIVE" /\ account[b].state = "ACTIVE" => a = b

Active(a) == account[a].state = "ACTIVE"

Issue(c, use) ==
  /\ ticket[c].state = "none"
  /\ ticket' = [ticket EXCEPT ![c] = [state |-> "open", use |-> use, tries |-> 0]]
  /\ UNCHANGED account

Try(c) ==
  /\ ticket[c].state = "open"
  /\ ticket[c].tries < MaxTries
  /\ ticket' = [ticket EXCEPT ![c].tries = @ + 1]
  /\ UNCHANGED account

Pass(c) ==
  /\ ticket[c].state = "open"
  /\ ticket[c].tries > 0
  /\ ticket' = [ticket EXCEPT ![c].state = "passed"]
  /\ UNCHANGED account

Lapse(c) ==
  /\ ticket[c].state \in {"open", "passed"}
  /\ ticket' = [ticket EXCEPT ![c] = Over]
  /\ UNCHANGED account

Usable(c, use) == ticket[c].state = "passed" /\ ticket[c].use = use

Open(c, a) ==
  /\ Usable(c, "SIGNUP")
  /\ \A b \in Accounts : ~Active(b)
  /\ account[a].state = "NONE"
  /\ account' = [account EXCEPT ![a] = [state |-> "ACTIVE", password |-> c]]
  /\ ticket' = [ticket EXCEPT ![c] = Over]

Change(c, a) ==
  /\ Usable(c, "PASSWORD_RESET")
  /\ Active(a)
  /\ account' = [account EXCEPT ![a].password = c]
  /\ ticket' = [ticket EXCEPT ![c] = Over]

Close(c, a) ==
  /\ Usable(c, "WITHDRAW")
  /\ Active(a)
  /\ account' = [account EXCEPT ![a] = [state |-> "WITHDRAWN", password |-> None]]
  /\ ticket' = [t \in Tickets |->
                  IF ticket[t].state = "none" THEN Unissued ELSE Over]

Next ==
  \E c \in Tickets :
    \/ \E use \in Uses : Issue(c, use)
    \/ Try(c)
    \/ Pass(c)
    \/ Lapse(c)
    \/ \E a \in Accounts : Open(c, a) \/ Change(c, a) \/ Close(c, a)

Spec == Init /\ [][Next]_vars
=============================================================================
