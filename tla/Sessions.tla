------------------------------ MODULE Sessions ------------------------------
(***************************************************************************)
(* The sessions, the password and the reset links of one user              *)
(* (routes/auth.py).  Users do not interact here.  As in Accounts, a       *)
(* handler reads in one transaction and writes in a later one.  The        *)
(* transaction of a reset is two steps: the UPDATE of the sessions, which  *)
(* finds those committed by then, and the commit; the user's row is locked *)
(* from before the one until the other.                                    *)
(*                                                                         *)
(* A password is its number in the user's history, and a session is known  *)
(* by the password its login was checked with.  An expired link is one     *)
(* that is presented no more; expired sessions have left the set.          *)
(***************************************************************************)
EXTENDS Integers

CONSTANTS Requests,      \* requests at once
          Links,         \* bound: the reset links ever sent
          MaxPasswords   \* bound: changes of the password

VARIABLES
  active,    \* users.is_active
  password,  \* users.password_hash
  session,   \* user_sessions: the live ones
  link,      \* password_reset_tokens
  request,   \* the requests in progress
  ended,     \* history: the password of the last reset
  late,      \* history: passwords of logins under way while a reset ended the sessions
  confirmed  \* history: the newest password that a reset was answered with

vars == <<active, password, session, link, request, ended, late, confirmed>>
history == <<ended, late, confirmed>>

\* The console's reset has no link.
RequestStates == [at : {"idle", "login", "reset", "ending"}, password : Nat,
                  link : SUBSET Links, found : SUBSET Nat]
Idle == [at |-> "idle", password |-> 0, link |-> {}, found |-> {}]

TypeOK ==
  /\ active \in BOOLEAN
  /\ password \in Nat
  /\ session \subseteq Nat
  /\ link \in [Links -> {"none", "fresh", "used"}]
  /\ request \in [Requests -> RequestStates]
  /\ ended \in Nat /\ late \subseteq Nat /\ confirmed \in Nat

Init ==
  /\ active = TRUE /\ password = 0 /\ session = {}
  /\ link = [l \in Links |-> "none"]
  /\ request = [q \in Requests |-> Idle]
  /\ ended = 0 /\ late = {} /\ confirmed = 0

Starts(q, m) == request[q].at = "idle" /\ request' = [request EXCEPT ![q] = m]
Answers(q) == request' = [request EXCEPT ![q] = Idle]

\* A reset holds the user's row.
Locked == \E q \in Requests : request[q].at = "ending"

-----------------------------------------------------------------------------
\* login reads the user and checks the password.
LoginBegins(q) ==
  /\ active
  /\ Starts(q, [Idle EXCEPT !.at = "login", !.password = password])
  /\ late' = IF Locked THEN late \cup {password} ELSE late
  /\ UNCHANGED <<active, password, session, link, ended, confirmed>>

\* _create_session.
CreateSession(q) ==
  /\ request[q].at = "login"
  /\ session' = session \cup {request[q].password}
  /\ Answers(q)
  /\ UNCHANGED <<active, password, link, history>>

\* logout, or the session's time is over.
SessionEnds(p) ==
  /\ p \in session
  /\ session' = session \ {p}
  /\ UNCHANGED <<active, password, link, request, history>>

\* The user is suspended or restored (Accounts); the sessions stay.
Suspended ==
  /\ ~ Locked
  /\ active' = ~ active
  /\ UNCHANGED <<password, session, link, request, history>>

-----------------------------------------------------------------------------
ForgotPassword(l) ==
  /\ active
  /\ link[l] = "none"
  /\ link' = [link EXCEPT ![l] = "fresh"]
  /\ UNCHANGED <<active, password, session, request, history>>

\* reset_password has found the link neither used nor expired.
ResetBegins(q, l) ==
  /\ link[l] = "fresh"
  /\ Starts(q, [Idle EXCEPT !.at = "reset", !.link = {l}])
  /\ UNCHANGED <<active, password, session, link, history>>

\* scripts/reset_password.py has found the user.
ConsoleResetBegins(q) ==
  /\ active
  /\ Starts(q, [Idle EXCEPT !.at = "reset"])
  /\ UNCHANGED <<active, password, session, link, history>>

\* Mutant: only the sessions of the password to be replaced are ended.
EndsCurrent == session \cap {password}

\* The sessions that the UPDATE ends: all that are live.
Ends == session

\* The row of the user is locked, and the sessions are looked up.
ResetEnds(q) ==
  /\ request[q].at = "reset" /\ ~ Locked
  /\ password < MaxPasswords
  /\ request' = [request EXCEPT ![q].at = "ending", ![q].found = Ends]
  /\ late' = late \cup {request[p].password : p \in {p \in Requests : request[p].at = "login"}}
  /\ UNCHANGED <<active, password, session, link, ended, confirmed>>

\* The commit.  The link is not looked at again.
ResetCommits(q) ==
  LET m == request[q]
  IN /\ m.at = "ending"
     /\ password' = password + 1
     /\ session' = session \ m.found
     /\ link' = [l \in Links |-> IF l \in m.link THEN "used" ELSE link[l]]
     /\ ended' = password' /\ confirmed' = password'
     /\ Answers(q)
     /\ UNCHANGED <<active, late>>

\* The INSERT of the audit row fails.  The handler logs that and goes on, in
\* a transaction that the database has aborted: its COMMIT is a rollback,
\* which raises nothing.
AuditFails(q) ==
  /\ request[q].at = "ending"
  /\ confirmed' = password + 1
  /\ Answers(q)
  /\ UNCHANGED <<active, password, session, link, ended, late>>

\* update_me after a step-up, and the reset-password command of routes/admin.py:
\* the sessions go on.
ChangePassword ==
  /\ ~ Locked
  /\ password < MaxPasswords
  /\ password' = password + 1
  /\ UNCHANGED <<active, session, link, request, history>>

\* The worker dies or the database fails.
RequestFails(q) ==
  /\ request[q].at # "idle"
  /\ Answers(q)
  /\ UNCHANGED <<active, password, session, link, history>>

Next ==
  \/ \E q \in Requests :
       \/ LoginBegins(q) \/ CreateSession(q)
       \/ ConsoleResetBegins(q) \/ ResetEnds(q) \/ ResetCommits(q)
       \/ AuditFails(q) \/ RequestFails(q)
       \/ \E l \in Links : ResetBegins(q, l)
  \/ \E p \in session : SessionEnds(p)
  \/ \E l \in Links : ForgotPassword(l)
  \/ Suspended \/ ChangePassword

Spec == Init /\ [][Next]_vars

-----------------------------------------------------------------------------
(* Properties.                                                             *)

\* A reset ends the sessions opened with earlier passwords, and none comes up
\* later but one whose login was under way while it did.
ResetEndsSessions == \A p \in session : p < ended => p \in late

\* A reset that is answered with success has taken place: "the password change
\* itself succeeded", whatever becomes of the audit row.
ConfirmedResetHolds == confirmed <= password
=============================================================================
