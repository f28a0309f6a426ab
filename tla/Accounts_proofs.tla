--------------------------- MODULE Accounts_proofs ---------------------------
(***************************************************************************)
(* What MCAccounts' runs check of accounts, invites, sessions and access   *)
(* to resources, for any users, requests, invites, reset links and         *)
(* passwords.  For the overrides of a role see Overrides_proofs.           *)
(***************************************************************************)
EXTENDS MCAccounts, Overrides_proofs, TLAPS

-----------------------------------------------------------------------------
(* Sessions: types *)

\* What a request becomes when it starts, goes on, or answers.
LEMMA ResetTypes ==
  ASSUME NEW p \in Nat, NEW l \in SUBSET Links, NEW f \in SUBSET Nat,
         NEW at \in {"idle", "login", "reset", "ending"}
  PROVE  /\ S!Idle \in S!RequestStates
         /\ [S!Idle EXCEPT !.at = at, !.password = p] \in S!RequestStates
         /\ [S!Idle EXCEPT !.at = at, !.link = l] \in S!RequestStates
         /\ \A m \in S!RequestStates : [m EXCEPT !.at = at, !.found = f] \in S!RequestStates
  BY DEF S!Idle, S!RequestStates

LEMMA SessionsTypes == (S!Init => S!TypeOK) /\ (S!TypeOK /\ [S!Next]_S!vars => S!TypeOK')
<1>1. S!Init => S!TypeOK
  <2>1. S!Idle \in S!RequestStates
    BY DEF S!Idle, S!RequestStates
  <2>. QED
    BY <2>1 DEF S!Init, S!TypeOK
<1>2. ASSUME S!TypeOK, [S!Next]_S!vars PROVE S!TypeOK'
  <2>. USE <1>2
  <2>0. /\ resetting \in [Requests -> S!RequestStates]
        /\ link \in [Links -> {"none", "fresh", "used"}]
        /\ active \in BOOLEAN /\ password \in Nat /\ session \subseteq Nat
        /\ ended \in Nat /\ late \subseteq Nat /\ confirmed \in Nat
    BY DEF S!TypeOK
  <2>1. ASSUME NEW q \in Requests, S!LoginBegins(q) PROVE S!TypeOK'
    <3>1. [S!Idle EXCEPT !.at = "login", !.password = password] \in S!RequestStates
      BY <2>0, ResetTypes
    <3>. QED
      BY <2>0, <2>1, <3>1 DEF S!LoginBegins, S!Starts, S!TypeOK
  <2>2. ASSUME NEW q \in Requests, S!CreateSession(q) \/ S!RequestFails(q) \/ S!AuditFails(q)
        PROVE  S!TypeOK'
    <3>1. S!Idle \in S!RequestStates /\ resetting[q].password \in Nat
      BY <2>0 DEF S!Idle, S!RequestStates
    <3>2. resetting' \in [Requests -> S!RequestStates]
      <4>1. resetting' = [resetting EXCEPT ![q] = S!Idle]
        BY <2>2 DEF S!CreateSession, S!RequestFails, S!AuditFails, S!Answers
      <4>. QED
        BY <2>0, <3>1, <4>1
    <3>4. session' \subseteq Nat
      BY <2>0, <2>2, <3>1 DEF S!CreateSession, S!RequestFails, S!AuditFails
    <3>5. confirmed' \in {confirmed, password + 1}
      BY <2>2 DEF S!CreateSession, S!RequestFails, S!AuditFails, S!history
    <3>6. confirmed' \in Nat
      BY <2>0, <3>5
    <3>3. UNCHANGED <<active, password, link, ended, late>>
      BY <2>2 DEF S!CreateSession, S!RequestFails, S!AuditFails, S!history
    <3>. QED
      BY <2>0, <3>2, <3>3, <3>4, <3>6 DEF S!TypeOK
  <2>3. ASSUME NEW q \in Requests,
               S!ConsoleResetBegins(q) \/ \E l \in Links : S!ResetBegins(q, l)
        PROVE  S!TypeOK'
    <3>1. /\ [S!Idle EXCEPT !.at = "reset"] \in S!RequestStates
          /\ \A l \in Links : [S!Idle EXCEPT !.at = "reset", !.link = {l}] \in S!RequestStates
      BY DEF S!Idle, S!RequestStates
    <3>2. /\ UNCHANGED <<active, password, session, link, S!history>>
          /\ \E m \in S!RequestStates : resetting' = [resetting EXCEPT ![q] = m]
      BY <2>3, <3>1 DEF S!ConsoleResetBegins, S!ResetBegins, S!Starts
    <3>. QED
      BY <2>0, <3>2 DEF S!TypeOK, S!history
  <2>4. ASSUME NEW q \in Requests, S!ResetEnds(q) PROVE S!TypeOK'
    <3>1. resetting' \in [Requests -> S!RequestStates]
      <4>1. [resetting[q] EXCEPT !.at = "ending", !.found = S!Ends] \in S!RequestStates
        BY <2>0 DEF S!Ends, S!RequestStates
      <4>2. resetting' =
              [resetting EXCEPT ![q] = [resetting[q] EXCEPT !.at = "ending", !.found = S!Ends]]
        BY <2>4 DEF S!ResetEnds
      <4>. QED
        BY <2>0, <4>1, <4>2
    <3>2. late' \subseteq Nat
      <4>1. \A p \in Requests : resetting[p].password \in Nat
        BY <2>0 DEF S!RequestStates
      <4>. QED
        BY <2>0, <2>4, <4>1 DEF S!ResetEnds
    <3>. QED
      BY <2>0, <2>4, <3>1, <3>2 DEF S!ResetEnds, S!TypeOK
  <2>5. ASSUME NEW q \in Requests, S!ResetCommits(q) PROVE S!TypeOK'
    <3>1. S!Idle \in S!RequestStates
      BY DEF S!Idle, S!RequestStates
    <3>2. resetting' \in [Requests -> S!RequestStates]
      <4>1. resetting' = [resetting EXCEPT ![q] = S!Idle]
        BY <2>5 DEF S!ResetCommits, S!Answers
      <4>. QED
        BY <2>0, <3>1, <4>1
    <3>3. link' \in [Links -> {"none", "fresh", "used"}]
      BY <2>0, <2>5 DEF S!ResetCommits
    <3>4. /\ UNCHANGED <<active, late>> /\ session' \subseteq Nat
          /\ password' = password + 1 /\ ended' = password' /\ confirmed' = password'
      BY <2>0, <2>5 DEF S!ResetCommits
    <3>5. password' \in Nat /\ ended' \in Nat /\ confirmed' \in Nat
      BY <2>0, <3>4
    <3>. QED
      BY <2>0, <3>2, <3>3, <3>4, <3>5 DEF S!TypeOK
  <2>6. CASE \/ \E p \in session : S!SessionEnds(p)
             \/ \E l \in Links : S!ForgotPassword(l)
             \/ S!Suspended \/ S!ChangePassword
    <3>1. /\ session' \subseteq Nat /\ active' \in BOOLEAN
          /\ UNCHANGED <<resetting, ended, late, confirmed>>
      BY <2>0, <2>6 DEF S!SessionEnds, S!ForgotPassword, S!Suspended, S!ChangePassword, S!history
    <3>2. link' \in [Links -> {"none", "fresh", "used"}]
      BY <2>0, <2>6 DEF S!SessionEnds, S!ForgotPassword, S!Suspended, S!ChangePassword
    <3>3. password' \in Nat
      BY <2>0, <2>6 DEF S!SessionEnds, S!ForgotPassword, S!Suspended, S!ChangePassword
    <3>. QED
      BY <2>0, <3>1, <3>2, <3>3 DEF S!TypeOK
  <2>7. CASE UNCHANGED S!vars
    BY <2>0, <2>7 DEF S!vars, S!TypeOK
  <2>. QED
    BY <2>1, <2>2, <2>3, <2>4, <2>5, <2>6, <2>7 DEF S!Next
<1>. QED
  BY <1>1, <1>2

-----------------------------------------------------------------------------
(* Sessions: resets *)

Login(q) == resetting[q].at = "login"
Ending(q) == resetting[q].at = "ending"

\* One reset at a time holds the row.  While it does, every login under way is
\* late, and so is every session that its UPDATE did not find; when none does,
\* a login checked with a password from before the last reset is late.
ResetInv ==
  /\ ended <= password
  /\ \A p, q \in Requests : Ending(p) /\ Ending(q) => p = q
  /\ \A q \in Requests : Login(q) /\ (S!Locked \/ resetting[q].password < ended)
                          => resetting[q].password \in late
  /\ \A q \in Requests : Ending(q) => session \ resetting[q].found \subseteq late
  /\ S!ResetEndsSessions

\* A step by which the requests stay as they are, or one of them ends or starts
\* something other than a login, and which creates no session, keeps ResetInv.
LEMMA Harmless ==
  ASSUME S!TypeOK, ResetInv, UNCHANGED <<ended, late>>, session' \subseteq session,
         password' \in Nat, password <= password',
         \A q \in Requests : resetting'[q] = resetting[q] \/ resetting'[q].at \in {"idle", "reset"}
  PROVE  ResetInv'
<1>1. \A q \in Requests : (Login(q) \/ Ending(q))' => resetting'[q] = resetting[q]
  BY DEF Login, Ending
<1>2. S!Locked' => S!Locked
  BY <1>1 DEF S!Locked, Ending
<1>3. (ended <= password)'
  BY DEF S!TypeOK, ResetInv
<1>. QED
  BY <1>1, <1>2, <1>3 DEF ResetInv, Login, Ending, S!ResetEndsSessions

LEMMA ResetSteps ==
  /\ S!Init => ResetInv
  /\ S!TypeOK /\ ResetInv /\ [S!Next]_S!vars => ResetInv'
<1>1. S!Init => ResetInv
  BY DEF S!Init, ResetInv, S!Idle, Login, Ending, S!Locked, S!ResetEndsSessions
<1>2. ASSUME S!TypeOK, ResetInv, [S!Next]_S!vars PROVE ResetInv'
  <2>. USE <1>2
  <2>0. /\ resetting \in [Requests -> S!RequestStates]
        /\ password \in Nat /\ session \subseteq Nat /\ ended \in Nat /\ late \subseteq Nat
        /\ ended <= password
    BY DEF S!TypeOK, ResetInv
  <2>1. ASSUME NEW q \in Requests, S!LoginBegins(q) PROVE ResetInv'
    <3>1. /\ UNCHANGED <<password, session, ended>> /\ late \subseteq late'
          /\ S!Locked => password \in late'
          /\ resetting[q].at = "idle"
          /\ \A p \in Requests : p # q => resetting'[p] = resetting[p]
      BY <2>0, <2>1 DEF S!LoginBegins, S!Starts
    <3>2. resetting'[q].at = "login" /\ resetting'[q].password = password
      BY <2>0, <2>1 DEF S!LoginBegins, S!Starts, S!Idle
    <3>3. S!Locked' <=> S!Locked
      BY <3>1, <3>2 DEF S!Locked
    <3>4. \A p \in Requests : Ending(p)' => p # q /\ Ending(p)
      BY <3>1, <3>2 DEF Ending
    <3>5. ASSUME NEW p \in Requests, Login(p)', S!Locked' \/ (resetting[p].password < ended)'
          PROVE  (resetting[p].password \in late)'
      <4>1. CASE p = q
        BY <2>0, <3>1, <3>2, <3>3, <3>5, <4>1
      <4>2. CASE p # q
        BY <3>1, <3>3, <3>5, <4>2 DEF ResetInv, Login
      <4>. QED
        BY <4>1, <4>2
    <3>6. \A p \in Requests : Ending(p)' => (session \ resetting[p].found \subseteq late)'
      BY <3>1, <3>4 DEF ResetInv
    <3>. QED
      BY <2>0, <3>1, <3>4, <3>5, <3>6 DEF ResetInv, S!ResetEndsSessions
  <2>2. ASSUME NEW q \in Requests, S!CreateSession(q) PROVE ResetInv'
    <3>1. /\ UNCHANGED <<password, ended, late>>
          /\ session' = session \cup {resetting[q].password}
          /\ Login(q)
          /\ \A p \in Requests : p # q => resetting'[p] = resetting[p]
      BY <2>0, <2>2 DEF S!CreateSession, S!Answers, Login, S!history
    <3>2. resetting'[q].at = "idle"
      BY <2>0, <2>2 DEF S!CreateSession, S!Answers, S!Idle
    <3>3. \A p \in Requests : (Login(p) \/ Ending(p))' => resetting'[p] = resetting[p]
      BY <3>1, <3>2 DEF Login, Ending
    <3>4. S!Locked' => S!Locked
      BY <3>3 DEF S!Locked, Ending
    <3>5. S!Locked \/ resetting[q].password < ended => resetting[q].password \in late
      BY <3>1 DEF ResetInv
    <3>6. \A p \in Requests : Ending(p)' => (session \ resetting[p].found \subseteq late)'
      BY <3>1, <3>3, <3>5 DEF ResetInv, S!Locked, Ending
    <3>7. S!ResetEndsSessions'
      BY <3>1, <3>5 DEF ResetInv, S!ResetEndsSessions
    <3>. QED
      BY <3>1, <3>3, <3>4, <3>6, <3>7 DEF ResetInv, Login, Ending
  <2>3. ASSUME NEW q \in Requests,
               \/ S!ConsoleResetBegins(q) \/ \E l \in Links : S!ResetBegins(q, l)
               \/ S!AuditFails(q) \/ S!RequestFails(q)
        PROVE  ResetInv'
    <3>1. /\ UNCHANGED <<password, session, ended, late>>
          /\ \A p \in Requests : p # q => resetting'[p] = resetting[p]
      BY <2>0, <2>3 DEF S!ConsoleResetBegins, S!ResetBegins, S!AuditFails, S!RequestFails,
                        S!Starts, S!Answers, S!history
    <3>2. resetting'[q].at \in {"idle", "reset"}
      <4>1. CASE S!AuditFails(q) \/ S!RequestFails(q)
        BY <2>0, <4>1 DEF S!AuditFails, S!RequestFails, S!Answers, S!Idle
      <4>2. CASE S!ConsoleResetBegins(q)
        BY <2>0, <4>2 DEF S!ConsoleResetBegins, S!Starts, S!Idle
      <4>3. CASE \E l \in Links : S!ResetBegins(q, l)
        BY <2>0, <4>3 DEF S!ResetBegins, S!Starts, S!Idle
      <4>. QED
        BY <2>3, <4>1, <4>2, <4>3
    <3>. QED
      BY <2>0, <3>1, <3>2, Harmless
  <2>4. ASSUME NEW q \in Requests, S!ResetEnds(q) PROVE ResetInv'
    <3>1. /\ UNCHANGED <<password, session, ended>> /\ ~ S!Locked
          /\ \A p \in Requests : p # q => resetting'[p] = resetting[p]
          /\ late \subseteq late'
          /\ \A p \in Requests : Login(p) => resetting[p].password \in late'
      BY <2>0, <2>4 DEF S!ResetEnds, Login
    <3>2. resetting'[q].at = "ending" /\ resetting'[q].found = session
      BY <2>0, <2>4 DEF S!ResetEnds, S!Ends, S!RequestStates
    <3>3. \A p \in Requests : Ending(p)' => p = q
      BY <3>1 DEF S!Locked, Ending
    <3>4. \A p \in Requests : Login(p)' => Login(p) /\ resetting'[p] = resetting[p]
      BY <3>1, <3>2 DEF Login
    <3>5. \A p \in Requests : Login(p)' => (resetting[p].password \in late)'
      BY <3>1, <3>4
    <3>6. \A p \in Requests : Ending(p)' => (session \ resetting[p].found \subseteq late)'
      BY <3>1, <3>2, <3>3
    <3>7. S!ResetEndsSessions'
      BY <3>1 DEF ResetInv, S!ResetEndsSessions
    <3>. QED
      BY <2>0, <3>1, <3>3, <3>5, <3>6, <3>7 DEF ResetInv
  <2>5. ASSUME NEW q \in Requests, S!ResetCommits(q) PROVE ResetInv'
    <3>1. /\ Ending(q) /\ UNCHANGED late
          /\ session' = session \ resetting[q].found
          /\ password' = password + 1 /\ ended' = password'
          /\ \A p \in Requests : p # q => resetting'[p] = resetting[p]
      BY <2>0, <2>5 DEF S!ResetCommits, S!Answers, Ending
    <3>2. resetting'[q].at = "idle"
      BY <2>0, <2>5 DEF S!ResetCommits, S!Answers, S!Idle
    <3>3. \A p \in Requests : ~ Ending(p)'
      BY <3>1, <3>2 DEF ResetInv, Ending
    <3>4. \A p \in Requests : Login(p)' => Login(p) /\ resetting'[p] = resetting[p]
      BY <3>1, <3>2 DEF Login
    <3>5. \A p \in Requests : Login(p) => resetting[p].password \in late
      BY <3>1 DEF ResetInv, S!Locked, Ending
    <3>6. session' \subseteq late'
      BY <3>1 DEF ResetInv
    <3>7. (ended <= password)'
      BY <2>0, <3>1
    <3>. QED
      BY <3>1, <3>3, <3>4, <3>5, <3>6, <3>7 DEF ResetInv, S!ResetEndsSessions
  <2>6. CASE \/ \E p \in session : S!SessionEnds(p)
             \/ \E l \in Links : S!ForgotPassword(l)
             \/ S!Suspended \/ S!ChangePassword
             \/ UNCHANGED S!vars
    <3>1. /\ UNCHANGED <<ended, late, resetting>> /\ session' \subseteq session
          /\ password' \in {password, password + 1}
      BY <2>6 DEF S!SessionEnds, S!ForgotPassword, S!Suspended, S!ChangePassword, S!vars, S!history
    <3>2. password' \in Nat /\ password <= password'
      BY <2>0, <3>1
    <3>. QED
      BY <3>1, <3>2, Harmless
  <2>. QED
    BY <2>1, <2>2, <2>3, <2>4, <2>5, <2>6 DEF S!Next
<1>. QED
  BY <1>1, <1>2

-----------------------------------------------------------------------------
(* Accounts: the invariant.                                                *)

\* What a request knows: the user it changes is there to stay, and the one it
\* makes of an invite is the one invited, there already if it was made before.
ReqOK(m) ==
  /\ m.at # "idle" => m.user \in Users
  /\ m.at \in {"change", "commit"} => rank[m.user] # Absent
  /\ m.at = "commit" => m.kind # "plugins"
  /\ m.at = "invite" => m.role \in {"admin", "viewer"} /\ (m.limit = TRUE => m.role = "viewer")
  /\ m.at = "insert" /\ m.invite # 0 =>
       /\ invite[m.invite].state # "none"
       /\ made[m.invite] > 0 => rank[m.user] # Absent
       /\ invite[m.invite].state \in {"pending", "used"} =>
            /\ invite[m.invite].user = m.user /\ invite[m.invite].limit = m.limit
            /\ m.limit = TRUE => m.role = "viewer"

\* Requests that make an account of one invite make it of one user.
Agree == \A p, q \in Requests :
  served[p].at = "insert" /\ served[q].at = "insert" /\ served[q].invite # 0
    /\ served[p].invite = served[q].invite => served[p].user = served[q].user

InviteOK(i) ==
  /\ made[i] <= 1
  /\ invite[i].state = "none" => made[i] = 0
  /\ invite[i].state \in {"pending", "used"} =>
       /\ invite[i].user \in Users
       /\ invite[i].limit = TRUE => invite[i].role = "viewer"
       /\ made[i] > 0 => rank[invite[i].user] # Absent
  /\ invite[i].state = "used" /\ invite[i].limit = TRUE => invite[i].user \in limited \cup freed

\* A change that its trigger has let pass leaves a superadmin, unless another was
\* committed since.
LastOK(q) == served[q].at = "commit" /\ q \notin overlap
               => (rank[served[q].user] = "superadmin" => A!Remaining(served[q]) # {})

AccInv ==
  /\ A!TypeOK
  /\ \A q \in Requests : ReqOK(served[q]) /\ LastOK(q)
  /\ Agree
  /\ \A i \in A!Invites : InviteOK(i)

LEMMA AccTypes ==
  ASSUME AccInv
  PROVE  /\ rank \in [Users -> A!Roles \cup {Absent}]
         /\ enabled \subseteq Users /\ limited \subseteq Users /\ freed \subseteq Users
         /\ \A u \in enabled \cup limited : rank[u] # Absent
         /\ invite \in [A!Invites -> A!InviteRows]
         /\ served \in [Requests -> A!RequestStates]
         /\ made \in [A!Invites -> Nat] /\ overlap \subseteq Requests
         /\ Absent \notin A!Roles /\ Absent \notin Users /\ 0 \notin A!Invites
BY NobodyAssumption, BoundsAssumption DEF AccInv, A!TypeOK, A!Roles, A!Invites

LEMMA ServedIdle == A!Idle \in A!RequestStates /\ A!Idle.at = "idle"
BY DEF A!Idle, A!RequestStates, A!Roles

LEMMA AccInit == A!Init => AccInv
<1>. SUFFICES ASSUME A!Init PROVE AccInv
  OBVIOUS
<1>1. A!NoInvite \in A!InviteRows /\ A!NoInvite.state = "none"
  BY DEF A!NoInvite, A!InviteRows
<1>2. A!TypeOK
  BY <1>1, ServedIdle DEF A!Init, A!TypeOK, A!Roles
<1>3. \A q \in Requests : served[q].at = "idle"
  BY ServedIdle DEF A!Init
<1>4. \A i \in A!Invites : InviteOK(i)
  <2>1. \A i \in A!Invites : invite[i] = A!NoInvite /\ made[i] = 0
    BY DEF A!Init
  <2>. QED
    BY <1>1, <2>1 DEF InviteOK
<1>5. Agree /\ \A q \in Requests : ReqOK(served[q]) /\ LastOK(q)
  BY <1>3 DEF ReqOK, LastOK, Agree
<1>. QED
  BY <1>2, <1>4, <1>5 DEF AccInv

\* A step of one request that changes nothing but its state.
LEMMA Quiet ==
  ASSUME AccInv, NEW q \in Requests, NEW n \in A!RequestStates, ReqOK(n),
         served' = [served EXCEPT ![q] = n],
         UNCHANGED <<rank, enabled, limited, invite, made, freed>>,
         overlap' \subseteq overlap, overlap \ {q} \subseteq overlap',
         n.at = "insert" /\ n.invite # 0 => invite[n.invite].state = "pending",
         n.at = "commit" => (rank[n.user] = "superadmin" => A!Remaining(n) # {})
  PROVE  AccInv'
<1>0. /\ served \in [Requests -> A!RequestStates] /\ served' \in [Requests -> A!RequestStates]
      /\ \A p \in Requests : served'[p] = IF p = q THEN n ELSE served[p]
  BY AccTypes
<1>1. A!TypeOK'
  BY <1>0 DEF AccInv, A!TypeOK
<1>2. \A p \in Requests : ReqOK(served[p])'
  BY <1>0 DEF AccInv, ReqOK
<1>3. \A p \in Requests : LastOK(p)'
  <2>1. \A p \in Requests : A!Remaining(served[p])' = A!Remaining(IF p = q THEN n ELSE served[p])
    BY <1>0 DEF A!Remaining, A!NewActive, A!NewRole
  <2>2. ASSUME NEW p \in Requests, p # q PROVE LastOK(p)'
    <3>1. served'[p] = served[p] /\ A!Remaining(served[p])' = A!Remaining(served[p])
      BY <1>0, <2>1, <2>2
    <3>. QED
      BY <2>2, <3>1 DEF AccInv, LastOK
  <2>3. LastOK(q)'
    <3>1. served'[q] = n /\ A!Remaining(served[q])' = A!Remaining(n)
      BY <1>0, <2>1
    <3>. QED
      BY <3>1 DEF LastOK
  <2>. QED
    BY <2>2, <2>3
<1>4. Agree'
  <2>1. ASSUME n.at = "insert", n.invite # 0, NEW p \in Requests, p # q,
               served[p].at = "insert", served[p].invite = n.invite
        PROVE  served[p].user = n.user
    <3>1. invite[n.invite].state = "pending" /\ ReqOK(served[p])
      BY <2>1 DEF AccInv
    <3>. QED
      BY <2>1, <3>1 DEF ReqOK
  <2>. QED
    BY <1>0, <2>1 DEF AccInv, Agree
<1>5. \A i \in A!Invites : InviteOK(i)'
  BY DEF AccInv, InviteOK
<1>. QED
  BY <1>1, <1>2, <1>3, <1>4, <1>5 DEF AccInv

LEMMA StartSteps ==
  ASSUME AccInv, NEW q \in Requests,
         \/ \E a, u \in Users, r \in InviteRoles : A!InviteBegins(q, a, u, r)
         \/ \E u \in Users : A!RegisterFirst(q, u) \/ A!InitialSetup(q, u)
         \/ \E i \in A!Invites, rereads \in BOOLEAN : A!AcceptBegins(q, i, rereads)
         \/ \E a, u \in Users, kind \in {"role", "suspend", "restore", "plugins"}, r \in A!Roles,
               limit \in BOOLEAN : A!ChangeBegins(q, a, u, kind, r, limit)
  PROVE  AccInv'
<1>. DEFINE Same == UNCHANGED <<rank, enabled, limited, invite, made, freed, overlap>>
<1>1. ASSUME NEW u \in Users, NEW a \in Users, NEW r \in InviteRoles, A!InviteBegins(q, a, u, r)
      PROVE  AccInv'
  <2>. DEFINE n == [A!Idle EXCEPT !.at = "invite", !.user = u, !.role = r,
                                  !.limit = (r = "viewer"), !.seen = A!Pending(u)]
  <2>1. served' = [served EXCEPT ![q] = n] /\ Same
    BY <1>1 DEF A!InviteBegins, A!Starts, A!accounts, A!history
  <2>2. /\ r \in {"admin", "viewer"} /\ A!Pending(u) \in SUBSET A!Invites
        /\ (r = "viewer") \in BOOLEAN
    BY BoundsAssumption DEF A!Pending
  <2>3. n \in A!RequestStates
    BY <2>2 DEF A!Idle, A!RequestStates, A!Roles
  <2>4. n.at = "invite" /\ n.user = u /\ n.role = r /\ n.limit = (r = "viewer")
    BY DEF A!Idle
  <2>. HIDE DEF n
  <2>5. ReqOK(n)
    BY <2>2, <2>4 DEF ReqOK
  <2>. QED
    BY <2>1, <2>3, <2>4, <2>5, Quiet
<1>2. ASSUME NEW u \in Users, A!RegisterFirst(q, u) \/ A!InitialSetup(q, u) PROVE AccInv'
  <2>1. PICK r \in {"superadmin", "admin"} :
          /\ served' = [served EXCEPT ![q] = [A!Idle EXCEPT !.at = "insert", !.user = u,
                                                            !.role = r]]
          /\ Same
    BY <1>2 DEF A!RegisterFirst, A!InitialSetup, A!Starts, A!accounts, A!history
  <2>. DEFINE n == [A!Idle EXCEPT !.at = "insert", !.user = u, !.role = r]
  <2>2. n \in A!RequestStates
    BY DEF A!Idle, A!RequestStates, A!Roles
  <2>3. n.at = "insert" /\ n.user = u /\ n.invite = 0
    BY DEF A!Idle
  <2>. HIDE DEF n
  <2>4. ReqOK(n)
    BY <2>3 DEF ReqOK
  <2>. QED
    BY <2>1, <2>2, <2>3, <2>4, Quiet DEF n
<1>3. ASSUME NEW i \in A!Invites, NEW rereads \in BOOLEAN, A!AcceptBegins(q, i, rereads)
      PROVE  AccInv'
  <2>. DEFINE n == [A!Idle EXCEPT !.at = "insert", !.user = invite[i].user,
                                  !.role = invite[i].role, !.limit = invite[i].limit,
                                  !.invite = i, !.rereads = rereads]
  <2>1. served' = [served EXCEPT ![q] = n] /\ Same /\ invite[i].state = "pending"
    BY <1>3 DEF A!AcceptBegins, A!Starts, A!accounts, A!history
  <2>2. /\ invite[i] \in A!InviteRows /\ invite[i].user \in Users
        /\ invite[i].limit = TRUE => invite[i].role = "viewer"
        /\ made[i] > 0 => rank[invite[i].user] # Absent
    BY <2>1, AccTypes DEF AccInv, InviteOK
  <2>3. n \in A!RequestStates
    <3>1. /\ invite[i].user \in Users /\ invite[i].role \in A!Roles
          /\ invite[i].limit \in BOOLEAN
      BY <2>2 DEF A!InviteRows, A!Roles
    <3>. QED
      BY <3>1 DEF A!Idle, A!RequestStates
  <2>4. /\ n.at = "insert" /\ n.user = invite[i].user /\ n.invite = i
        /\ n.limit = invite[i].limit /\ n.role = invite[i].role
    BY DEF A!Idle
  <2>. HIDE DEF n
  <2>5. ReqOK(n)
    BY <2>1, <2>2, <2>4 DEF ReqOK
  <2>. QED
    BY <2>1, <2>3, <2>4, <2>5, Quiet
<1>4. ASSUME NEW a \in Users, NEW u \in Users,
             NEW kind \in {"role", "suspend", "restore", "plugins"}, NEW r \in A!Roles,
             NEW limit \in BOOLEAN, A!ChangeBegins(q, a, u, kind, r, limit)
      PROVE  AccInv'
  <2>. DEFINE n == [A!Idle EXCEPT !.at = "change", !.user = u, !.kind = kind, !.role = r,
                                  !.limit = limit]
  <2>1. served' = [served EXCEPT ![q] = n] /\ Same /\ rank[u] # Absent
    BY <1>4 DEF A!ChangeBegins, A!Starts, A!accounts, A!history, A!Exists
  <2>2. n \in A!RequestStates
    BY DEF A!Idle, A!RequestStates
  <2>3. n.at = "change" /\ n.user = u
    BY DEF A!Idle
  <2>. HIDE DEF n
  <2>4. ReqOK(n)
    BY <2>1, <2>3 DEF ReqOK
  <2>. QED
    BY <2>1, <2>2, <2>3, <2>4, Quiet
<1>. QED
  BY <1>1, <1>2, <1>3, <1>4

\* A change is let pass by its trigger or refused; and requests that end.
LEMMA ChangeSteps ==
  ASSUME AccInv, NEW q \in Requests, A!Change(q) \/ A!InsertRefused(q) \/ A!RequestFails(q)
  PROVE  AccInv'
<1>. DEFINE m == served[q]
            n == [m EXCEPT !.at = "commit"]
<1>1. /\ UNCHANGED <<rank, enabled, limited, invite, made, freed>>
      /\ overlap' \subseteq overlap /\ overlap \ {q} \subseteq overlap'
  BY DEF A!Change, A!InsertRefused, A!RequestFails, A!accounts, A!history
<1>2. m \in A!RequestStates /\ ReqOK(m)
  BY AccTypes DEF AccInv
<1>3. CASE served' = [served EXCEPT ![q] = A!Idle]
  BY <1>1, <1>3, ServedIdle, Quiet DEF ReqOK
<1>4. CASE /\ m.at = "change" /\ m.kind # "plugins"
           /\ rank[m.user] = "superadmin" => A!Remaining(m) # {}
           /\ served' = [served EXCEPT ![q] = n]
  <2>. HIDE DEF m
  <2>1. /\ n \in A!RequestStates /\ n.at = "commit" /\ n.user = m.user /\ n.kind = m.kind
        /\ n.role = m.role
    BY <1>2 DEF A!RequestStates
  <2>2. m.at = "change" /\ m.kind # "plugins"
    BY <1>4
  <2>. HIDE DEF n
  <2>3. ReqOK(n)
    BY <1>2, <2>1, <2>2 DEF ReqOK
  <2>4. A!Remaining(n) = A!Remaining(m)
    BY <2>1 DEF A!Remaining, A!NewActive, A!NewRole
  <2>. QED
    BY <1>1, <1>4, <2>1, <2>3, <2>4, Quiet
<1>. QED
  BY <1>3, <1>4 DEF A!Change, A!InsertRefused, A!RequestFails, A!GoesOn, A!Answers

\* Users are there to stay, whoever is made of an invite or changed.
LEMMA InviteSteps ==
  ASSUME AccInv, \/ \E q \in Requests : A!InviteCommits(q)
                 \/ \E a \in Users, i \in A!Invites : A!RevokeInvite(a, i)
  PROVE  AccInv'
<1>0. /\ invite \in [A!Invites -> A!InviteRows] /\ served \in [Requests -> A!RequestStates]
      /\ UNCHANGED <<rank, enabled, limited, made, freed, overlap>>
  BY AccTypes DEF A!InviteCommits, A!RevokeInvite, A!accounts, A!history
<1>1. A!Deleted \in A!InviteRows /\ A!Deleted.state = "deleted"
  BY DEF A!Deleted, A!NoInvite, A!InviteRows
<1>2. /\ served' \in [Requests -> A!RequestStates]
      /\ \A p \in Requests : served'[p] = served[p] \/ served'[p].at = "idle"
  <2>1. served' = served \/ \E q \in Requests : served' = [served EXCEPT ![q] = A!Idle]
    BY DEF A!InviteCommits, A!RevokeInvite, A!Answers
  <2>. QED
    BY <1>0, <2>1, ServedIdle
<1>3. /\ invite' \in [A!Invites -> A!InviteRows]
      /\ \A i \in A!Invites :
           \/ invite'[i] = invite[i] \/ invite'[i].state = "deleted"
           \/ /\ invite[i].state = "none" /\ invite'[i].state = "pending"
              /\ invite'[i].user \in Users
              /\ invite'[i].limit = TRUE => invite'[i].role = "viewer"
  <2>1. ASSUME NEW q \in Requests, A!InviteCommits(q) PROVE <1>3!1 /\ <1>3!2
    <3>. DEFINE m == served[q]
                new == [state |-> "pending", user |-> m.user, role |-> m.role, limit |-> m.limit]
    <3>1. PICK i \in A!Invites :
            /\ invite[i].state = "none" /\ m.at = "invite"
            /\ invite' = [j \in A!Invites |->
                 IF j = i THEN new ELSE IF j \in m.seen THEN A!Deleted ELSE invite[j]]
      BY <2>1 DEF A!InviteCommits
    <3>2. m \in A!RequestStates /\ ReqOK(m)
      BY <1>0 DEF AccInv
    <3>. HIDE DEF m
    <3>3. m.user \in Users /\ m.role \in {"admin", "viewer"} /\ m.limit \in BOOLEAN
          /\ (m.limit = TRUE => m.role = "viewer")
      BY <3>1, <3>2 DEF ReqOK, A!RequestStates
    <3>4. /\ new \in A!InviteRows /\ new.state = "pending" /\ new.user \in Users
          /\ new.limit = TRUE => new.role = "viewer"
      BY <3>3 DEF A!InviteRows
    <3>. HIDE DEF new
    <3>. QED
      BY <1>0, <1>1, <3>1, <3>4
  <2>2. ASSUME NEW i \in A!Invites, invite' = [invite EXCEPT ![i] = A!Deleted]
        PROVE  <1>3!1 /\ <1>3!2
    BY <1>0, <1>1, <2>2
  <2>. QED
    BY <2>1, <2>2 DEF A!RevokeInvite
<1>4. A!TypeOK'
  BY <1>0, <1>2, <1>3 DEF AccInv, A!TypeOK
<1>5. ASSUME NEW p \in Requests PROVE ReqOK(served[p])' /\ LastOK(p)'
  <2>1. CASE served'[p].at = "idle"
    BY <2>1 DEF ReqOK, LastOK
  <2>2. CASE served'[p] = served[p]
    <3>1. A!Remaining(served[p])' = A!Remaining(served[p])
      BY <1>0, <2>2 DEF A!Remaining, A!NewActive, A!NewRole
    <3>2. LastOK(p)'
      BY <1>0, <2>2, <3>1 DEF AccInv, LastOK
    <3>3. served[p].invite # 0 => served[p].invite \in A!Invites
      BY <1>0 DEF A!RequestStates
    <3>4. ReqOK(served[p])'
      BY <1>0, <1>3, <2>2, <3>3 DEF AccInv, ReqOK
    <3>. QED
      BY <3>2, <3>4
  <2>. QED
    BY <1>2, <2>1, <2>2
<1>6. Agree'
  BY <1>2 DEF AccInv, Agree
<1>7. \A i \in A!Invites : InviteOK(i)'
  <2>1. \A i \in A!Invites : made[i] \in Nat
    BY AccTypes
  <2>. QED
    BY <1>0, <1>3, <2>1 DEF AccInv, InviteOK
<1>. QED
  BY <1>4, <1>5, <1>6, <1>7 DEF AccInv

\* A new user takes no superadmin away.
LEMMA LastGrows ==
  ASSUME AccInv, NEW u \in Users, rank[u] = Absent, NEW r \in A!Roles,
         rank' = [rank EXCEPT ![u] = r], enabled' = enabled \cup {u}, overlap' = overlap,
         NEW p \in Requests, served'[p] = served[p] \/ served'[p].at = "idle"
  PROVE  LastOK(p)'
<1>1. CASE served'[p].at = "idle" \/ served[p].at # "commit" \/ p \in overlap
  BY <1>1 DEF LastOK
<1>2. CASE served'[p] = served[p] /\ served[p].at = "commit" /\ p \notin overlap
  <2>. DEFINE m == served[p]
  <2>1. /\ m.user \in Users /\ m.user # u /\ rank \in [Users -> A!Roles \cup {Absent}]
        /\ \A v \in enabled : v \in Users /\ v # u
        /\ m.kind \in {"role", "suspend", "restore"}
    BY <1>2, AccTypes DEF AccInv, ReqOK, A!RequestStates
  <2>2. \A v \in Users : v # u => rank'[v] = rank[v]
    BY <2>1
  <2>3. A!NewRole(m)' = A!NewRole(m)
    BY <1>2, <2>1, <2>2 DEF A!NewRole
  <2>4. \A v \in A!NewActive(m) : v \in Users /\ v # u /\ v \in A!NewActive(m)'
    BY <1>2, <2>1 DEF A!NewActive
  <2>5. \A v \in A!Remaining(m) : v \in A!Remaining(m)'
    BY <1>2, <2>2, <2>3, <2>4 DEF A!Remaining
  <2>. QED
    BY <1>2, <2>1, <2>2, <2>5 DEF AccInv, LastOK
<1>. QED
  BY <1>1, <1>2

LEMMA InsertStep ==
  ASSUME AccInv, NEW q \in Requests, A!InsertUser(q) PROVE AccInv'
<1>. DEFINE m == served[q]
            u == m.user
<1>1. /\ m.at = "insert" /\ rank[u] = Absent
      /\ rank' = [rank EXCEPT ![u] = m.role] /\ enabled' = enabled \cup {u}
      /\ limited' = IF A!Restricts(m) THEN limited \cup {u} ELSE limited
      /\ invite' = IF m.invite # 0 /\ invite[m.invite].state # "deleted"
                   THEN [invite EXCEPT ![m.invite].state = "used"] ELSE invite
      /\ made' = IF m.invite # 0 THEN [made EXCEPT ![m.invite] = @ + 1] ELSE made
      /\ served' = [served EXCEPT ![q] = A!Idle]
      /\ UNCHANGED <<freed, overlap>>
  BY DEF A!InsertUser, A!Free, A!Exists, A!Answers
<1>2. /\ rank \in [Users -> A!Roles \cup {Absent}] /\ enabled \subseteq Users
      /\ limited \subseteq Users /\ \A v \in enabled \cup limited : rank[v] # Absent
      /\ invite \in [A!Invites -> A!InviteRows] /\ served \in [Requests -> A!RequestStates]
      /\ made \in [A!Invites -> Nat] /\ Absent \notin A!Roles /\ 0 \notin A!Invites
      /\ m \in A!RequestStates /\ ReqOK(m)
  BY AccTypes DEF AccInv
<1>3. u \in Users /\ m.role \in A!Roles /\ m.invite \in {0} \cup A!Invites
  BY <1>1, <1>2 DEF ReqOK, A!RequestStates
<1>. HIDE DEF m
<1>4. /\ rank' \in [Users -> A!Roles \cup {Absent}] /\ rank'[u] # Absent
      /\ \A v \in Users : v # u => rank'[v] = rank[v]
  BY <1>1, <1>2, <1>3
<1>5. /\ served' \in [Requests -> A!RequestStates]
      /\ \A p \in Requests : served'[p] = served[p] \/ served'[p].at = "idle"
      /\ served'[q].at = "idle"
  BY <1>1, <1>2, ServedIdle
<1>6. /\ invite' \in [A!Invites -> A!InviteRows]
      /\ \A i \in A!Invites : i # m.invite => invite'[i] = invite[i] /\ made'[i] = made[i]
      /\ \A i \in A!Invites : i = m.invite =>
           /\ invite'[i].user = invite[i].user /\ invite'[i].role = invite[i].role
           /\ invite'[i].limit = invite[i].limit /\ made'[i] = made[i] + 1
           /\ invite'[i].state = IF invite[i].state # "deleted" THEN "used" ELSE "deleted"
      /\ made' \in [A!Invites -> Nat]
  <2>1. CASE m.invite = 0
    BY <1>1, <1>2, <2>1
  <2>2. CASE m.invite # 0
    <3>1. m.invite \in A!Invites /\ invite[m.invite] \in A!InviteRows
      BY <1>2, <1>3, <2>2
    <3>2. [invite[m.invite] EXCEPT !.state = "used"] \in A!InviteRows
      BY <3>1 DEF A!InviteRows
    <3>3. invite' \in [A!Invites -> A!InviteRows]
      BY <1>1, <1>2, <3>1, <3>2
    <3>4. made' = [made EXCEPT ![m.invite] = @ + 1] /\ made' \in [A!Invites -> Nat]
      BY <1>1, <1>2, <2>2, <3>1
    <3>5. ASSUME NEW i \in A!Invites, i # m.invite
          PROVE  invite'[i] = invite[i] /\ made'[i] = made[i]
      BY <1>1, <1>2, <3>1, <3>4, <3>5
    <3>6. ASSUME NEW i \in A!Invites, i = m.invite
          PROVE  /\ invite'[i].user = invite[i].user /\ invite'[i].role = invite[i].role
                 /\ invite'[i].limit = invite[i].limit /\ made'[i] = made[i] + 1
                 /\ invite'[i].state = IF invite[i].state # "deleted" THEN "used" ELSE "deleted"
      BY <1>1, <1>2, <2>2, <3>1, <3>4, <3>6 DEF A!InviteRows
    <3>. QED
      BY <3>3, <3>4, <3>5, <3>6
  <2>. QED
    BY <2>1, <2>2
<1>7. A!TypeOK'
  <2>1. limited' \subseteq limited \cup {u}
    BY <1>1
  <2>2. \A v \in enabled' \cup limited' : v \in Users /\ rank'[v] # Absent
    BY <1>1, <1>2, <1>3, <1>4, <2>1
  <2>. QED
    BY <1>1, <1>4, <1>5, <1>6, <2>2 DEF AccInv, A!TypeOK
<1>8. \A p \in Requests : LastOK(p)'
  BY <1>1, <1>3, <1>5, LastGrows
<1>9. ASSUME NEW p \in Requests PROVE ReqOK(served[p])'
  <2>1. CASE served'[p].at = "idle"
    BY <2>1 DEF ReqOK
  <2>2. CASE served'[p] = served[p] /\ served'[p].at # "idle"
    <3>. DEFINE n == served[p]
    <3>1. ReqOK(n) /\ n \in A!RequestStates
      BY <1>2 DEF AccInv
    <3>2. n.user \in Users /\ n.invite \in {0} \cup A!Invites
      BY <2>2, <3>1 DEF ReqOK, A!RequestStates
    <3>3. rank[n.user] # Absent => rank'[n.user] # Absent
      BY <1>1, <1>4, <3>2
    <3>4. n.at = "insert" /\ n.invite # 0 /\ n.invite = m.invite => n.user = u
      BY <1>1 DEF AccInv, Agree, m
    <3>5. CASE n.at = "insert" /\ n.invite # 0
      <4>1. made'[n.invite] > 0 => rank'[n.user] # Absent
        BY <1>4, <1>6, <3>1, <3>2, <3>3, <3>4, <3>5 DEF ReqOK
      <4>2. /\ invite'[n.invite].state # "none"
            /\ invite'[n.invite].state \in {"pending", "used"} =>
                 /\ invite'[n.invite].user = n.user /\ invite'[n.invite].limit = n.limit
                 /\ n.limit = TRUE => n.role = "viewer"
        <5>1. n.invite \in A!Invites
          BY <3>2, <3>5
        <5>2. invite[n.invite].state \in {"none", "pending", "used", "deleted"}
          BY <1>2, <5>1 DEF A!InviteRows
        <5>. QED
          BY <1>6, <3>1, <3>5, <5>1, <5>2 DEF ReqOK
      <4>. QED
        BY <2>2, <3>2, <3>5, <4>1, <4>2 DEF ReqOK
    <3>6. CASE ~ (n.at = "insert" /\ n.invite # 0)
      BY <2>2, <3>1, <3>3, <3>6 DEF ReqOK
    <3>. QED
      BY <3>5, <3>6
  <2>. QED
    BY <1>5, <2>1, <2>2
<1>10. Agree'
  BY <1>5 DEF AccInv, Agree
<1>11. ASSUME NEW i \in A!Invites PROVE InviteOK(i)'
  <2>0. InviteOK(i) /\ invite[i] \in A!InviteRows /\ made[i] \in Nat
    BY <1>2 DEF AccInv
  <2>1. limited \subseteq limited' /\ freed' = freed
    BY <1>1
  <2>2. CASE i # m.invite
    <3>1. invite[i].user \in Users /\ rank[invite[i].user] # Absent
            => rank'[invite[i].user] # Absent
      BY <1>1, <1>4
    <3>. QED
      BY <1>6, <2>0, <2>1, <2>2, <3>1 DEF InviteOK
  <2>3. CASE i = m.invite
    <3>1. i # 0 /\ invite[i].state # "none" /\ (made[i] > 0 => rank[u] # Absent)
          /\ (invite[i].state \in {"pending", "used"} =>
                /\ invite[i].user = u /\ invite[i].limit = m.limit
                /\ m.limit = TRUE => m.role = "viewer")
      BY <1>1, <1>2, <2>3 DEF ReqOK
    <3>2. made[i] = 0 /\ made'[i] = 1
      BY <1>1, <1>6, <2>0, <2>3, <3>1
    <3>3. invite[i].state # "deleted" => invite[i].state \in {"pending", "used"}
      BY <2>0, <3>1 DEF A!InviteRows
    <3>4. invite[i].state # "deleted" /\ m.limit = TRUE => u \in limited'
      BY <1>1, <2>3, <3>1, <3>3 DEF A!Restricts
    <3>. QED
      BY <1>3, <1>4, <1>6, <2>0, <2>3, <3>1, <3>2, <3>3, <3>4 DEF InviteOK
  <2>. QED
    BY <2>2, <2>3
<1>. QED
  BY <1>7, <1>8, <1>9, <1>10, <1>11 DEF AccInv

LEMMA ConsoleStep ==
  ASSUME AccInv, NEW a \in Users, NEW u \in Users, NEW r \in {"admin", "viewer"},
         A!ConsoleCreates(a, u, r)
  PROVE  AccInv'
<1>1. /\ rank[u] = Absent /\ rank' = [rank EXCEPT ![u] = r] /\ enabled' = enabled \cup {u}
      /\ UNCHANGED <<limited, invite, served, made, freed, overlap>> /\ r \in A!Roles
  BY DEF A!ConsoleCreates, A!Free, A!Exists, A!history, A!Roles
<1>2. /\ rank \in [Users -> A!Roles \cup {Absent}] /\ enabled \subseteq Users
      /\ limited \subseteq Users /\ \A v \in enabled \cup limited : rank[v] # Absent
      /\ Absent \notin A!Roles
  BY AccTypes
<1>3. /\ rank' \in [Users -> A!Roles \cup {Absent}]
      /\ \A v \in Users : rank[v] # Absent => rank'[v] # Absent
      /\ rank'[u] # Absent
  BY <1>1, <1>2
<1>4. A!TypeOK'
  <2>1. \A v \in enabled' \cup limited' : v \in Users /\ rank'[v] # Absent
    BY <1>1, <1>2, <1>3
  <2>. QED
    BY <1>1, <1>3, <2>1 DEF AccInv, A!TypeOK
<1>5. \A p \in Requests : ReqOK(served[p])' /\ LastOK(p)'
  <2>1. \A p \in Requests : LastOK(p)'
    BY <1>1, LastGrows
  <2>2. \A p \in Requests : ReqOK(served[p])'
    BY <1>1, <1>3 DEF AccInv, ReqOK
  <2>. QED
    BY <2>1, <2>2
<1>6. Agree' /\ \A i \in A!Invites : InviteOK(i)'
  BY <1>1, <1>3 DEF AccInv, Agree, InviteOK
<1>. QED
  BY <1>4, <1>5, <1>6 DEF AccInv

LEMMA CommitStep ==
  ASSUME AccInv, NEW q \in Requests, A!Commit(q) PROVE AccInv'
<1>. DEFINE m == served[q]
            u == m.user
<1>1. /\ m.at = "commit" /\ rank' = [rank EXCEPT ![u] = A!NewRole(m)]
      /\ enabled' = A!NewActive(m)
      /\ overlap' = {p \in Requests \ {q} : served[p].at = "commit"}
      /\ served' = [served EXCEPT ![q] = A!Idle]
      /\ UNCHANGED <<limited, invite, made, freed>>
  BY DEF A!Commit, A!Answers
<1>2. /\ rank \in [Users -> A!Roles \cup {Absent}] /\ enabled \subseteq Users
      /\ limited \subseteq Users /\ \A v \in enabled \cup limited : rank[v] # Absent
      /\ served \in [Requests -> A!RequestStates] /\ Absent \notin A!Roles
      /\ m \in A!RequestStates /\ ReqOK(m)
  BY AccTypes DEF AccInv
<1>3. /\ u \in Users /\ rank[u] # Absent /\ m.kind \in {"role", "suspend", "restore"}
      /\ m.role \in A!Roles
  BY <1>1, <1>2 DEF ReqOK, A!RequestStates
<1>4. A!NewRole(m) \in A!Roles /\ A!NewActive(m) \subseteq enabled \cup {u}
  BY <1>2, <1>3 DEF A!NewRole, A!NewActive
<1>. HIDE DEF m
<1>5. /\ rank' \in [Users -> A!Roles \cup {Absent}]
      /\ \A v \in Users : rank[v] # Absent => rank'[v] # Absent
  BY <1>1, <1>2, <1>3, <1>4
<1>6. /\ served' \in [Requests -> A!RequestStates]
      /\ \A p \in Requests : served'[p] = served[p] \/ served'[p].at = "idle"
      /\ served'[q].at = "idle"
  BY <1>1, <1>2, ServedIdle
<1>7. A!TypeOK'
  <2>1. \A v \in enabled' \cup limited' : v \in Users /\ rank'[v] # Absent
    BY <1>1, <1>2, <1>3, <1>4, <1>5
  <2>. QED
    BY <1>1, <1>5, <1>6, <2>1 DEF AccInv, A!TypeOK
<1>8. \A p \in Requests : ReqOK(served[p])'
  BY <1>1, <1>5, <1>6 DEF AccInv, ReqOK
<1>9. \A p \in Requests : LastOK(p)'
  <2>1. ASSUME NEW p \in Requests, served'[p].at = "commit" PROVE p \in overlap'
    BY <1>1, <1>6, <2>1
  <2>. QED
    BY <2>1 DEF LastOK
<1>10. Agree' /\ \A i \in A!Invites : InviteOK(i)'
  BY <1>1, <1>5, <1>6 DEF AccInv, Agree, InviteOK
<1>. QED
  BY <1>7, <1>8, <1>9, <1>10 DEF AccInv

\* However a user's plugins come to be set, by one request or by two at once.
LEMMA PluginsSetStep ==
  ASSUME AccInv, NEW u \in Users, rank[u] # Absent, NEW limit \in BOOLEAN, A!PluginsSet(u, limit),
         served' \in [Requests -> A!RequestStates],
         \A p \in Requests : served'[p] = served[p] \/ served'[p].at = "idle"
  PROVE  AccInv'
<1>1. /\ limited' = IF limit THEN limited \cup {u} ELSE limited \ {u}
      /\ freed' = IF limit THEN freed \ {u} ELSE freed \cup ({u} \cap A!Invited)
      /\ UNCHANGED <<rank, enabled, invite, made, overlap>>
  BY DEF A!PluginsSet
<1>2. /\ limited \subseteq Users /\ freed \subseteq Users
      /\ \A v \in enabled \cup limited : rank[v] # Absent
      /\ invite \in [A!Invites -> A!InviteRows]
  BY AccTypes DEF AccInv
<1>3. A!TypeOK'
  <2>1. limited' \subseteq limited \cup {u} /\ freed' \subseteq freed \cup {u}
    BY <1>1
  <2>. QED
    BY <1>1, <1>2, <2>1 DEF AccInv, A!TypeOK
<1>4. ASSUME NEW p \in Requests PROVE ReqOK(served[p])' /\ LastOK(p)'
  <2>1. CASE served'[p].at = "idle"
    BY <2>1 DEF ReqOK, LastOK
  <2>2. CASE served'[p] = served[p]
    <3>1. A!Remaining(served[p])' = A!Remaining(served[p])
      BY <1>1, <2>2 DEF A!Remaining, A!NewActive, A!NewRole
    <3>. QED
      BY <1>1, <2>2, <3>1 DEF AccInv, ReqOK, LastOK
  <2>. QED
    BY <2>1, <2>2
<1>5. Agree'
  BY DEF AccInv, Agree
<1>6. ASSUME NEW i \in A!Invites PROVE InviteOK(i)'
  <2>1. InviteOK(i) /\ invite[i] \in A!InviteRows
    BY <1>2 DEF AccInv
  <2>2. ASSUME invite[i].state = "used", invite[i].limit = TRUE
        PROVE  invite[i].user \in limited' \cup freed'
    <3>1. invite[i].user \in limited \cup freed /\ invite[i].user \in A!Invited
      BY <2>1, <2>2 DEF InviteOK, A!Invited
    <3>. QED
      BY <1>1, <3>1
  <2>. QED
    BY <1>1, <2>1, <2>2 DEF InviteOK
<1>. QED
  BY <1>3, <1>4, <1>5, <1>6 DEF AccInv

LEMMA PluginsStep ==
  ASSUME AccInv, NEW q \in Requests, A!SetPlugins(q) PROVE AccInv'
<1>1. /\ served[q] \in A!RequestStates /\ ReqOK(served[q])
      /\ served \in [Requests -> A!RequestStates]
  BY AccTypes DEF AccInv
<1>2. /\ served[q].at = "change" /\ A!PluginsSet(served[q].user, served[q].limit)
      /\ served' = [served EXCEPT ![q] = A!Idle]
  BY DEF A!SetPlugins, A!Answers
<1>3. /\ served[q].user \in Users /\ rank[served[q].user] # Absent
      /\ served[q].limit \in BOOLEAN
  BY <1>1, <1>2 DEF ReqOK, A!RequestStates
<1>4. /\ served' \in [Requests -> A!RequestStates]
      /\ \A p \in Requests : served'[p] = served[p] \/ served'[p].at = "idle"
  BY <1>1, <1>2, ServedIdle
<1>. QED
  BY <1>2, <1>3, <1>4, PluginsSetStep

LEMMA TogetherStep ==
  ASSUME AccInv, NEW p \in Requests, NEW q \in Requests, A!SetPluginsTogether(p, q)
  PROVE  AccInv'
<1>1. /\ served[p] \in A!RequestStates /\ ReqOK(served[p])
      /\ served \in [Requests -> A!RequestStates] /\ A!Idle \in A!RequestStates
  BY AccTypes, ServedIdle DEF AccInv
<1>2. /\ served[p].at = "change"
      /\ served' = [served EXCEPT ![p] = A!Idle, ![q] = A!Idle]
  BY DEF A!SetPluginsTogether
<1>3. PICK limit \in A!Merged(served[p].user, {served[p].limit, served[q].limit}) :
        A!PluginsSet(served[p].user, limit)
  BY DEF A!SetPluginsTogether
<1>4. limit \in BOOLEAN
  BY <1>3 DEF A!Merged
<1>5. served[p].user \in Users /\ rank[served[p].user] # Absent
  BY <1>1, <1>2 DEF ReqOK
<1>6. served' \in [Requests -> A!RequestStates]
  BY <1>1, <1>2
<1>7. ASSUME NEW r \in Requests PROVE served'[r] = served[r] \/ served'[r].at = "idle"
  BY <1>1, <1>2 DEF A!Idle
<1>. QED
  BY <1>3, <1>4, <1>5, <1>6, <1>7, PluginsSetStep

LEMMA AccStep == AccInv /\ [A!Next]_A!vars => AccInv'
<1>. SUFFICES ASSUME AccInv, [A!Next]_A!vars PROVE AccInv'
  OBVIOUS
<1>1. CASE UNCHANGED A!vars
  <2>1. UNCHANGED <<rank, enabled, limited, invite, served, made, freed, overlap>>
    BY <1>1 DEF A!vars, A!accounts, A!history
  <2>2. \A p \in Requests : A!Remaining(served[p])' = A!Remaining(served[p])
    BY <2>1 DEF A!Remaining, A!NewActive, A!NewRole
  <2>. QED
    BY <2>1, <2>2 DEF AccInv, A!TypeOK, ReqOK, LastOK, Agree, InviteOK
<1>2. CASE A!Inviting
  BY <1>2, StartSteps, InviteSteps DEF A!Inviting
<1>3. CASE A!Registering
  BY <1>3, StartSteps, ChangeSteps, InsertStep, ConsoleStep DEF A!Registering
<1>4. CASE A!Managing
  <2>1. ASSUME NEW q \in Requests, \/ A!Change(q) \/ A!Commit(q) \/ A!SetPlugins(q)
                                   \/ A!RequestFails(q)
        PROVE  AccInv'
    BY <2>1, ChangeSteps, CommitStep, PluginsStep
  <2>3. ASSUME NEW p \in Requests, NEW q \in Requests, A!SetPluginsTogether(p, q) PROVE AccInv'
    BY <2>3, TogetherStep
  <2>2. ASSUME NEW q \in Requests, NEW a \in Users, NEW u \in Users,
               \/ \E limit \in BOOLEAN : A!ChangeBegins(q, a, u, "plugins", "viewer", limit)
               \/ \E r \in A!Roles : A!ChangeBegins(q, a, u, "role", r, FALSE)
               \/ \E kind \in {"suspend", "restore"} :
                    A!ChangeBegins(q, a, u, kind, "viewer", FALSE)
        PROVE  AccInv'
    <3>1. "viewer" \in A!Roles
      BY DEF A!Roles
    <3>. QED
      BY <2>2, <3>1, StartSteps
  <2>. QED
    BY <1>4, <2>1, <2>2, <2>3 DEF A!Managing
<1>. QED
  BY <1>1, <1>2, <1>3, <1>4 DEF A!Next

\* What a trigger lets pass takes no last superadmin away, unless another change
\* was committed meanwhile; and nothing else takes one away.
LEMMA SuperadminStep ==
  ASSUME AccInv, [A!Next]_A!vars, A!Superadmins # {}, A!Superadmins' = {}
  PROVE  overlap \ overlap' # {}
<1>1. \A u \in A!Superadmins : u \in Users /\ u \in enabled /\ rank[u] = "superadmin"
  BY AccTypes DEF A!Superadmins
<1>2. ASSUME \A u \in A!Superadmins : u \in enabled' /\ rank'[u] = rank[u] PROVE FALSE
  BY <1>1, <1>2 DEF A!Superadmins
<1>3. CASE UNCHANGED <<rank, enabled>>
  BY <1>1, <1>2, <1>3
<1>4. ASSUME NEW u \in Users, NEW r, rank[u] = Absent, rank' = [rank EXCEPT ![u] = r],
             enabled' = enabled \cup {u}
      PROVE  FALSE
  <2>1. \A v \in A!Superadmins : v # u
    BY <1>1, <1>4, AccTypes DEF A!Roles
  <2>2. \A v \in Users : v # u => rank'[v] = rank[v]
    BY <1>4, AccTypes
  <2>. QED
    BY <1>1, <1>2, <1>4, <2>1, <2>2
<1>5. ASSUME NEW q \in Requests, A!InsertUser(q) PROVE FALSE
  <2>1. served[q].user \in Users
    BY <1>5 DEF AccInv, ReqOK, A!InsertUser
  <2>. QED
    BY <1>4, <1>5, <2>1 DEF A!InsertUser, A!Free, A!Exists
<1>6. ASSUME NEW a \in Users, NEW u \in Users, NEW r \in {"admin", "viewer"},
             A!ConsoleCreates(a, u, r)
      PROVE  FALSE
  BY <1>4, <1>6 DEF A!ConsoleCreates, A!Free, A!Exists
<1>7. ASSUME NEW q \in Requests, A!Commit(q) PROVE overlap \ overlap' # {}
  <2>. DEFINE m == served[q]
              u == m.user
  <2>1. /\ m.at = "commit" /\ rank' = [rank EXCEPT ![u] = A!NewRole(m)]
        /\ enabled' = A!NewActive(m) /\ q \notin overlap'
    BY <1>7 DEF A!Commit
  <2>2. /\ ReqOK(m) /\ LastOK(q) /\ u \in Users /\ m.kind \in {"role", "suspend", "restore"}
    BY <2>1 DEF AccInv, ReqOK, A!TypeOK, A!RequestStates
  <2>3. \A v \in Users : rank'[v] = IF v = u THEN A!NewRole(m) ELSE rank[v]
    BY <2>1, AccTypes
  <2>4. A!NewActive(m) \subseteq Users
    BY <2>2, AccTypes DEF A!NewActive
  <2>5. A!Remaining(m) = {}
    BY <2>1, <2>3, <2>4 DEF A!Remaining, A!Superadmins
  <2>6. CASE rank[u] = "superadmin"
    BY <2>1, <2>2, <2>5, <2>6 DEF LastOK
  <2>7. CASE rank[u] # "superadmin"
    <3>1. PICK v \in A!Superadmins : TRUE
      OBVIOUS
    <3>2. v \in enabled /\ rank[v] = "superadmin" /\ v # u
      BY <1>1, <2>7, <3>1
    <3>3. v \in A!NewActive(m)
      BY <2>2, <3>2 DEF A!NewActive
    <3>. QED
      BY <2>5, <3>2, <3>3 DEF A!Remaining
  <2>. QED
    BY <2>6, <2>7
<1>8. CASE A!Inviting
  BY <1>3, <1>8 DEF A!Inviting, A!InviteCommits, A!InviteBegins, A!RevokeInvite, A!accounts
<1>9. CASE A!Registering
  BY <1>3, <1>5, <1>6, <1>9 DEF A!Registering, A!InsertRefused, A!RegisterFirst,
     A!InitialSetup, A!AcceptBegins, A!accounts
<1>10. CASE A!Managing
  BY <1>3, <1>7, <1>10 DEF A!Managing, A!Change, A!SetPlugins, A!SetPluginsTogether,
     A!PluginsSet, A!RequestFails, A!ChangeBegins, A!accounts
<1>. QED
  BY <1>3, <1>8, <1>9, <1>10 DEF A!Next, A!vars, A!accounts

-----------------------------------------------------------------------------
(* Access to a resource.                                                   *)

\* What has spoken all the while speaks still, and what speaks is on record; the
\* lookups that lie behind the request found nothing or failed.
AccessInv ==
  /\ R!TypeOK
  /\ asked # "idle" => steady \subseteq R!Speaking /\ R!Speaking \subseteq ever
  /\ asked = "policy" => "permission" \in ever
  /\ asked \in {"role", "permission", "policy", "refused"} => {"user"} \cap steady \subseteq failed
  /\ asked \in {"permission", "policy", "refused"} => {"role"} \cap steady \subseteq failed
  /\ R!VerdictHasCause

LEMMA AccessInit == R!Init => AccessInv
BY DEF R!Init, AccessInv, R!TypeOK, R!Lookups, R!VerdictHasCause

LEMMA AccessStep == AccessInv /\ [R!Next]_R!vars => AccessInv'
<1>. SUFFICES ASSUME AccessInv, [R!Next]_R!vars PROVE AccessInv'
  OBVIOUS
<1>0. /\ owned \in BOOLEAN /\ permitted \in BOOLEAN /\ grants \subseteq {"user", "role"}
      /\ policy \in {"allow", "deny"} /\ asked \in R!Lookups \cup {"idle", "allowed", "refused"}
      /\ steady \subseteq ever /\ ever \subseteq R!Lookups /\ failed \subseteq R!Lookups
  BY DEF AccessInv, R!TypeOK
<1>1. R!Speaking \subseteq R!Lookups /\ R!Speaking' \subseteq R!Lookups
  BY DEF R!Speaking
<1>2. UNCHANGED R!rules => R!Speaking' = R!Speaking
  BY DEF R!Speaking, R!rules
<1>3. ASSUME NEW ownersRight \in BOOLEAN, R!Asks(ownersRight) PROVE AccessInv'
  <2>1. /\ asked' \in {"owner", "user"} /\ UNCHANGED R!rules /\ R!Speaking' = R!Speaking
        /\ ever' = R!Speaking /\ steady' = R!Speaking /\ failed' = {}
    BY <1>2, <1>3 DEF R!Asks
  <2>2. R!TypeOK'
    BY <1>0, <1>1, <2>1 DEF R!TypeOK, R!rules, R!Lookups
  <2>. QED
    BY <2>1, <2>2 DEF AccessInv, R!VerdictHasCause
<1>4. ASSUME NEW l \in R!Lookups, R!LookUp(l) PROVE AccessInv'
  <2>1. /\ asked = l /\ asked' = IF l \in R!Speaking THEN R!InFavour(l) ELSE R!Otherwise(l)
        /\ UNCHANGED R!rules /\ UNCHANGED <<ever, steady, failed>> /\ R!Speaking' = R!Speaking
    BY <1>2, <1>4 DEF R!LookUp, R!watched
  <2>2. asked' \in R!Lookups \cup {"allowed", "refused"}
    BY <2>1 DEF R!InFavour, R!Otherwise, R!Lookups
  <2>3. R!TypeOK'
    BY <1>0, <2>1, <2>2 DEF R!TypeOK, R!rules
  <2>4. asked # "idle" /\ steady \subseteq R!Speaking /\ R!Speaking \subseteq ever
    BY <2>1 DEF AccessInv, R!Lookups
  <2>5. CASE l = "owner"
    BY <2>1, <2>3, <2>4, <2>5 DEF AccessInv, R!InFavour, R!Otherwise, R!VerdictHasCause
  <2>6. CASE l = "user"
    BY <2>1, <2>3, <2>4, <2>6 DEF AccessInv, R!InFavour, R!Otherwise, R!VerdictHasCause
  <2>7. CASE l = "role"
    BY <2>1, <2>3, <2>4, <2>7 DEF AccessInv, R!InFavour, R!Otherwise, R!VerdictHasCause
  <2>8. CASE l = "permission"
    BY <2>1, <2>3, <2>4, <2>8 DEF AccessInv, R!InFavour, R!Otherwise, R!VerdictHasCause
  <2>9. CASE l = "policy"
    BY <2>1, <2>3, <2>4, <2>9 DEF AccessInv, R!InFavour, R!Otherwise, R!VerdictHasCause
  <2>. QED
    BY <2>5, <2>6, <2>7, <2>8, <2>9 DEF R!Lookups
<1>5. ASSUME NEW l \in R!Lookups, R!LookUpFails(l) PROVE AccessInv'
  <2>1. /\ asked = l /\ l # "permission" /\ failed' = failed \cup {l}
        /\ asked' = IF l = "policy" THEN "allowed" ELSE R!Otherwise(l)
        /\ UNCHANGED R!rules /\ UNCHANGED <<ever, steady>> /\ R!Speaking' = R!Speaking
    BY <1>2, <1>5 DEF R!LookUpFails, R!watched
  <2>2. asked' \in R!Lookups \cup {"allowed", "refused"}
    BY <2>1 DEF R!Otherwise, R!Lookups
  <2>3. R!TypeOK'
    BY <1>0, <2>1, <2>2 DEF R!TypeOK, R!rules
  <2>4. asked # "idle" /\ steady \subseteq R!Speaking /\ R!Speaking \subseteq ever
    BY <2>1 DEF AccessInv, R!Lookups
  <2>5. CASE l \in {"owner", "user", "role"}
    BY <2>1, <2>3, <2>4, <2>5 DEF AccessInv, R!Otherwise, R!VerdictHasCause
  <2>6. CASE l = "policy"
    BY <2>1, <2>3, <2>4, <2>6 DEF AccessInv, R!VerdictHasCause
  <2>. QED
    BY <2>1, <2>5, <2>6 DEF R!Lookups
<1>6. CASE R!Leaves
  <2>1. /\ asked' = "idle" /\ ever' = {} /\ steady' = {} /\ failed' = {} /\ UNCHANGED R!rules
    BY <1>6 DEF R!Leaves
  <2>2. R!TypeOK'
    BY <1>0, <2>1 DEF R!TypeOK, R!rules
  <2>. QED
    BY <2>1, <2>2 DEF AccessInv, R!VerdictHasCause
<1>7. CASE R!RuleChanges
  <2>1. /\ owned' \in BOOLEAN /\ permitted' \in BOOLEAN /\ grants' \subseteq {"user", "role"}
        /\ policy' \in {"allow", "deny"}
    BY <1>0, <1>7 DEF R!RuleChanges, R!Grant, R!Revoke, R!SetDefaultPolicy,
       R!PermissionChanges, R!OwnerChanges
  <2>2. /\ IF asked = "idle" THEN UNCHANGED <<ever, steady>>
           ELSE ever' = ever \cup R!Speaking' /\ steady' = steady \cap R!Speaking'
        /\ UNCHANGED <<asked, failed>>
    BY <1>7 DEF R!RuleChanges, R!Watches, R!watched
  <2>3. ever \subseteq ever' /\ steady' \subseteq steady
    BY <2>2
  <2>4. ever' \subseteq R!Lookups /\ steady' \subseteq ever'
    BY <1>0, <1>1, <2>2
  <2>5. R!TypeOK'
    BY <1>0, <2>1, <2>2, <2>4 DEF R!TypeOK
  <2>. QED
    BY <2>2, <2>3, <2>5 DEF AccessInv, R!VerdictHasCause
<1>8. CASE UNCHANGED R!vars
  <2>1. UNCHANGED R!rules /\ UNCHANGED <<asked, ever, steady, failed>> /\ R!Speaking' = R!Speaking
    BY <1>2, <1>8 DEF R!vars, R!watched
  <2>. QED
    BY <2>1 DEF AccessInv, R!TypeOK, R!VerdictHasCause, R!rules
<1>. QED
  BY <1>3, <1>4, <1>5, <1>6, <1>7, <1>8 DEF R!Next

-----------------------------------------------------------------------------
(* The four of them, of which a behaviour moves one.                       *)

LEMMA OneMoves ==
  /\ MCInit => Init /\ A!Init /\ S!Init /\ R!Init
  /\ [MCNext]_<<part, vars, ofAccounts, ofSessions, ofResources>>
       => [Next]_vars /\ [A!Next]_A!vars /\ [S!Next]_S!vars /\ [R!Next]_R!vars
<1>1. UNCHANGED ofAccounts => UNCHANGED A!vars
  BY DEF ofAccounts, A!vars, A!accounts, A!history
<1>2. UNCHANGED ofSessions => UNCHANGED S!vars
  BY DEF ofSessions, S!vars
<1>3. UNCHANGED ofResources => UNCHANGED R!vars
  BY DEF ofResources, R!vars, R!rules, R!watched
<1>. QED
  BY <1>1, <1>2, <1>3 DEF MCInit, MCNext

LEMMA AccountsAreOK == MCSpec => []AccInv
BY OneMoves, AccInit, AccStep, PTL DEF MCSpec

LEMMA SessionsAreOK == MCSpec => [](S!TypeOK /\ ResetInv)
<1>1. MCInit => S!TypeOK /\ ResetInv
  BY OneMoves, SessionsTypes, ResetSteps
<1>2. S!TypeOK /\ ResetInv /\ [MCNext]_<<part, vars, ofAccounts, ofSessions, ofResources>>
        => S!TypeOK' /\ ResetInv'
  BY OneMoves, SessionsTypes, ResetSteps
<1>. QED
  BY <1>1, <1>2, PTL DEF MCSpec

LEMMA AccessIsOK == MCSpec => []AccessInv
BY OneMoves, AccessInit, AccessStep, PTL DEF MCSpec

\* All that Overrides, Accounts, Sessions and ResourceAccess keep has its type.
THEOREM AllTypesCorrect == MCSpec => []AllTypeOK
<1>1. MCSpec => Spec
  BY OneMoves, PTL DEF MCSpec, Spec
<1>2. TypeOK /\ AccInv /\ S!TypeOK /\ AccessInv => AllTypeOK
  BY DEF AccInv, AccessInv, AllTypeOK
<1>. QED
  BY <1>1, <1>2, TypeCorrect, AccountsAreOK, SessionsAreOK, AccessIsOK, PTL

\* However often and in whichever way an invite is accepted at once, it makes one
\* account at most; and that is held to the invite's plugins until somebody sets
\* them anew, unless the invite was taken back meanwhile.
THEOREM OneAccountPerInvite == MCSpec => []InviteMakesItsAccount
<1>1. AccInv => InviteMakesItsAccount
  <2>1. ASSUME AccInv, NEW i \in A!Invites
        PROVE  /\ made[i] <= 1
               /\ invite[i].state = "used" /\ invite[i].limit =>
                    invite[i].user \in limited \cup freed
    BY <2>1 DEF AccInv, InviteOK
  <2>. QED
    BY <2>1 DEF InviteMakesItsAccount, A!InviteMakesItsAccount
<1>. QED
  BY <1>1, AccountsAreOK, PTL

\* An installation that has an active superadmin keeps one, however many changes
\* are under way, unless one is committed during whose commit another one was.
THEOREM SuperadminStays == MCSpec => SuperadminLostOnlyToOverlap
<1>. DEFINE Stays == A!Superadmins # {} /\ A!Superadmins' = {} => overlap \ overlap' # {}
<1>1. AccInv /\ [A!Next]_A!vars => [Stays]_A!vars
  BY SuperadminStep
<1>2. (MCSpec => [][Stays]_A!vars) => (MCSpec => SuperadminLostOnlyToOverlap)
  BY DEF SuperadminLostOnlyToOverlap, A!SuperadminLostOnlyToOverlap
<1>. HIDE DEF Stays
<1>3. MCSpec => [][Stays]_A!vars
  BY <1>1, OneMoves, AccountsAreOK, PTL DEF MCSpec
<1>. QED
  BY <1>2, <1>3

\* A session opened with a password from before the last reset is of a login that
\* was under way while a reset ended the sessions.
THEOREM ResetsEndSessions == MCSpec => []ResetEndsSessions
<1>1. ResetInv => ResetEndsSessions
  BY DEF ResetInv, ResetEndsSessions
<1>. QED
  BY <1>1, SessionsAreOK, PTL

\* However the rules change between the lookups of a request: who is let in had a
\* reason while it was decided, and a grant that stood all the while lets its
\* holder in, unless its own lookup failed.
THEOREM VerdictsHaveCause == MCSpec => []VerdictHasCause
<1>1. AccessInv => VerdictHasCause
  BY DEF AccessInv, VerdictHasCause
<1>. QED
  BY <1>1, AccessIsOK, PTL
=============================================================================
