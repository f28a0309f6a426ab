------------------------------ MODULE Accounts ------------------------------
(***************************************************************************)
(* Accounts and invites (routes/auth.py, and the `users` command of        *)
(* routes/admin.py).  A handler is a function that runs in a thread of one *)
(* of the API's workers: it reads in one transaction and writes in a later *)
(* one, so that requests interleave between the two.  A change of a user's *)
(* role or is_active is two steps: the UPDATE with the deferred trigger    *)
(* check_superadmin_invariant (migration 029), which counts what is        *)
(* committed and its own change; and the commit.  The row stays locked in  *)
(* between.                                                                *)
(*                                                                         *)
(* A user is an e-mail address, which is UNIQUE.  Analysts and viewers do  *)
(* not differ here.  Whoever manages users is signed in: see Sessions.     *)
(***************************************************************************)
EXTENDS Integers

CONSTANTS Users,         \* e-mail addresses
          Requests,      \* requests at once
          MaxInvites,    \* bound: invites ever sent
          InviteRoles,   \* bound: roles invited to, of admin and viewer
          CountFails,    \* whether the count of users may fail
          Absent         \* no account

VARIABLES
  role,      \* each user's role, or Absent
  active,    \* users with is_active
  limited,   \* users with rows in resource_acls: they see some plugins only
  invite,    \* user_invites
  request,   \* the requests in progress
  made,      \* history: accounts made from each invite
  freed,     \* history: users of restricted invites, freed by hand since
  overlap    \* history: changes during whose commit another one was committed

accounts == <<role, active, limited>>
history == <<made, freed, overlap>>
vars == <<accounts, invite, request, history>>

Roles == {"superadmin", "admin", "viewer"}
Invites == 1..MaxInvites
InviteRows == [state : {"none", "pending", "used", "deleted"},
               user : Users \cup {Absent}, role : {"admin", "viewer"}, limit : BOOLEAN]
RequestStates == [at : {"idle", "insert", "change", "commit", "invite"},
                  user : Users \cup {Absent},
                  role : Roles, limit : BOOLEAN, rereads : BOOLEAN,
                  invite : {0} \cup Invites,
                  kind : {"role", "suspend", "restore", "plugins"},
                  seen : SUBSET Invites]

TypeOK ==
  /\ role \in [Users -> Roles \cup {Absent}]
  /\ active \cup limited \subseteq {u \in Users : role[u] # Absent}
  /\ invite \in [Invites -> InviteRows]
  /\ request \in [Requests -> RequestStates]
  /\ made \in [Invites -> Nat]
  /\ freed \subseteq Users
  /\ overlap \subseteq Requests

Idle == [at |-> "idle", user |-> Absent, role |-> "viewer", limit |-> FALSE, rereads |-> FALSE,
         invite |-> 0, kind |-> "role", seen |-> {}]

NoInvite == [state |-> "none", user |-> Absent, role |-> "viewer", limit |-> FALSE]
Deleted == [NoInvite EXCEPT !.state = "deleted"]

Init ==
  /\ role = [u \in Users |-> Absent]
  /\ active = {} /\ limited = {}
  /\ invite = [i \in Invites |-> NoInvite]
  /\ request = [q \in Requests |-> Idle]
  /\ made = [i \in Invites |-> 0] /\ freed = {} /\ overlap = {}

Exists(u) == role[u] # Absent
Manages(a) == a \in active /\ role[a] \in {"superadmin", "admin"}
Superadmins == {u \in active : role[u] = "superadmin"}

Starts(q, m) == request[q].at = "idle" /\ request' = [request EXCEPT ![q] = m]
GoesOn(q, m) == request' = [request EXCEPT ![q] = m]
Answers(q) == request' = [request EXCEPT ![q] = Idle]

\* A row that another transaction has written and not yet committed.
Locked(u) == \E q \in Requests : request[q].at = "commit" /\ request[q].user = u
LockedInvite(i) == \E q \in Requests : i \in request[q].seen

-----------------------------------------------------------------------------
(* Invites.                                                                *)

Pending(u) == {i \in Invites : invite[i].user = u /\ invite[i].state = "pending"}

\* The checks, and the DELETE of the address's unused invites, which finds
\* those committed and locks them.  A viewer's invite names plugins; one that
\* names none makes an account as an admin's does.
InviteBegins(q, a, u, r) ==
  /\ Manages(a)
  /\ ~ Exists(u)
  /\ Starts(q, [Idle EXCEPT !.at = "invite", !.user = u, !.role = r, !.limit = (r = "viewer"),
                            !.seen = Pending(u)])
  /\ UNCHANGED <<accounts, invite, history>>

\* The INSERT, and the commit of both.
InviteCommits(q) ==
  LET m == request[q]
  IN /\ m.at = "invite"
     /\ \E i \in Invites :
          /\ invite[i].state = "none" /\ \A j \in Invites : j < i => invite[j].state # "none"
          /\ invite' = [j \in Invites |->
               IF j = i THEN [state |-> "pending", user |-> m.user, role |-> m.role,
                              limit |-> m.limit]
               ELSE IF j \in m.seen THEN Deleted
               ELSE invite[j]]
     /\ Answers(q)
     /\ UNCHANGED <<accounts, history>>

RevokeInvite(a, i) ==
  /\ Manages(a)
  /\ invite[i].state = "pending" /\ ~ LockedInvite(i)
  /\ invite' = [invite EXCEPT ![i] = Deleted]
  /\ UNCHANGED <<accounts, request, history>>

-----------------------------------------------------------------------------
(* Registration.                                                           *)

\* register with no invite: no active user exists, or the count has failed
\* and is taken for none.
RegisterFirst(q, u) ==
  /\ active = {} \/ CountFails
  /\ Starts(q, [Idle EXCEPT !.at = "insert", !.user = u, !.role = "superadmin"])
  /\ UNCHANGED <<accounts, invite, history>>

\* initial_setup: no user exists, active or not.
InitialSetup(q, u) ==
  /\ \A v \in Users : ~ Exists(v)
  /\ Starts(q, [Idle EXCEPT !.at = "insert", !.user = u, !.role = "admin"])
  /\ UNCHANGED <<accounts, invite, history>>

\* register with an invite, which reads the invite's plugins again when it
\* writes; and accept_invite, which does not.
AcceptBegins(q, i, rereads) ==
  /\ invite[i].state = "pending"
  /\ rereads => active # {}
  /\ Starts(q, [Idle EXCEPT !.at = "insert", !.user = invite[i].user, !.role = invite[i].role,
                            !.limit = invite[i].limit, !.invite = i, !.rereads = rereads])
  /\ UNCHANGED <<accounts, invite, history>>

\* Mutant: the address is unique among active users only.
FreeOfActive(u) == u \notin active

\* users.email is UNIQUE.
Free(u) == ~ Exists(u)

\* Mutant: only an invite that is still there restricts.
RestrictsIfReread(m) == m.limit /\ m.invite # 0 /\ m.rereads

\* The plugins an invite restricts its account to.
Restricts(m) == m.limit /\ m.role = "viewer"
                /\ (m.rereads => invite[m.invite].state # "deleted")

InsertUser(q) ==
  LET m == request[q]
      u == m.user
  IN /\ m.at = "insert"
     /\ Free(u) /\ ~ LockedInvite(m.invite)
     /\ role' = [role EXCEPT ![u] = m.role]
     /\ active' = active \cup {u}
     /\ limited' = IF Restricts(m) THEN limited \cup {u} ELSE limited
     /\ invite' = IF m.invite # 0 /\ invite[m.invite].state # "deleted"
                  THEN [invite EXCEPT ![m.invite].state = "used"] ELSE invite
     /\ made' = IF m.invite # 0 THEN [made EXCEPT ![m.invite] = @ + 1] ELSE made
     /\ Answers(q)
     /\ UNCHANGED <<freed, overlap>>

InsertRefused(q) ==
  /\ request[q].at = "insert" /\ ~ Free(request[q].user)
  /\ Answers(q)
  /\ UNCHANGED <<accounts, invite, history>>

\* The `users create` command of the console.
ConsoleCreates(a, u, r) ==
  /\ Manages(a) /\ role[a] = "superadmin"
  /\ Free(u)
  /\ role' = [role EXCEPT ![u] = r]
  /\ active' = active \cup {u}
  /\ UNCHANGED <<limited, invite, request, history>>

-----------------------------------------------------------------------------
(* Managing users.                                                         *)

\* What each handler asks of the caller and of the row it has read.
MayChange(a, u, kind, r) ==
  CASE kind \in {"role", "suspend"} ->
         /\ role[u] = "superadmin" => role[a] = "superadmin"
         /\ kind = "role" /\ r = "superadmin" => role[a] = "superadmin"
    [] kind = "restore" -> TRUE
    [] kind = "plugins" -> role[u] = "viewer"

\* update_user, delete_user, reactivate_user and set_user_plugin_access_endpoint.
\* promote_to_superadmin, demote_superadmin and the console change a role or
\* is_active as update_user by a superadmin may, on a row they look at again.
ChangeBegins(q, a, u, kind, r, limit) ==
  /\ Manages(a) /\ Exists(u)
  /\ MayChange(a, u, kind, r)
  /\ Starts(q, [Idle EXCEPT !.at = "change", !.user = u, !.kind = kind, !.role = r,
                            !.limit = limit])
  /\ UNCHANGED <<accounts, invite, history>>

\* Mutant: the fields that the caller leaves out are emptied.
NewRoleOrNone(m) == IF m.kind = "role" THEN m.role ELSE Absent

NewRole(m) == IF m.kind = "role" THEN m.role ELSE role[m.user]
NewActive(m) == CASE m.kind = "suspend" -> active \ {m.user}
                  [] m.kind = "restore" -> active \cup {m.user}
                  [] m.kind = "role" -> active

\* Mutant: the trigger counts superadmins who are not active, too.
RemainingOfAll(m) ==
  {u \in Users : (IF u = m.user THEN NewRole(m) ELSE role[u]) = "superadmin"}

\* Who is left as superadmin, for the trigger of this transaction.
Remaining(m) ==
  {u \in NewActive(m) : (IF u = m.user THEN NewRole(m) ELSE role[u]) = "superadmin"}

\* The UPDATE and the deferred trigger, which raises if nobody is left.
Change(q) ==
  LET m == request[q]
  IN /\ m.at = "change" /\ m.kind # "plugins"
     /\ ~ Locked(m.user)
     /\ IF role[m.user] = "superadmin" => Remaining(m) # {}
        THEN GoesOn(q, [m EXCEPT !.at = "commit"])
        ELSE Answers(q)
     /\ UNCHANGED <<accounts, invite, history>>

Commit(q) ==
  LET m == request[q]
  IN /\ m.at = "commit"
     /\ role' = [role EXCEPT ![m.user] = NewRole(m)]
     /\ active' = NewActive(m)
     /\ overlap' = {p \in Requests \ {q} : request[p].at = "commit"}
     /\ Answers(q)
     /\ UNCHANGED <<limited, invite, made, freed>>

Invited == {invite[i].user : i \in {i \in Invites : invite[i].state = "used" /\ invite[i].limit}}

\* apply_plugin_access_with_cursor: rows restrict the user, no rows do not.
PluginsSet(u, limit) ==
  /\ limited' = IF limit THEN limited \cup {u} ELSE limited \ {u}
  /\ freed' = IF limit THEN freed \ {u} ELSE freed \cup ({u} \cap Invited)
  /\ UNCHANGED <<role, active, invite, made, overlap>>

SetPlugins(q) ==
  LET m == request[q]
  IN /\ m.at = "change" /\ m.kind = "plugins"
     /\ PluginsSet(m.user, m.limit)
     /\ Answers(q)

\* Two settings for one user that read the same rows: each adds and removes by
\* what it has read.  Two lists may leave nothing, each without the other's, and
\* a list that is there already adds nothing to an "all".
Merged(u, limits) ==
  CASE TRUE \notin limits                   -> {FALSE}
    [] TRUE \in limits /\ u \in limited    -> BOOLEAN
    [] TRUE \in limits /\ u \notin limited -> {TRUE}

SetPluginsTogether(p, q) ==
  LET m == request[p]
      n == request[q]
  IN /\ p # q /\ m.user = n.user
     /\ {m.at, n.at} = {"change"} /\ {m.kind, n.kind} = {"plugins"}
     /\ \E limit \in Merged(m.user, {m.limit, n.limit}) : PluginsSet(m.user, limit)
     /\ request' = [request EXCEPT ![p] = Idle, ![q] = Idle]

\* The worker dies or the database fails: the transaction is rolled back.
RequestFails(q) ==
  /\ request[q].at # "idle"
  /\ overlap' = overlap \ {q}
  /\ Answers(q)
  /\ UNCHANGED <<accounts, invite, made, freed>>

Inviting ==
  \/ \E q \in Requests : InviteCommits(q)
  \/ \E q \in Requests, a, u \in Users, r \in InviteRoles : InviteBegins(q, a, u, r)
  \/ \E a \in Users, i \in Invites : RevokeInvite(a, i)
Registering ==
  \/ \E q \in Requests : InsertUser(q) \/ InsertRefused(q)
  \/ \E q \in Requests, u \in Users : RegisterFirst(q, u) \/ InitialSetup(q, u)
  \/ \E q \in Requests, i \in Invites, rereads \in BOOLEAN : AcceptBegins(q, i, rereads)
  \/ \E a, u \in Users, r \in {"admin", "viewer"} : ConsoleCreates(a, u, r)
Managing ==
  \/ \E q \in Requests : Change(q) \/ Commit(q) \/ SetPlugins(q) \/ RequestFails(q)
  \/ \E p, q \in Requests : SetPluginsTogether(p, q)
  \/ \E q \in Requests, a, u \in Users, limit \in BOOLEAN :
       ChangeBegins(q, a, u, "plugins", "viewer", limit)
  \/ \E q \in Requests, a, u \in Users, r \in Roles : ChangeBegins(q, a, u, "role", r, FALSE)
  \/ \E q \in Requests, a, u \in Users, kind \in {"suspend", "restore"} :
       ChangeBegins(q, a, u, kind, "viewer", FALSE)

Next == Inviting \/ Registering \/ Managing

Spec == Init /\ [][Next]_vars

-----------------------------------------------------------------------------
(* Properties.                                                             *)

\* An installation that has an active superadmin keeps one, whoever is demoted,
\* suspended or given a role, in whatever order; unless a change is committed
\* during whose commit another one was, where neither trigger saw the other's.
SuperadminLostOnlyToOverlap ==
  [][Superadmins # {} /\ Superadmins' = {} => overlap \ overlap' # {}]_vars

\* However often and in whichever way an invite is accepted at once, it makes
\* one account, which is held to the plugins the invite names until somebody
\* sets them anew, unless the invite was taken back meanwhile.
InviteMakesItsAccount ==
  \A i \in Invites :
    /\ made[i] <= 1
    /\ invite[i].state = "used" /\ invite[i].limit =>
         invite[i].user \in limited \cup freed
=============================================================================
