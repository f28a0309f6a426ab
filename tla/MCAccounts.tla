----------------------------- MODULE MCAccounts -----------------------------
(* Instances of Sessions, Accounts, Overrides and ResourceAccess for TLC.   *)
(* A behaviour is of one of the four, as none reads what another writes but *)
(* is_active, which Sessions lets change at any time, and the role's        *)
(* permission, with which ResourceAccess does the same.                     *)
EXTENDS Overrides, TLC

CONSTANTS Users, MaxInvites, InviteRoles, CountFails, Links, MaxPasswords,
          Parts     \* which of the four are checked

ASSUME BoundsAssumption == /\ {MaxInvites, MaxPasswords} \subseteq Nat
                           /\ InviteRoles \subseteq {"admin", "viewer"}
                           /\ CountFails \in BOOLEAN
ASSUME NobodyAssumption == Absent \notin Users \cup {"superadmin", "admin", "viewer"}

VARIABLES part, rank, enabled, limited, invite, served, made, freed, overlap,
          active, password, session, link, resetting, ended, late, confirmed,
          owned, grants, permitted, policy, asked, ever, steady, failed

A == INSTANCE Accounts WITH role <- rank, active <- enabled, request <- served
S == INSTANCE Sessions WITH request <- resetting
R == INSTANCE ResourceAccess

ofAccounts == <<rank, enabled, limited, invite, served, made, freed, overlap>>
ofSessions == <<active, password, session, link, resetting, ended, late, confirmed>>
ofResources == <<owned, grants, permitted, policy, asked, ever, steady, failed>>

MCInit ==
  /\ part \in Parts /\ Init /\ A!Init /\ S!Init /\ R!Init
  /\ part # "overrides" => ~ builtin
  /\ part # "resources" => ~ permitted
MCNext ==
  \/ part = "overrides" /\ Next /\ UNCHANGED <<part, ofAccounts, ofSessions, ofResources>>
  \/ part = "accounts" /\ A!Next /\ UNCHANGED <<part, vars, ofSessions, ofResources>>
  \/ part = "sessions" /\ S!Next /\ UNCHANGED <<part, vars, ofAccounts, ofResources>>
  \/ part = "resources" /\ R!Next /\ UNCHANGED <<part, vars, ofAccounts, ofSessions>>
MCSpec == MCInit /\ [][MCNext]_<<part, vars, ofAccounts, ofSessions, ofResources>>

\* The cfg gives users and processes the same names, which are never together.
Interchangeable == Permutations(Users \cup Processes) \cup Permutations(Requests)

AllTypeOK == TypeOK /\ A!TypeOK /\ S!TypeOK /\ R!TypeOK
InviteMakesItsAccount == A!InviteMakesItsAccount
SuperadminLostOnlyToOverlap == A!SuperadminLostOnlyToOverlap
ResetEndsSessions == S!ResetEndsSessions
ConfirmedResetHolds == S!ConfirmedResetHolds
VerdictHasCause == R!VerdictHasCause
=============================================================================
