--------------------------- MODULE ResourceAccess ---------------------------
(***************************************************************************)
(* Whether one user may do one thing with one resource                     *)
(* (check_resource_access, rbac/resource_acls.py).  The answer is put      *)
(* together from up to five lookups, each a transaction of its own that    *)
(* may fail, while operators grant, revoke and set the default policy and  *)
(* the resource is deleted and made anew.  Requests only read, so that one *)
(* stands for all.                                                         *)
(***************************************************************************)
EXTENDS FiniteSets

VARIABLES
  owned,      \* created_by: whether the resource is there and the user's
  grants,     \* resource_acls: rows for the user, and for the user's role
  permitted,  \* what the worker's cache says of the role: see Overrides
  policy,     \* rbac_resource_defaults
  asked,      \* how far the request is
  ever,       \* history: what has spoken for the user since it began
  steady,     \* history: what has done so all the while
  failed      \* history: lookups of the request that failed

rules == <<owned, grants, permitted, policy>>
watched == <<ever, steady>>
vars == <<rules, asked, watched, failed>>

Lookups == {"owner", "user", "role", "permission", "policy"}

TypeOK ==
  /\ {owned, permitted} \subseteq BOOLEAN
  /\ grants \subseteq {"user", "role"}
  /\ policy \in {"allow", "deny"}
  /\ asked \in Lookups \cup {"idle", "allowed", "refused"}
  /\ steady \subseteq ever /\ ever \subseteq Lookups
  /\ failed \subseteq Lookups

\* What speaks for the user.
Speaking ==
  {l \in Lookups : CASE l = "owner" -> owned
                     [] l \in {"user", "role"} -> l \in grants
                     [] l = "permission" -> permitted
                     [] l = "policy" -> policy = "allow"}

\* What spoke before a step and what does after it.
Watches ==
  /\ ever' = ever \cup Speaking'
  /\ steady' = steady \cap Speaking'

\* The seed of migration 061 is "allow" for every type.
Init ==
  /\ owned = FALSE /\ grants = {} /\ permitted \in BOOLEAN /\ policy = "allow"
  /\ asked = "idle" /\ ever = {} /\ steady = {} /\ failed = {}

-----------------------------------------------------------------------------
(* The request.                                                            *)

\* Only reading and writing are an owner's by right.
Asks(ownersRight) ==
  /\ asked = "idle"
  /\ asked' = IF ownersRight THEN "owner" ELSE "user"
  /\ ever' = Speaking /\ steady' = Speaking
  /\ failed' = {}
  /\ UNCHANGED rules

\* Where a lookup leads that does not decide.
Otherwise(l) == CASE l = "owner" -> "user"
                  [] l = "user" -> "role"
                  [] l = "role" -> "permission"
                  [] l \in {"permission", "policy"} -> "refused"

\* Mutant: the role's permission is enough.
InFavourAtOnce(l) == "allowed"

\* Where one leads that speaks for the user.
InFavour(l) == IF l = "permission" THEN "policy" ELSE "allowed"

LookUp(l) ==
  /\ asked = l
  /\ asked' = IF l \in Speaking THEN InFavour(l) ELSE Otherwise(l)
  /\ UNCHANGED <<rules, watched, failed>>

\* Each lookup has an answer for when the database has none: no owner, no
\* grant, the policy "allow".  (For the permission see Overrides.)
LookUpFails(l) ==
  /\ asked = l /\ l # "permission"
  /\ asked' = IF l = "policy" THEN "allowed" ELSE Otherwise(l)
  /\ failed' = failed \cup {l}
  /\ UNCHANGED <<rules, watched>>

Leaves ==
  /\ asked \in {"allowed", "refused"}
  /\ asked' = "idle" /\ ever' = {} /\ steady' = {} /\ failed' = {}
  /\ UNCHANGED rules

-----------------------------------------------------------------------------
(* The rules.                                                              *)

Grant(k) == grants' = grants \cup {k} /\ UNCHANGED <<owned, permitted, policy>>
Revoke(k) == k \in grants /\ grants' = grants \ {k} /\ UNCHANGED <<owned, permitted, policy>>
SetDefaultPolicy(v) == policy' = v /\ UNCHANGED <<owned, grants, permitted>>

\* An edit of the role reaches the worker's cache.
PermissionChanges == permitted' = ~ permitted /\ UNCHANGED <<owned, grants, policy>>

\* The resource is created by the user, deleted, or created by another one.
\* Its grants go by its slug, and stay.
OwnerChanges == owned' = ~ owned /\ UNCHANGED <<grants, permitted, policy>>

RuleChanges ==
  /\ \/ \E k \in {"user", "role"} : Grant(k) \/ Revoke(k)
     \/ \E v \in {"allow", "deny"} : SetDefaultPolicy(v)
     \/ PermissionChanges \/ OwnerChanges
  /\ IF asked = "idle" THEN UNCHANGED watched ELSE Watches
  /\ UNCHANGED <<asked, failed>>

Next ==
  \/ \E ownersRight \in BOOLEAN : Asks(ownersRight)
  \/ \E l \in Lookups : LookUp(l) \/ LookUpFails(l)
  \/ Leaves \/ RuleChanges

Spec == Init /\ [][Next]_vars

-----------------------------------------------------------------------------
(* Properties.                                                             *)

\* However the rules change between the lookups: who is let in had a reason
\* while the request was decided, its own or the role's under a policy that
\* allowed or could not be read; and a grant that stood all the while lets its
\* holder in, unless the lookup of that very grant failed.
VerdictHasCause ==
  /\ asked = "allowed" =>
       \/ {"owner", "user", "role"} \cap ever # {}
       \/ "permission" \in ever /\ "policy" \in ever \cup failed
  /\ asked = "refused" => {"user", "role"} \cap steady \subseteq failed
=============================================================================
