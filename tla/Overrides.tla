----------------------------- MODULE Overrides -----------------------------
(***************************************************************************)
(* One permission of one role: the catalogue's default, the operators'     *)
(* override of it (rbac_role_overrides), and the cache of resolved roles   *)
(* that each API worker keeps (rbac/overrides.py, the write endpoints of   *)
(* routes/system.py).  A resolution runs in a thread of a worker: it notes *)
(* the time and finds nothing live in the cache, then queries, then stores *)
(* what it found.  A write is an `async` handler, one at a time in a       *)
(* worker: it checks, then commits, then invalidates its own worker's      *)
(* cache.  Nothing tells the other workers.                                *)
(* The permission is one of the catalogue; those of a plugin join it when  *)
(* the plugin is loaded.                                                   *)
(*                                                                         *)
(* Times are kept as what is left of an entry and as the age of what is    *)
(* under way, neither of which matters beyond TTL.                         *)
(***************************************************************************)
EXTENDS Integers

CONSTANTS Processes,   \* workers of the API
          Requests,    \* resolutions and writes at once
          TTL,         \* _CACHE_TTL_SEC
          OutageTTL,   \* for how long a failed query is remembered
          Absent       \* no worker

ASSUME TTLAssumption == TTL \in Nat /\ OutageTTL \in 0..TTL
ASSUME AbsentAssumption == Absent \notin Processes

VARIABLES
  builtin,   \* whether the role is one of _BUILT_IN_ROLES
  default,   \* ROLE_PERMISSIONS: whether it holds the permission
  exists,    \* rbac_custom_roles has the role
  override,  \* the row of rbac_role_overrides
  cache,     \* each worker's _CACHE: the answer, and the time it has left
  request,   \* the requests in progress
  since,     \* history: how long ago the effective permission last changed
  blind,     \* history: workers whose entry comes from a failed query
  behind,    \* history: workers that need not know of the last edit yet
  crossed,   \* history: writes under way since before the role was deleted
  belated    \* history: the row was written by one of those

role == <<builtin, default, exists, override>>
vars == <<role, cache, request, since, blind, behind, crossed, belated>>

Kinds == {"grant", "revoke"}
Edits == Kinds \cup {"clear", "create", "seed", "delete"}
Entries == [holds : BOOLEAN, left : 0..TTL]
RequestStates == [at : {"idle", "query", "store", "write", "invalidate"},
                  worker : Processes \cup {Absent}, edit : Edits,
                  age : 0..TTL, holds : BOOLEAN, failed : BOOLEAN]

TypeOK ==
  /\ {builtin, default, exists} \subseteq BOOLEAN
  /\ override \in Kinds \cup {"none"}
  /\ cache \in [Processes -> Entries]
  /\ request \in [Requests -> RequestStates]
  /\ since \in 0..TTL
  /\ blind \cup behind \subseteq Processes
  /\ crossed \subseteq Requests
  /\ belated \in BOOLEAN

\* An entry whose time is over is never read again.
NoEntry == [holds |-> FALSE, left |-> 0]
Entry(h, t) == IF t > 0 THEN [holds |-> h, left |-> t] ELSE NoEntry
Idle == [at |-> "idle", worker |-> Absent, edit |-> "clear", age |-> 0, holds |-> FALSE,
         failed |-> FALSE]

\* A custom role is not in the catalogue.
Init ==
  /\ builtin \in BOOLEAN /\ default \in {FALSE, builtin} /\ exists = FALSE
  /\ override = "none"
  /\ cache = [p \in Processes |-> NoEntry]
  /\ request = [q \in Requests |-> Idle]
  /\ since = TTL
  /\ blind = {} /\ behind = {} /\ crossed = {} /\ belated = FALSE

Resolved(d, o) == (d \/ o = "grant") /\ o # "revoke"
Effective == Resolved(default, override)
Live(p) == cache[p].left > 0

Starts(q, m) == request[q].at = "idle" /\ request' = [request EXCEPT ![q] = m]
Answers(q) == request' = [request EXCEPT ![q] = Idle]

-----------------------------------------------------------------------------
(* resolve_role_permissions.                                               *)

\* A live entry is the answer: no step.
LookUp(q, p) ==
  /\ ~ Live(p)
  /\ Starts(q, [Idle EXCEPT !.at = "query", !.worker = p])
  /\ UNCHANGED <<role, cache, since, blind, behind, crossed, belated>>

Query(q) ==
  /\ request[q].at = "query"
  /\ request' = [request EXCEPT ![q].at = "store", ![q].holds = Effective, ![q].failed = FALSE]
  /\ UNCHANGED <<role, cache, since, blind, behind, crossed, belated>>

QueryFails(q) ==
  /\ request[q].at = "query"
  /\ request' = [request EXCEPT ![q].at = "store", ![q].holds = default, ![q].failed = TRUE]
  /\ UNCHANGED <<role, cache, since, blind, behind, crossed, belated>>

\* Mutant: an entry lives from when it is stored.
LifeFromNow(m) == IF m.failed THEN OutageTTL ELSE TTL

\* What is left of an entry when it is stored: it lives from the lookup.
Life(m) ==
  LET ttl == IF m.failed THEN OutageTTL ELSE TTL
  IN IF m.age < ttl THEN ttl - m.age ELSE 0

Store(q) ==
  LET m == request[q]
  IN /\ m.at = "store"
     /\ cache' = [cache EXCEPT ![m.worker] = Entry(m.holds, Life(m))]
     /\ blind' = IF m.failed /\ Life(m) > 0 THEN blind \cup {m.worker} ELSE blind \ {m.worker}
     /\ Answers(q)
     /\ UNCHANGED <<role, since, behind, crossed, belated>>

-----------------------------------------------------------------------------
(* upsert_role_override, clear_role_override, create_custom_role and       *)
(* delete_custom_role.                                                     *)

Writing(q) == request[q].at \in {"write", "invalidate"}

\* Mutant: an override is taken for any role.
MayEditUnknown(e) ==
  CASE e \in Kinds \cup {"clear"} -> TRUE
    [] e \in {"create", "seed"} -> ~ builtin
    [] e = "delete" -> ~ builtin /\ exists

\* The checks.  A failed listing of roles hides them, so that a creation may
\* get past its check; the PRIMARY KEY refuses it.  No user can hold a custom
\* role (users_role_check), which a deletion asks too.
MayEdit(e) ==
  CASE e \in Kinds -> builtin \/ exists
    [] e = "clear" -> TRUE
    [] e \in {"create", "seed"} -> ~ builtin
    [] e = "delete" -> ~ builtin /\ exists

EditBegins(q, p, e) ==
  /\ \A r \in Requests : Writing(r) => request[r].worker # p
  /\ MayEdit(e)
  /\ Starts(q, [Idle EXCEPT !.at = "write", !.worker = p, !.edit = e])
  /\ UNCHANGED <<role, cache, since, blind, behind, crossed, belated>>

\* The row after the transaction.
Row(e) == CASE e \in Kinds -> e
            [] e = "seed" -> "grant"
            [] e \in {"clear", "delete"} -> "none"
            [] e = "create" -> override

\* role is the PRIMARY KEY of rbac_custom_roles, and an override UNIQUE.
Accepted(e) == /\ e \in {"create", "seed"} => ~ exists
               /\ e = "seed" => override = "none"

\* Where a lookup that has its answer already may yet store it.
Storing == {request[q].worker : q \in {q \in Requests : request[q].at = "store"}}

\* The commit.
Write(q) ==
  LET m == request[q]
  IN /\ m.at = "write" /\ Accepted(m.edit)
     /\ override' = Row(m.edit)
     /\ exists' = CASE m.edit \in {"create", "seed"} -> TRUE
                    [] m.edit = "delete" -> FALSE
                    [] OTHER -> exists
     /\ request' = [request EXCEPT ![q].at = "invalidate"]
     /\ since' = IF Resolved(default, Row(m.edit)) = Effective THEN since ELSE 0
     /\ behind' = (behind \cap {m.worker}) \cup (Processes \ {m.worker})
     /\ crossed' = (IF m.edit = "delete" THEN {r \in Requests : request[r].at = "write"}
                    ELSE crossed) \ {q}
     /\ belated' = (\/ m.edit \in Kinds /\ q \in crossed
                    \/ m.edit = "create" /\ belated)
     /\ UNCHANGED <<builtin, default, cache, blind>>

\* The transaction fails, or is refused: nothing is invalidated.
WriteFails(q) ==
  /\ request[q].at = "write"
  /\ Answers(q)
  /\ crossed' = crossed \ {q}
  /\ UNCHANGED <<role, cache, since, blind, behind, belated>>

\* Mutant: clearing an override leaves the cache alone.
KeptOnClear(m) == IF m.edit = "clear" THEN cache[m.worker] ELSE NoEntry

\* invalidate_cache.
Invalidated(m) == NoEntry

Invalidate(q) ==
  LET m == request[q]
  IN /\ m.at = "invalidate"
     /\ cache' = [cache EXCEPT ![m.worker] = Invalidated(m)]
     /\ blind' = blind \ {m.worker}
     /\ behind' = IF m.worker \in Storing THEN behind \cup {m.worker} ELSE behind \ {m.worker}
     /\ Answers(q)
     /\ UNCHANGED <<role, since, crossed, belated>>

-----------------------------------------------------------------------------
\* gunicorn replaces a worker that dies: its cache is empty, its requests gone.
WorkerDies(p) ==
  /\ cache' = [cache EXCEPT ![p] = NoEntry]
  /\ request' = [q \in Requests |-> IF request[q].worker = p THEN Idle ELSE request[q]]
  /\ blind' = blind \ {p} /\ behind' = behind \ {p}
  /\ crossed' = {q \in crossed : request[q].worker # p}
  /\ UNCHANGED <<role, since, belated>>

Older(t) == IF t < TTL THEN t + 1 ELSE TTL

Tick ==
  /\ cache' = [p \in Processes |-> Entry(cache[p].holds, cache[p].left - 1)]
  /\ request' = [q \in Requests |->
       IF request[q].at \in {"query", "store"} THEN [request[q] EXCEPT !.age = Older(@)]
       ELSE request[q]]
  /\ since' = Older(since)
  /\ blind' = {p \in blind : cache[p].left > 1}
  /\ UNCHANGED <<role, behind, crossed, belated>>

Resolving == \E q \in Requests : \/ Query(q) \/ QueryFails(q) \/ Store(q)
                                 \/ \E p \in Processes : LookUp(q, p)
Editing == \E q \in Requests : \/ Write(q) \/ WriteFails(q) \/ Invalidate(q)
                               \/ \E p \in Processes, e \in Edits : EditBegins(q, p, e)
Next == Resolving \/ Editing \/ Tick \/ \E p \in Processes : WorkerDies(p)

Spec == Init /\ [][Next]_vars

-----------------------------------------------------------------------------
(* Properties.                                                             *)

\* Whichever worker took an edit, and however its commit fell between the
\* lookups of the others: no worker answers by what was in force before it for
\* longer than TTL, or OutageTTL after it could not ask.
FreshAfterTTL ==
  \A p \in Processes :
    Live(p) => \/ cache[p].holds = Effective
               \/ since < TTL
               \/ p \in blind /\ cache[p].left <= OutageTTL

\* "The change is visible immediately" in the worker that took the edit, once
\* it has answered, unless a lookup had its answer by then or another worker
\* has taken an edit since.
SeenAtHome ==
  \A p \in Processes :
    /\ Live(p) /\ cache[p].holds # Effective
    => \/ p \in behind \cup blind
       \/ \E q \in Requests : request[q].at = "invalidate" /\ request[q].worker = p

\* The row of a role that is not there waits for the next role of its name,
\* which does not "start empty" then, or cannot be created with a seed.  Checks
\* and commits are apart and no foreign key binds the row to the role: there is
\* such a row only from a write that was checked before the deletion and
\* committed after it.
RowHasItsRole == override # "none" => builtin \/ exists \/ belated
=============================================================================
