-------------------------- MODULE Overrides_proofs --------------------------
(***************************************************************************)
(* What is proved about Overrides, for any workers, requests, TTL and      *)
(* OutageTTL: types, how long an old answer lives, where an edit is seen   *)
(* at once, and which rows are left without a role.                        *)
(***************************************************************************)
EXTENDS Overrides, TLAPS

LEMMA EntryType ==
  ASSUME NEW h \in BOOLEAN, NEW t \in Int, t <= TTL
  PROVE  Entry(h, t) \in Entries
BY TTLAssumption DEF Entry, NoEntry, Entries

LEMMA RequestFields ==
  ASSUME NEW m \in RequestStates
  PROVE  /\ m.at \in {"idle", "query", "store", "write", "invalidate"}
         /\ m.worker \in Processes \cup {Absent} /\ m.edit \in Edits
         /\ m.age \in 0..TTL /\ m.holds \in BOOLEAN /\ m.failed \in BOOLEAN
BY DEF RequestStates

LEMMA LifeType ==
  ASSUME NEW m \in RequestStates
  PROVE  Life(m) \in 0..TTL
<1>1. m.age \in 0..TTL
  BY RequestFields
<1> DEFINE ttl == IF m.failed THEN OutageTTL ELSE TTL
<1>2. ttl \in 0..TTL
  BY TTLAssumption
<1>3. Life(m) = IF m.age < ttl THEN ttl - m.age ELSE 0
  BY DEF Life
<1> HIDE DEF ttl
<1> QED  BY <1>1, <1>2, <1>3, TTLAssumption

LEMMA IdleType == Idle \in RequestStates
BY TTLAssumption DEF Idle, RequestStates, Edits

LEMMA OlderType ==
  ASSUME NEW t \in 0..TTL
  PROVE  Older(t) \in 0..TTL
BY TTLAssumption DEF Older

-----------------------------------------------------------------------------
(* Types, and that whatever is under way is so in a worker.                *)

Engaged == \A q \in Requests : request[q].at # "idle" => request[q].worker \in Processes
Typed == TypeOK /\ Engaged

LEMMA TypeInit == Init => Typed
<1> SUFFICES ASSUME Init PROVE Typed
  OBVIOUS
<1>1. NoEntry \in Entries
  BY TTLAssumption DEF NoEntry, Entries
<1>2. cache \in [Processes -> Entries] /\ request \in [Requests -> RequestStates]
  BY <1>1, IdleType DEF Init
<1>3. since \in 0..TTL
  BY TTLAssumption DEF Init
<1>4. Engaged
  BY DEF Init, Engaged, Idle
<1> QED  BY <1>2, <1>3, <1>4 DEF Init, TypeOK, Typed

\* A step that changes one request, to one that is idle or has a worker.
LEMMA OneRequest ==
  ASSUME Typed, NEW q \in Requests, NEW m \in RequestStates,
         m.at # "idle" => m.worker \in Processes,
         request' = [request EXCEPT ![q] = m]
  PROVE  request' \in [Requests -> RequestStates] /\ Engaged'
<1>1. request' \in [Requests -> RequestStates]
  BY DEF Typed, TypeOK
<1>2. ASSUME NEW r \in Requests, request'[r].at # "idle" PROVE request'[r].worker \in Processes
  <2>1. CASE r = q
    BY <1>2, <2>1 DEF Typed, TypeOK
  <2>2. CASE r # q
    BY <1>2, <2>2 DEF Typed, TypeOK, Engaged
  <2> QED  BY <2>1, <2>2
<1> QED  BY <1>1, <1>2 DEF Engaged

LEMMA Rests ==
  ASSUME Typed, NEW q \in Requests, Answers(q)
  PROVE  request' \in [Requests -> RequestStates] /\ Engaged'
<1>1. Idle.at = "idle"
  BY DEF Idle
<1> QED  BY <1>1, IdleType, OneRequest DEF Answers

LEMMA TypeStep == Typed /\ [Next]_vars => Typed'
<1> SUFFICES ASSUME Typed, [Next]_vars PROVE Typed'
  OBVIOUS
<1> USE DEF TypeOK
<1>t. TypeOK /\ Engaged
  BY DEF Typed
<1>r. \A q \in Requests : request[q] \in RequestStates
  BY <1>t
<1>i. Idle \in RequestStates
  BY IdleType
<1>e. NoEntry \in Entries
  BY TTLAssumption DEF NoEntry, Entries
<1>1. ASSUME NEW q \in Requests, NEW p \in Processes, LookUp(q, p) PROVE Typed'
  <2> DEFINE m == [Idle EXCEPT !.at = "query", !.worker = p]
  <2>1. m \in RequestStates /\ m.worker \in Processes
    BY <1>i DEF RequestStates
  <2>2. request' = [request EXCEPT ![q] = m]
    BY <1>1 DEF LookUp, Starts
  <2> HIDE DEF m
  <2>3. request' \in [Requests -> RequestStates] /\ Engaged'
    BY <2>1, <2>2, OneRequest
  <2> QED  BY <1>1, <1>t, <2>3 DEF LookUp, role, Typed
<1>2. ASSUME NEW q \in Requests, Query(q) PROVE Typed'
  <2> DEFINE m == [request[q] EXCEPT !.at = "store", !.holds = Effective, !.failed = FALSE]
  <2>1. m \in RequestStates
    BY <1>r DEF RequestStates, Effective, Resolved
  <2>2. m.worker \in Processes
    BY <1>2, <1>r, <1>t DEF RequestStates, Query, Engaged
  <2>3. request' = [request EXCEPT ![q] = m]
    BY <1>2, <1>t DEF Query
  <2> HIDE DEF m
  <2>4. request' \in [Requests -> RequestStates] /\ Engaged'
    BY <2>1, <2>2, <2>3, OneRequest
  <2> QED  BY <1>2, <1>t, <2>4 DEF Query, role, Typed
<1>3. ASSUME NEW q \in Requests, QueryFails(q) PROVE Typed'
  <2> DEFINE m == [request[q] EXCEPT !.at = "store", !.holds = default, !.failed = TRUE]
  <2>1. m \in RequestStates
    BY <1>r, <1>t DEF RequestStates
  <2>2. m.worker \in Processes
    BY <1>3, <1>r, <1>t DEF RequestStates, QueryFails, Engaged
  <2>3. request' = [request EXCEPT ![q] = m]
    BY <1>3, <1>t DEF QueryFails
  <2> HIDE DEF m
  <2>4. request' \in [Requests -> RequestStates] /\ Engaged'
    BY <2>1, <2>2, <2>3, OneRequest
  <2> QED  BY <1>3, <1>t, <2>4 DEF QueryFails, role, Typed
<1>4. ASSUME NEW q \in Requests, Store(q) PROVE Typed'
  <2>1. request[q] \in RequestStates /\ request[q].worker \in Processes
    BY <1>4, <1>t, <1>r DEF Store, Engaged
  <2>2. Entry(request[q].holds, Life(request[q])) \in Entries
    <3>1. Life(request[q]) \in Int /\ Life(request[q]) <= TTL
      BY <2>1, LifeType, TTLAssumption
    <3> QED  BY <2>1, <3>1, EntryType, RequestFields
  <2>3. cache' \in [Processes -> Entries]
    BY <1>4, <1>t, <2>2 DEF Store
  <2>4. blind' \subseteq Processes
    BY <1>4, <1>t, <2>1 DEF Store
  <2>5. request' \in [Requests -> RequestStates] /\ Engaged'
    BY <1>4, Rests DEF Store
  <2> QED  BY <1>4, <1>t, <2>3, <2>4, <2>5 DEF Store, role, Typed
<1>5. ASSUME NEW q \in Requests, NEW p \in Processes, NEW e \in Edits, EditBegins(q, p, e)
      PROVE  Typed'
  <2> DEFINE m == [Idle EXCEPT !.at = "write", !.worker = p, !.edit = e]
  <2>1. m \in RequestStates /\ m.worker \in Processes
    BY <1>i DEF RequestStates
  <2>2. request' = [request EXCEPT ![q] = m]
    BY <1>5 DEF EditBegins, Starts
  <2> HIDE DEF m
  <2>3. request' \in [Requests -> RequestStates] /\ Engaged'
    BY <2>1, <2>2, OneRequest
  <2> QED  BY <1>5, <1>t, <2>3 DEF EditBegins, role, Typed
<1>6. ASSUME NEW q \in Requests, Write(q) PROVE Typed'
  <2> DEFINE m == [request[q] EXCEPT !.at = "invalidate"]
  <2>1. m \in RequestStates
    BY <1>r DEF RequestStates
  <2>2. m.worker \in Processes /\ request[q].worker \in Processes
    BY <1>6, <1>r, <1>t DEF RequestStates, Write, Engaged
  <2>3. request' = [request EXCEPT ![q] = m]
    BY <1>6, <1>t DEF Write
  <2> HIDE DEF m
  <2>4. request' \in [Requests -> RequestStates] /\ Engaged'
    BY <2>1, <2>2, <2>3, OneRequest
  <2>5. request[q].edit \in Edits
    BY <1>r, RequestFields
  <2>6. override' \in Kinds \cup {"none"} /\ exists' \in BOOLEAN
    BY <1>6, <1>t, <2>5 DEF Write, Row, Edits, Kinds
  <2>7. since' \in 0..TTL
    BY <1>6, <1>t, TTLAssumption DEF Write
  <2>8. behind' \subseteq Processes /\ crossed' \subseteq Requests
    BY <1>6, <1>t DEF Write
  <2>9. belated' \in BOOLEAN
    BY <1>6 DEF Write
  <2> QED  BY <1>6, <1>t, <2>4, <2>6, <2>7, <2>8, <2>9 DEF Write, Typed
<1>7. ASSUME NEW q \in Requests, WriteFails(q) PROVE Typed'
  <2>1. request' \in [Requests -> RequestStates] /\ Engaged'
    BY <1>7, Rests DEF WriteFails
  <2> QED  BY <1>7, <1>t, <2>1 DEF WriteFails, role, Typed
<1>8. ASSUME NEW q \in Requests, Invalidate(q) PROVE Typed'
  <2>1. request' \in [Requests -> RequestStates] /\ Engaged'
    BY <1>8, Rests DEF Invalidate
  <2>2. request[q].worker \in Processes
    BY <1>8, <1>t DEF Invalidate, Engaged
  <2>3. cache' \in [Processes -> Entries]
    BY <1>8, <1>t, <1>e DEF Invalidate, Invalidated
  <2>4. blind' \cup behind' \subseteq Processes
    BY <1>8, <1>t, <2>2 DEF Invalidate
  <2> QED  BY <1>8, <1>t, <2>1, <2>3, <2>4 DEF Invalidate, role, Typed
<1>9. ASSUME NEW p \in Processes, WorkerDies(p) PROVE Typed'
  <2>1. cache' \in [Processes -> Entries]
    BY <1>9, <1>t, <1>e DEF WorkerDies
  <2>2. request' \in [Requests -> RequestStates]
    BY <1>9, <1>r, <1>i DEF WorkerDies
  <2>3. Engaged'
    BY <1>9, <1>t DEF WorkerDies, Engaged, Idle
  <2> QED  BY <1>9, <1>t, <2>1, <2>2, <2>3 DEF WorkerDies, role, Typed
<1>10. ASSUME Tick PROVE Typed'
  <2>1. ASSUME NEW p \in Processes PROVE Entry(cache[p].holds, cache[p].left - 1) \in Entries
    <3>1. cache[p].holds \in BOOLEAN /\ cache[p].left \in 0..TTL
      BY <1>t DEF Entries
    <3>2. cache[p].left - 1 \in Int /\ cache[p].left - 1 <= TTL
      BY <3>1, TTLAssumption
    <3> QED  BY <3>1, <3>2, EntryType
  <2>2. cache' \in [Processes -> Entries]
    BY <1>10, <2>1 DEF Tick
  <2>3. ASSUME NEW q \in Requests
        PROVE  /\ [request[q] EXCEPT !.age = Older(@)] \in RequestStates
               /\ [request[q] EXCEPT !.age = Older(@)].worker = request[q].worker
    <3>1. request[q].age \in 0..TTL
      BY <1>r, RequestFields
    <3>2. Older(request[q].age) \in 0..TTL
      BY <3>1, OlderType
    <3> QED  BY <1>r, <3>2 DEF RequestStates
  <2>4. request' \in [Requests -> RequestStates]
    BY <1>10, <1>r, <2>3 DEF Tick
  <2>5. \A q \in Requests : request'[q].worker = request[q].worker /\ request'[q].at = request[q].at
    BY <1>10, <1>r, <2>3 DEF Tick, RequestStates
  <2>6. Engaged'
    BY <1>t, <2>5 DEF Engaged
  <2>7. since' \in 0..TTL
    BY <1>10, <1>t, OlderType DEF Tick
  <2> QED  BY <1>10, <1>t, <2>2, <2>4, <2>6, <2>7 DEF Tick, role, Typed
<1>11. CASE UNCHANGED vars
  BY <1>11, <1>t DEF vars, role, Engaged, Typed
<1> QED
  BY <1>1, <1>2, <1>3, <1>4, <1>5, <1>6, <1>7, <1>8, <1>9, <1>10, <1>11
     DEF Next, Resolving, Editing

\* Every variable of the permissions of a role keeps its type, in any number of
\* workers and requests and for any times to live.
THEOREM TypeCorrect == Spec => []TypeOK
<1>1. Typed => TypeOK
  BY DEF Typed
<1> QED  BY <1>1, TypeInit, TypeStep, PTL DEF Spec

-----------------------------------------------------------------------------
(* What an answer that is no longer right may still do.  Wrong is said of   *)
(* what an entry or a lookup holds.                                         *)

Wrong(h) == h # Effective

\* A worker that need not know: it does not take the edit, a lookup of its
\* crossed it, or it has yet to invalidate.
Excused(p) == p \in behind \/ \E q \in Requests : request[q].at = "invalidate"
                                                   /\ request[q].worker = p
Stale(q) == request[q].at = "store" /\ ~ request[q].failed /\ Wrong(request[q].holds)

SeenInv ==
  /\ \A p \in Processes : Live(p) /\ Wrong(cache[p].holds) => Excused(p) \/ p \in blind
  /\ \A q \in Requests : Stale(q) => Excused(request[q].worker)

\* A wrong entry was looked up before the last change, so that the two ages
\* add up.
FreshInv ==
  /\ \A p \in Processes : Live(p) /\ Wrong(cache[p].holds) =>
       p \in blind \/ since + cache[p].left <= TTL
  /\ \A p \in blind : cache[p].left <= OutageTTL
  /\ \A q \in Requests : Stale(q) => since <= request[q].age

LEMMA FreshImplies == Typed /\ FreshInv => FreshAfterTTL
<1> SUFFICES ASSUME Typed, FreshInv, NEW p \in Processes, Live(p), cache[p].holds # Effective,
                    ~ (p \in blind /\ cache[p].left <= OutageTTL)
             PROVE  since < TTL
  BY DEF FreshAfterTTL
<1>1. cache[p].left \in 0..TTL /\ since \in 0..TTL
  <2>1. cache \in [Processes -> Entries] /\ since \in 0..TTL
    BY DEF Typed, TypeOK
  <2> QED  BY <2>1 DEF Entries
<1>2. p \notin blind
  BY DEF FreshInv
<1>3. since + cache[p].left <= TTL
  BY <1>2 DEF FreshInv, Wrong
<1>4. cache[p].left > 0
  BY DEF Live
<1> QED  BY <1>1, <1>3, <1>4, TTLAssumption

LEMMA SeenImplies == SeenInv => SeenAtHome
BY DEF SeenInv, SeenAtHome, Wrong, Excused

LEMMA OldInit == Init => SeenInv /\ FreshInv
<1> SUFFICES ASSUME Init PROVE SeenInv /\ FreshInv
  OBVIOUS
<1>1. ASSUME NEW p \in Processes PROVE ~ Live(p)
  <2>1. cache[p].left = 0
    BY DEF Init, NoEntry
  <2> QED  BY <2>1 DEF Live
<1>2. \A q \in Requests : ~ Stale(q)
  BY DEF Init, Stale, Idle
<1>3. blind = {}
  BY DEF Init
<1>4. SeenInv
  BY <1>1, <1>2 DEF SeenInv
<1>5. FreshInv
  BY <1>1, <1>2, <1>3 DEF FreshInv
<1> QED  BY <1>4, <1>5

\* Steps that leave the row, the caches and the histories alone, and whose
\* request is not stale after them.
LEMMA OldAlone ==
  ASSUME Typed, SeenInv, FreshInv, NEW q \in Requests,
         UNCHANGED <<role, cache, since, blind, behind>>,
         \A r \in Requests \ {q} : request'[r] = request[r],
         request[q].at # "invalidate", ~ Stale(q)'
  PROVE  SeenInv' /\ FreshInv'
<1>1. Effective' = Effective
  BY DEF Effective, role
<1>2. \A p \in Processes : Live(p)' = Live(p) /\ cache'[p] = cache[p]
  BY DEF Live
<1>3. ASSUME NEW r \in Requests, Stale(r)' PROVE Stale(r) /\ request'[r] = request[r]
  <2>1. r # q
    BY <1>3
  <2> QED  BY <1>1, <1>3, <2>1 DEF Stale, Wrong
<1>4. \A p : Excused(p) => Excused(p)'
  <2> SUFFICES ASSUME NEW p, Excused(p) PROVE Excused(p)'
    OBVIOUS
  <2>1. CASE p \in behind
    BY <2>1 DEF Excused
  <2>2. CASE p \notin behind
    <3>1. PICK r \in Requests : request[r].at = "invalidate" /\ request[r].worker = p
      BY <2>2 DEF Excused
    <3>2. request'[r] = request[r]
      BY <3>1
    <3> QED  BY <3>1, <3>2 DEF Excused
  <2> QED  BY <2>1, <2>2
<1>5. SeenInv'
  <2>1. ASSUME NEW p \in Processes, Live(p)', Wrong(cache[p].holds)' PROVE Excused(p)' \/ p \in blind'
    BY <1>1, <1>2, <1>4, <2>1 DEF SeenInv, Wrong
  <2>2. ASSUME NEW r \in Requests, Stale(r)' PROVE Excused(request[r].worker)'
    BY <1>3, <1>4, <2>2 DEF SeenInv
  <2> QED  BY <2>1, <2>2 DEF SeenInv
<1>6. FreshInv'
  <2>1. ASSUME NEW p \in Processes, Live(p)', Wrong(cache[p].holds)'
        PROVE  p \in blind' \/ since' + cache'[p].left <= TTL
    BY <1>1, <1>2, <2>1 DEF FreshInv, Wrong
  <2>2. \A p \in blind' : cache'[p].left <= OutageTTL
    BY DEF FreshInv
  <2>3. ASSUME NEW r \in Requests, Stale(r)' PROVE since' <= request'[r].age
    BY <1>3, <2>3 DEF FreshInv
  <2> QED  BY <2>1, <2>2, <2>3 DEF FreshInv
<1> QED  BY <1>5, <1>6

LEMMA OldStep == Typed /\ SeenInv /\ FreshInv /\ [Next]_vars => SeenInv' /\ FreshInv'
<1> SUFFICES ASSUME Typed, SeenInv, FreshInv, [Next]_vars PROVE SeenInv' /\ FreshInv'
  OBVIOUS
<1>t. TypeOK /\ Engaged
  BY DEF Typed
<1>r. request \in [Requests -> RequestStates] /\ cache \in [Processes -> Entries]
  BY <1>t DEF TypeOK
<1>f. ASSUME NEW q \in Requests
      PROVE  request[q].holds \in BOOLEAN /\ request[q].failed \in BOOLEAN
             /\ request[q].age \in 0..TTL /\ request[q] \in RequestStates
  BY <1>r, RequestFields
<1>s. since \in 0..TTL
  BY <1>t DEF TypeOK
<1>1. ASSUME NEW q \in Requests, NEW p \in Processes, LookUp(q, p) PROVE SeenInv' /\ FreshInv'
  <2>1. request'[q].at = "query" /\ request[q].at = "idle"
    BY <1>1, <1>r, IdleType DEF LookUp, Starts, RequestStates
  <2>2. \A r \in Requests \ {q} : request'[r] = request[r]
    BY <1>1, <1>r DEF LookUp, Starts
  <2>3. ~ Stale(q)'
    BY <2>1 DEF Stale
  <2> QED  BY <1>1, <2>1, <2>2, <2>3, OldAlone DEF LookUp
<1>2. ASSUME NEW q \in Requests, Query(q) PROVE SeenInv' /\ FreshInv'
  <2>1. request[q].at = "query" /\ request'[q].holds = Effective
    BY <1>2, <1>r, <1>f DEF Query, RequestStates
  <2>2. \A r \in Requests \ {q} : request'[r] = request[r]
    BY <1>2, <1>r DEF Query
  <2>3. Effective' = Effective
    BY <1>2 DEF Query, Effective, role
  <2>4. ~ Stale(q)'
    BY <2>1, <2>3 DEF Stale, Wrong
  <2> QED  BY <1>2, <2>1, <2>2, <2>4, OldAlone DEF Query
<1>3. ASSUME NEW q \in Requests, QueryFails(q) PROVE SeenInv' /\ FreshInv'
  <2>1. request[q].at = "query" /\ request'[q].failed = TRUE
    BY <1>3, <1>r, <1>f DEF QueryFails, RequestStates
  <2>2. \A r \in Requests \ {q} : request'[r] = request[r]
    BY <1>3, <1>r DEF QueryFails
  <2>4. ~ Stale(q)'
    BY <2>1 DEF Stale
  <2> QED  BY <1>3, <2>1, <2>2, <2>4, OldAlone DEF QueryFails
<1>4. ASSUME NEW q \in Requests, Store(q) PROVE SeenInv' /\ FreshInv'
  <2> DEFINE w == request[q].worker
             e == Entry(request[q].holds, Life(request[q]))
  <2>1. w \in Processes /\ request[q].at = "store" /\ request[q] \in RequestStates
    BY <1>4, <1>t, <1>f DEF Store, Engaged
  <2>2. cache' = [cache EXCEPT ![w] = e] /\ Life(request[q]) \in 0..TTL
    BY <1>4, <2>1, LifeType DEF Store
  <2>3. Effective' = Effective /\ behind' = behind /\ since' = since
    BY <1>4 DEF Store, Effective, role
  <2>4. request'[q] = Idle /\ \A r \in Requests \ {q} : request'[r] = request[r]
    BY <1>4, <1>r DEF Store, Answers
  <2>5. ASSUME NEW r \in Requests, Stale(r)' PROVE Stale(r) /\ request'[r] = request[r]
    <3>1. r # q
      BY <2>4, <2>5 DEF Stale, Idle
    <3> QED  BY <2>3, <2>4, <2>5, <3>1 DEF Stale, Wrong
  <2>6. \A p : Excused(p) => Excused(p)'
    <3> SUFFICES ASSUME NEW p, Excused(p) PROVE Excused(p)'
      OBVIOUS
    <3>1. CASE p \in behind
      BY <2>3, <3>1 DEF Excused
    <3>2. CASE p \notin behind
      <4>1. PICK r \in Requests : request[r].at = "invalidate" /\ request[r].worker = p
        BY <3>2 DEF Excused
      <4>2. request'[r] = request[r]
        BY <2>1, <2>4, <4>1
      <4> QED  BY <4>1, <4>2 DEF Excused
    <3> QED  BY <3>1, <3>2
  <2>7. e.left = Life(request[q]) /\ (e.left > 0 => e.holds = request[q].holds)
    BY <2>2, TTLAssumption DEF Entry, NoEntry
  <2>8. ASSUME e.left > 0, Wrong(e.holds) PROVE request[q].failed \/ Stale(q)
    BY <2>1, <2>7, <2>8 DEF Stale
  <2>9. ASSUME e.left > 0, request[q].failed PROVE w \in blind' /\ e.left <= OutageTTL
    <3>1. w \in blind'
      BY <1>4, <2>7, <2>9 DEF Store
    <3>2. Life(request[q]) = IF request[q].age < OutageTTL THEN OutageTTL - request[q].age ELSE 0
      BY <2>9 DEF Life
    <3>3. request[q].age \in 0..TTL
      BY <1>f
    <3> QED  BY <2>7, <3>1, <3>2, <3>3, TTLAssumption
  <2>10. ASSUME e.left > 0, ~ request[q].failed PROVE e.left = TTL - request[q].age
    <3>2. Life(request[q]) = IF request[q].age < TTL THEN TTL - request[q].age ELSE 0
      BY <2>10 DEF Life
    <3>3. request[q].age \in 0..TTL
      BY <1>f
    <3> QED  BY <2>7, <2>10, <3>2, <3>3, TTLAssumption
  <2> HIDE DEF e, w
  <2>11. \A p \in Processes : cache'[p] = IF p = w THEN e ELSE cache[p]
    BY <1>r, <2>1, <2>2
  <2>12. \A p \in Processes : p # w => (p \in blind' <=> p \in blind)
    BY <1>4 DEF Store, w
  <2>13. ASSUME NEW p \in Processes, Live(p)', Wrong(cache[p].holds)'
         PROVE  Excused(p)' \/ p \in blind'
    <3>1. CASE p = w
      <4>1. e.left > 0 /\ Wrong(e.holds)
        BY <2>3, <2>11, <2>13, <3>1 DEF Live, Wrong
      <4>2. CASE request[q].failed
        BY <2>9, <3>1, <4>1, <4>2
      <4>3. CASE ~ request[q].failed
        BY <2>6, <2>8, <3>1, <4>1, <4>3 DEF SeenInv, w
      <4> QED  BY <4>2, <4>3
    <3>2. CASE p # w
      <4>1. Live(p) /\ Wrong(cache[p].holds)
        BY <2>3, <2>11, <2>13, <3>2 DEF Live, Wrong
      <4> QED  BY <2>6, <2>12, <3>2, <4>1 DEF SeenInv
    <3> QED  BY <3>1, <3>2
  <2>14. ASSUME NEW p \in Processes, Live(p)', Wrong(cache[p].holds)'
         PROVE  p \in blind' \/ since' + cache'[p].left <= TTL
    <3>1. CASE p = w
      <4>1. e.left > 0 /\ Wrong(e.holds)
        BY <2>3, <2>11, <2>14, <3>1 DEF Live, Wrong
      <4>2. CASE request[q].failed
        BY <2>9, <3>1, <4>1, <4>2
      <4>3. CASE ~ request[q].failed
        <5>1. since <= request[q].age /\ e.left = TTL - request[q].age /\ request[q].age \in 0..TTL
          BY <1>f, <2>8, <2>10, <4>1, <4>3 DEF FreshInv
        <5> QED  BY <1>s, <2>3, <2>11, <3>1, <5>1, TTLAssumption
      <4> QED  BY <4>2, <4>3
    <3>2. CASE p # w
      <4>1. Live(p) /\ Wrong(cache[p].holds) /\ cache'[p].left = cache[p].left
        BY <2>3, <2>11, <2>14, <3>2 DEF Live, Wrong
      <4> QED  BY <2>3, <2>12, <3>2, <4>1 DEF FreshInv
    <3> QED  BY <3>1, <3>2
  <2>15. ASSUME NEW p \in blind' PROVE cache'[p].left <= OutageTTL
    <3>p. p \in Processes
      BY <1>4, <1>t, <2>1, <2>15 DEF Store, TypeOK, w
    <3>1. CASE p = w
      <4>1. request[q].failed /\ Life(request[q]) > 0
        BY <1>4, <2>15, <3>1 DEF Store, w
      <4> QED  BY <2>7, <2>9, <2>11, <3>p, <3>1, <4>1
    <3>2. CASE p # w
      BY <2>11, <2>12, <2>15, <3>p, <3>2 DEF FreshInv
    <3> QED  BY <3>1, <3>2
  <2>16. ASSUME NEW r \in Requests, Stale(r)'
         PROVE  Excused(request[r].worker)' /\ since' <= request'[r].age
    BY <2>3, <2>5, <2>6, <2>16 DEF SeenInv, FreshInv
  <2> QED  BY <2>13, <2>14, <2>15, <2>16 DEF SeenInv, FreshInv
<1>5. ASSUME NEW q \in Requests, NEW p \in Processes, NEW e \in Edits, EditBegins(q, p, e)
      PROVE  SeenInv' /\ FreshInv'
  <2>1. request'[q].at = "write" /\ request[q].at = "idle"
    BY <1>5, <1>r, IdleType DEF EditBegins, Starts, RequestStates
  <2>2. \A r \in Requests \ {q} : request'[r] = request[r]
    BY <1>5, <1>r DEF EditBegins, Starts
  <2>3. ~ Stale(q)'
    BY <2>1 DEF Stale
  <2> QED  BY <1>5, <2>1, <2>2, <2>3, OldAlone DEF EditBegins
<1>6. ASSUME NEW q \in Requests, Write(q) PROVE SeenInv' /\ FreshInv'
  <2> DEFINE w == request[q].worker
  <2>1. request[q].at = "write" /\ cache' = cache /\ blind' = blind
    BY <1>6 DEF Write
  <2>2. request'[q].at = "invalidate" /\ request'[q].worker = w
    BY <1>6, <1>r, <1>f DEF Write, RequestStates
  <2>3. \A r \in Requests \ {q} : request'[r] = request[r]
    BY <1>6, <1>r DEF Write
  <2>4. \A p \in Processes : Excused(p)'
    BY <1>6, <2>2 DEF Write, Excused
  <2>5. ASSUME NEW r \in Requests, Stale(r)'
        PROVE  request'[r] = request[r] /\ request[r].at = "store" /\ ~ request[r].failed
               /\ request[r].worker \in Processes
    <3>1. r # q
      BY <2>2, <2>5 DEF Stale
    <3> QED  BY <1>t, <2>3, <2>5, <3>1 DEF Stale, Engaged
  <2>6. SeenInv'
    BY <2>4, <2>5 DEF SeenInv
  <2>7. since' = 0 \/ (since' = since /\ Effective' = Effective)
    BY <1>6 DEF Write, Effective
  <2>8. CASE since' = 0
    <3>1. \A p \in Processes : cache[p].left \in 0..TTL
      BY <1>r DEF Entries
    <3>2. \A p \in Processes : since' + cache'[p].left <= TTL
      BY <2>1, <2>8, <3>1, TTLAssumption
    <3>3. ASSUME NEW r \in Requests, Stale(r)' PROVE since' <= request'[r].age
      <4>1. request'[r] = request[r] /\ request[r].age \in 0..TTL
        BY <1>f, <2>5, <3>3
      <4> QED  BY <2>8, <4>1, TTLAssumption
    <3> QED  BY <2>1, <2>6, <3>2, <3>3 DEF FreshInv
  <2>9. CASE since' = since /\ Effective' = Effective
    <3>1. ASSUME NEW r \in Requests, Stale(r)' PROVE since' <= request'[r].age
      <4>1. Stale(r)
        BY <2>5, <2>9, <3>1 DEF Stale, Wrong
      <4> QED  BY <2>5, <2>9, <3>1, <4>1 DEF FreshInv
    <3>2. ASSUME NEW p \in Processes, Live(p)', Wrong(cache[p].holds)'
          PROVE  p \in blind' \/ since' + cache'[p].left <= TTL
      BY <2>1, <2>9, <3>2 DEF FreshInv, Live, Wrong
    <3> QED  BY <2>1, <2>6, <3>1, <3>2 DEF FreshInv
  <2> QED  BY <2>7, <2>8, <2>9
<1>7. ASSUME NEW q \in Requests, WriteFails(q) PROVE SeenInv' /\ FreshInv'
  <2>1. request[q].at = "write" /\ request'[q] = Idle
    BY <1>7, <1>r DEF WriteFails, Answers
  <2>2. \A r \in Requests \ {q} : request'[r] = request[r]
    BY <1>7, <1>r DEF WriteFails, Answers
  <2>3. ~ Stale(q)'
    BY <2>1 DEF Stale, Idle
  <2> QED  BY <1>7, <2>1, <2>2, <2>3, OldAlone DEF WriteFails
<1>8. ASSUME NEW q \in Requests, Invalidate(q) PROVE SeenInv' /\ FreshInv'
  <2> DEFINE w == request[q].worker
  <2>1. request[q].at = "invalidate" /\ cache' = [cache EXCEPT ![w] = NoEntry] /\ blind' = blind \ {w}
    BY <1>8 DEF Invalidate, Invalidated
  <2>2. behind' = IF w \in Storing THEN behind \cup {w} ELSE behind \ {w}
    BY <1>8 DEF Invalidate
  <2>3. request'[q] = Idle /\ \A r \in Requests \ {q} : request'[r] = request[r]
    BY <1>8, <1>r DEF Invalidate, Answers
  <2>4. Effective' = Effective /\ since' = since
    BY <1>8 DEF Invalidate, Effective, role
  <2> HIDE DEF w
  <2>5. \A p \in Processes : IF p = w THEN cache'[p] = NoEntry ELSE cache'[p] = cache[p]
    BY <1>r, <2>1
  <2>6. ASSUME NEW p, p # w, Excused(p) PROVE Excused(p)'
    <3>1. CASE p \in behind
      BY <2>2, <2>6, <3>1 DEF Excused
    <3>2. CASE p \notin behind
      <4>1. PICK r \in Requests : request[r].at = "invalidate" /\ request[r].worker = p
        BY <2>6, <3>2 DEF Excused
      <4>2. r # q
        BY <2>6, <4>1 DEF w
      <4>3. request'[r] = request[r]
        BY <2>3, <4>2
      <4> QED  BY <4>1, <4>3 DEF Excused
    <3> QED  BY <3>1, <3>2
  <2>7. ASSUME NEW p \in Processes, Live(p)', Wrong(cache[p].holds)'
        PROVE  /\ Excused(p)' \/ p \in blind'
               /\ p \in blind' \/ since' + cache'[p].left <= TTL
    <3>1. p # w
      BY <2>5, <2>7, TTLAssumption DEF Live, NoEntry
    <3>2. Live(p) /\ Wrong(cache[p].holds) /\ cache'[p] = cache[p]
      BY <2>4, <2>5, <2>7, <3>1 DEF Live, Wrong
    <3> QED  BY <2>1, <2>4, <2>6, <3>1, <3>2 DEF SeenInv, FreshInv
  <2>8. ASSUME NEW p \in blind' PROVE cache'[p].left <= OutageTTL
    <3>1. p \in blind /\ p # w /\ p \in Processes
      BY <1>t, <2>1, <2>8 DEF TypeOK
    <3> QED  BY <2>5, <3>1 DEF FreshInv
  <2>9. ASSUME NEW r \in Requests, Stale(r)'
        PROVE  Excused(request[r].worker)' /\ since' <= request'[r].age
    <3>1. r # q
      BY <2>3, <2>9 DEF Stale, Idle
    <3>2. request'[r] = request[r] /\ Stale(r)
      BY <2>3, <2>4, <2>9, <3>1 DEF Stale, Wrong
    <3>3. CASE request[r].worker = w
      <4>1. w \in Storing
        BY <3>2, <3>3 DEF Storing, Stale
      <4> QED  BY <2>2, <2>4, <3>2, <3>3, <4>1 DEF Excused, FreshInv
    <3>4. CASE request[r].worker # w
      BY <2>4, <2>6, <3>2, <3>4 DEF SeenInv, FreshInv
    <3> QED  BY <3>3, <3>4
  <2> QED  BY <2>7, <2>8, <2>9 DEF SeenInv, FreshInv
<1>9. ASSUME NEW w \in Processes, WorkerDies(w) PROVE SeenInv' /\ FreshInv'
  <2>1. \A p \in Processes : IF p = w THEN cache'[p] = NoEntry ELSE cache'[p] = cache[p]
    BY <1>9, <1>r DEF WorkerDies
  <2>2. \A r \in Requests : request'[r] = IF request[r].worker = w THEN Idle ELSE request[r]
    BY <1>9 DEF WorkerDies
  <2>3. blind' = blind \ {w} /\ behind' = behind \ {w} /\ since' = since /\ Effective' = Effective
    BY <1>9 DEF WorkerDies, Effective, role
  <2>4. ASSUME NEW p, p # w, Excused(p) PROVE Excused(p)'
    <3>1. CASE p \in behind
      BY <2>3, <2>4, <3>1 DEF Excused
    <3>2. CASE p \notin behind
      BY <2>2, <2>4, <3>2 DEF Excused
    <3> QED  BY <3>1, <3>2
  <2>5. ASSUME NEW p \in Processes, Live(p)', Wrong(cache[p].holds)'
        PROVE  /\ Excused(p)' \/ p \in blind'
               /\ p \in blind' \/ since' + cache'[p].left <= TTL
    <3>1. p # w
      BY <2>1, <2>5, TTLAssumption DEF Live, NoEntry
    <3>2. Live(p) /\ Wrong(cache[p].holds) /\ cache'[p] = cache[p]
      BY <2>1, <2>3, <2>5, <3>1 DEF Live, Wrong
    <3> QED  BY <2>3, <2>4, <3>1, <3>2 DEF SeenInv, FreshInv
  <2>6. ASSUME NEW p \in blind' PROVE cache'[p].left <= OutageTTL
    <3>1. p \in blind /\ p # w /\ p \in Processes
      BY <1>t, <2>3, <2>6 DEF TypeOK
    <3> QED  BY <2>1, <3>1 DEF FreshInv
  <2>7. ASSUME NEW r \in Requests, Stale(r)'
        PROVE  Excused(request[r].worker)' /\ since' <= request'[r].age
    <3>1. request[r].worker # w
      BY <2>2, <2>7 DEF Stale, Idle
    <3>2. request'[r] = request[r] /\ Stale(r)
      BY <2>2, <2>3, <2>7, <3>1 DEF Stale, Wrong
    <3> QED  BY <2>3, <2>4, <3>1, <3>2 DEF SeenInv, FreshInv
  <2>8. \A r \in Requests : Stale(r)' => request'[r] = request[r]
    BY <2>2 DEF Stale, Idle
  <2> QED  BY <2>5, <2>6, <2>7, <2>8 DEF SeenInv, FreshInv
<1>10. ASSUME Tick PROVE SeenInv' /\ FreshInv'
  <2>1. Effective' = Effective /\ behind' = behind /\ since' = Older(since)
    BY <1>10 DEF Tick, Effective, role
  <2>2. ASSUME NEW p \in Processes, Live(p)'
        PROVE  cache'[p].holds = cache[p].holds /\ cache'[p].left = cache[p].left - 1
               /\ cache[p].left > 1 /\ cache[p].left \in 0..TTL
    <3>1. cache[p].left \in 0..TTL
      BY <1>r DEF Entries
    <3>2. cache'[p] = Entry(cache[p].holds, cache[p].left - 1)
      BY <1>10 DEF Tick
    <3>3. cache'[p].left > 0
      BY <2>2 DEF Live
    <3>4. cache[p].left - 1 > 0
      BY <3>2, <3>3 DEF Entry, NoEntry
    <3>5. cache'[p] = [holds |-> cache[p].holds, left |-> cache[p].left - 1]
      BY <3>2, <3>4 DEF Entry
    <3>6. cache[p].left > 1
      BY <3>1, <3>4, TTLAssumption
    <3> QED  BY <3>1, <3>5, <3>6
  <2>3. ASSUME NEW q \in Requests
        PROVE  /\ request'[q].at = request[q].at /\ request'[q].worker = request[q].worker
               /\ request'[q].holds = request[q].holds /\ request'[q].failed = request[q].failed
               /\ request[q].at = "store" => request'[q].age = Older(request[q].age)
    BY <1>10, <1>f DEF Tick, RequestStates
  <2>4. \A p : Excused(p) => Excused(p)'
    BY <2>1, <2>3 DEF Excused
  <2>5. ASSUME NEW r \in Requests, Stale(r)'
        PROVE  Stale(r) /\ request'[r].worker = request[r].worker
               /\ request'[r].age = Older(request[r].age)
    <3>1. request[r].at = "store" /\ ~ request[r].failed
      BY <2>3, <2>5 DEF Stale
    <3>2. Wrong(request[r].holds)
      BY <2>1, <2>3, <2>5 DEF Stale, Wrong
    <3> QED  BY <2>3, <3>1, <3>2 DEF Stale
  <2>6. ASSUME NEW p \in Processes, Live(p)', Wrong(cache[p].holds)'
        PROVE  Live(p) /\ Wrong(cache[p].holds) /\ (p \in blind => p \in blind')
    <3>1. Live(p)
      BY <2>2, <2>6, TTLAssumption DEF Live
    <3>2. Wrong(cache[p].holds)
      BY <2>1, <2>2, <2>6 DEF Wrong
    <3>3. p \in blind => p \in blind'
      BY <1>10, <2>2, <2>6 DEF Tick
    <3> QED  BY <3>1, <3>2, <3>3
  <2>7. SeenInv'
    <3>1. ASSUME NEW p \in Processes, Live(p)', Wrong(cache[p].holds)'
          PROVE  Excused(p)' \/ p \in blind'
      BY <2>4, <2>6, <3>1 DEF SeenInv
    <3>2. ASSUME NEW r \in Requests, Stale(r)' PROVE Excused(request[r].worker)'
      BY <2>4, <2>5, <3>2 DEF SeenInv
    <3> QED  BY <3>1, <3>2 DEF SeenInv
  <2>8. ASSUME NEW p \in Processes, Live(p)', Wrong(cache[p].holds)'
        PROVE  p \in blind' \/ since' + cache'[p].left <= TTL
    <3>1. CASE p \in blind
      BY <2>6, <2>8, <3>1
    <3>2. CASE p \notin blind
      <4>1. since + cache[p].left <= TTL
        BY <2>6, <2>8, <3>2 DEF FreshInv
      <4>2. cache'[p].left = cache[p].left - 1 /\ cache[p].left > 1 /\ cache[p].left \in 0..TTL
        BY <2>2, <2>8
      <4>3. since' = since + 1
        BY <1>s, <2>1, <4>1, <4>2, TTLAssumption DEF Older
      <4> QED  BY <1>s, <4>1, <4>2, <4>3, TTLAssumption
    <3> QED  BY <3>1, <3>2
  <2>9. ASSUME NEW p \in blind' PROVE cache'[p].left <= OutageTTL
    <3>1. p \in blind /\ p \in Processes /\ cache[p].left > 1
      BY <1>10, <1>t, <2>9 DEF Tick, TypeOK
    <3>2. cache[p].left <= OutageTTL
      BY <3>1 DEF FreshInv
    <3>3. cache'[p] = Entry(cache[p].holds, cache[p].left - 1) /\ cache[p].left \in 0..TTL
      BY <1>10, <1>r, <3>1 DEF Tick, Entries
    <3>4. cache[p].left - 1 > 0
      BY <3>1, <3>3, TTLAssumption
    <3>5. cache'[p].left = cache[p].left - 1
      BY <3>3, <3>4 DEF Entry
    <3> QED  BY <3>2, <3>3, <3>5, TTLAssumption
  <2>10. ASSUME NEW r \in Requests, Stale(r)' PROVE since' <= request'[r].age
    <3>1. since <= request[r].age /\ request[r].age \in 0..TTL
      BY <1>f, <2>5, <2>10 DEF FreshInv
    <3>2. Older(since) <= Older(request[r].age)
      BY <1>s, <3>1, TTLAssumption DEF Older
    <3> QED  BY <2>1, <2>5, <2>10, <3>2
  <2> QED  BY <2>7, <2>8, <2>9, <2>10 DEF FreshInv
<1>11. CASE UNCHANGED vars
  <2>1. Effective' = Effective /\ since' = since /\ cache' = cache /\ request' = request
        /\ blind' = blind /\ behind' = behind
    BY <1>11 DEF vars, role, Effective
  <2>2. SeenInv' <=> SeenInv
    BY <2>1 DEF SeenInv, Live, Wrong, Excused, Stale
  <2>3. FreshInv' <=> FreshInv
    BY <2>1 DEF FreshInv, Live, Wrong, Stale
  <2> QED  BY <2>2, <2>3
<1> QED
  BY <1>1, <1>2, <1>3, <1>4, <1>5, <1>6, <1>7, <1>8, <1>9, <1>10, <1>11
     DEF Next, Resolving, Editing

\* An answer from before a change is not given TTL after it, by any of any
\* number of workers, but by one that could not ask, and by that for OutageTTL
\* at most: a wrong entry was looked up before the last change, so that what it
\* has left and the age of the change add up to TTL at most.
THEOREM Fresh == Spec => []FreshAfterTTL
<1> DEFINE Inv == Typed /\ SeenInv /\ FreshInv
<1>1. Init => Inv
  BY TypeInit, OldInit
<1>2. Inv /\ [Next]_vars => Inv'
  BY TypeStep, OldStep
<1>3. Inv => FreshAfterTTL
  BY FreshImplies
<1> QED  BY <1>1, <1>2, <1>3, PTL DEF Spec

\* The worker that took an edit answers by it once its cache is invalidated,
\* unless a lookup had its answer by then, however many lookups and edits are
\* under way.
THEOREM EditSeen == Spec => []SeenAtHome
<1> DEFINE Inv == Typed /\ SeenInv /\ FreshInv
<1>1. Init => Inv
  BY TypeInit, OldInit
<1>2. Inv /\ [Next]_vars => Inv'
  BY TypeStep, OldStep
<1>3. Inv => SeenAtHome
  BY SeenImplies
<1> QED  BY <1>1, <1>2, <1>3, PTL DEF Spec

-----------------------------------------------------------------------------
(* Rows without a role.                                                    *)

\* A write of an override has a role to write it for, unless that was deleted
\* since the check.
RowInv ==
  /\ RowHasItsRole
  /\ \A q \in Requests : request[q].at = "write" /\ request[q].edit \in Kinds =>
       builtin \/ exists \/ q \in crossed

LEMMA RowStep == Typed /\ RowInv /\ [Next]_vars => RowInv'
<1> SUFFICES ASSUME Typed, RowInv, [Next]_vars PROVE RowInv'
  OBVIOUS
<1>t. request \in [Requests -> RequestStates] /\ crossed \subseteq Requests
  BY DEF Typed, TypeOK
<1>r. \A q \in Requests : request[q].edit \in Edits /\ request[q] \in RequestStates
  BY <1>t, RequestFields
<1>0. ASSUME UNCHANGED <<role, belated>>,
             \A q \in Requests : request'[q].at = "write" =>
                 /\ request[q].at = "write" /\ request'[q].edit = request[q].edit
                 /\ q \in crossed => q \in crossed'
      PROVE  RowInv'
  BY <1>0 DEF RowInv, RowHasItsRole, role
<1>1. ASSUME NEW q \in Requests, NEW p \in Processes, LookUp(q, p) PROVE RowInv'
  <2>1. request'[q].at = "query" /\ \A r \in Requests \ {q} : request'[r] = request[r]
    BY <1>1, <1>t, IdleType DEF LookUp, Starts, RequestStates
  <2> QED  BY <1>0, <1>1, <2>1 DEF LookUp
<1>2. ASSUME NEW q \in Requests, Query(q) \/ QueryFails(q) PROVE RowInv'
  <2>1. request'[q].at = "store" /\ \A r \in Requests \ {q} : request'[r] = request[r]
    BY <1>2, <1>t, <1>r DEF Query, QueryFails, RequestStates
  <2> QED  BY <1>0, <1>2, <2>1 DEF Query, QueryFails
<1>3. ASSUME NEW q \in Requests, Store(q) \/ WriteFails(q) \/ Invalidate(q) PROVE RowInv'
  <2>1. request'[q].at = "idle" /\ \A r \in Requests \ {q} : request'[r] = request[r]
    BY <1>3, <1>t DEF Store, WriteFails, Invalidate, Answers, Idle
  <2>2. UNCHANGED <<role, belated>> /\ crossed \ {q} \subseteq crossed'
    BY <1>3 DEF Store, WriteFails, Invalidate
  <2> QED  BY <1>0, <2>1, <2>2
<1>4. ASSUME NEW q \in Requests, NEW p \in Processes, NEW e \in Edits, EditBegins(q, p, e)
      PROVE  RowInv'
  <2>1. request'[q].edit = e /\ \A r \in Requests \ {q} : request'[r] = request[r]
    BY <1>4, <1>t, IdleType DEF EditBegins, Starts, RequestStates
  <2>2. e \in Kinds => builtin \/ exists
    BY <1>4 DEF EditBegins, MayEdit, Kinds
  <2>3. UNCHANGED <<role, crossed, belated>>
    BY <1>4 DEF EditBegins
  <2>4. RowHasItsRole'
    BY <2>3 DEF RowInv, RowHasItsRole, role
  <2>5. ASSUME NEW r \in Requests, request'[r].at = "write", request'[r].edit \in Kinds
        PROVE  builtin' \/ exists' \/ r \in crossed'
    BY <2>1, <2>2, <2>3, <2>5 DEF RowInv, role
  <2> QED  BY <2>4, <2>5 DEF RowInv
<1>5. ASSUME NEW q \in Requests, Write(q) PROVE RowInv'
  <2>1. /\ request[q].at = "write" /\ request'[q].at = "invalidate" /\ builtin' = builtin
        /\ \A r \in Requests \ {q} : request'[r] = request[r]
    BY <1>5, <1>t, <1>r DEF Write, RequestStates
  <2>2. CASE request[q].edit = "delete"
    <3>1. override' = "none" /\ \A r \in Requests \ {q} : request[r].at = "write" => r \in crossed'
      BY <1>5, <2>2 DEF Write, Row, Kinds
    <3> QED  BY <2>1, <3>1 DEF RowInv, RowHasItsRole
  <2>3. CASE request[q].edit # "delete"
    <3>1. crossed' = crossed \ {q}
      BY <1>5, <2>3 DEF Write
    <3>2. exists => exists'
      BY <1>5, <2>3 DEF Write
    <3>3. RowHasItsRole'
      <4>1. CASE request[q].edit \in Kinds
        <5>1. builtin \/ exists \/ q \in crossed
          BY <2>1, <4>1 DEF RowInv
        <5>2. q \in crossed => belated'
          BY <1>5, <4>1, ZenonT(30) DEF Write, Kinds
        <5> QED  BY <2>1, <3>2, <5>1, <5>2 DEF RowHasItsRole
      <4>2. CASE request[q].edit \in {"create", "seed"}
        BY <1>5, <4>2 DEF Write, RowHasItsRole
      <4>3. CASE request[q].edit = "clear"
        BY <1>5, <4>3 DEF Write, Row, Kinds, RowHasItsRole
      <4> QED  BY <1>r, <2>3, <4>1, <4>2, <4>3 DEF Edits
    <3>4. ASSUME NEW r \in Requests, request'[r].at = "write", request'[r].edit \in Kinds
          PROVE  builtin' \/ exists' \/ r \in crossed'
      <4>1. r # q
        BY <2>1, <3>4
      <4> QED  BY <2>1, <3>1, <3>2, <3>4, <4>1 DEF RowInv
    <3> QED  BY <3>3, <3>4 DEF RowInv
  <2> QED  BY <2>2, <2>3
<1>6. ASSUME NEW p \in Processes, WorkerDies(p) PROVE RowInv'
  <2>1. \A r \in Requests : request'[r] = IF request[r].worker = p THEN Idle ELSE request[r]
    BY <1>6 DEF WorkerDies
  <2>2. crossed' = {r \in crossed : request[r].worker # p} /\ UNCHANGED <<role, belated>>
    BY <1>6 DEF WorkerDies
  <2>3. ASSUME NEW r \in Requests, request'[r].at = "write" PROVE request[r].worker # p
    BY <2>1, <2>3 DEF Idle
  <2> QED  BY <1>0, <2>1, <2>2, <2>3
<1>7. ASSUME Tick PROVE RowInv'
  <2>1. \A r \in Requests : request'[r].at = request[r].at /\ request'[r].edit = request[r].edit
    BY <1>7, <1>r DEF Tick, RequestStates
  <2>2. UNCHANGED <<role, crossed, belated>>
    BY <1>7 DEF Tick
  <2> QED  BY <1>0, <2>1, <2>2
<1>8. CASE UNCHANGED vars
  BY <1>0, <1>8 DEF vars
<1> QED
  BY <1>1, <1>2, <1>3, <1>4, <1>5, <1>6, <1>7, <1>8 DEF Next, Resolving, Editing

\* In any number of workers and requests, a row has no role only if it was
\* written by a request that was checked before the role's deletion: the
\* deletion takes the rows that are there with it, and no later write gets past
\* the check.
THEOREM RowsHaveRoles == Spec => []RowHasItsRole
<1> DEFINE Inv == Typed /\ RowInv
<1>1. Init => Inv
  <2> SUFFICES ASSUME Init PROVE RowInv
    BY TypeInit
  <2>1. \A q \in Requests : request[q].at = "idle"
    BY DEF Init, Idle
  <2> QED  BY <2>1 DEF Init, RowInv, RowHasItsRole
<1>2. Inv /\ [Next]_vars => Inv'
  BY TypeStep, RowStep
<1>3. Inv => RowHasItsRole
  BY DEF RowInv
<1> QED  BY <1>1, <1>2, <1>3, PTL DEF Spec
=============================================================================
