-------------------------- MODULE DiagnosticAlerts --------------------------
(***************************************************************************)
(* The bridge from critical diagnostic findings to webhooks                *)
(* (services/diagnostic_alerts.py).  Each pass of the snapshot worker      *)
(* compares the findings it has just collected with the rows of the alert  *)
(* state, tells the subscribed webhooks what began and what ended, and     *)
(* writes each row in a transaction of its own after the telling.  The     *)
(* one-hour cooldown of the code is not in the model because it never      *)
(* applies: a row that carries last_alerted_at is not sent as detected,    *)
(* and the row of a finding that ended is deleted with its date.           *)
(***************************************************************************)
EXTENDS Naturals

CONSTANTS Findings,   \* keys (finding_id, affected_key)
          Webhooks,   \* outbound endpoints
          MaxFaults   \* bound: deaths and database errors of a pass

VARIABLES
  critical,   \* findings that hold, of critical severity
  row,        \* each finding's row: none, seen, or alerted (last_alerted_at set)
  subscribed, \* webhooks that are active and subscribed
  pass,       \* the pass in progress
  heard,      \* history: "detected" each webhook got of each finding since the
              \* last "resolved", two standing for more
  torn,       \* history: findings of which, since the last removal of their
              \* row, a pass ended between telling and writing
  missed,     \* history: webhook and finding, whose last "resolved" did not get there
  faults      \* failures so far

vars == <<critical, row, subscribed, pass, heard, torn, missed, faults>>

PassStates == [at : {"idle", "comparing", "writing"},
               current : SUBSET Findings,   \* the findings collected
               state : [Findings -> {"none", "seen", "alerted"}], \* the rows loaded
               todo : SUBSET Findings,      \* detected or known: not yet handled
               gone : SUBSET Findings,      \* resolved: not yet handled
               one : SUBSET Findings,       \* the finding being written
               delivered : BOOLEAN]

TypeOK ==
  /\ critical \subseteq Findings
  /\ row \in [Findings -> {"none", "seen", "alerted"}]
  /\ subscribed \subseteq Webhooks
  /\ pass \in PassStates
  /\ heard \in [Webhooks \X Findings -> 0..2]
  /\ torn \subseteq Findings
  /\ missed \subseteq Webhooks \X Findings
  /\ faults \in Nat

NoRows == [f \in Findings |-> "none"]
Idle == [at |-> "idle", current |-> {}, state |-> NoRows, todo |-> {}, gone |-> {},
         one |-> {}, delivered |-> FALSE]

Init ==
  /\ critical \in SUBSET Findings
  /\ row = NoRows
  /\ subscribed \in SUBSET Webhooks
  /\ pass = Idle
  /\ heard = [x \in Webhooks \X Findings |-> 0]
  /\ torn = {} /\ missed = {}
  /\ faults = 0

-----------------------------------------------------------------------------
(* The environment.                                                        *)

Appears(f) ==
  /\ f \notin critical
  /\ critical' = critical \cup {f}
  /\ UNCHANGED <<row, subscribed, pass, heard, torn, missed, faults>>

Clears(f) ==
  /\ f \in critical
  /\ critical' = critical \ {f}
  /\ UNCHANGED <<row, subscribed, pass, heard, torn, missed, faults>>

\* set_subscription, or the endpoint's is_active.
Subscribe(h) ==
  /\ subscribed' = IF h \in subscribed THEN subscribed \ {h} ELSE subscribed \cup {h}
  /\ UNCHANGED <<critical, row, pass, heard, torn, missed, faults>>

-----------------------------------------------------------------------------
(* A pass.                                                                 *)

\* evaluate_diagnostics, then process_findings up to _load_current_state.
Begin ==
  /\ pass.at = "idle"
  /\ pass' = [Idle EXCEPT !.at = "comparing", !.current = critical, !.state = row,
                          !.todo = critical,
                          !.gone = {f \in Findings \ critical : row[f] # "none"}]
  /\ UNCHANGED <<critical, row, subscribed, heard, torn, missed, faults>>

\* Mutant: any finding with a row is taken for a known one.
TouchAnyRow(f) ==
  /\ pass.at = "comparing" /\ f \in pass.todo
  /\ pass.state[f] # "none"
  /\ pass' = [pass EXCEPT !.todo = @ \ {f}]
  /\ UNCHANGED <<critical, row, subscribed, heard, torn, missed, faults>>

\* A known finding only has its last_seen_at refreshed.
Touch(f) ==
  /\ pass.at = "comparing" /\ f \in pass.todo
  /\ pass.state[f] = "alerted"
  /\ pass' = [pass EXCEPT !.todo = @ \ {f}]
  /\ UNCHANGED <<critical, row, subscribed, heard, torn, missed, faults>>

More(n) == IF n < 2 THEN n + 1 ELSE n

\* _dispatch: each subscribed webhook gets the event, or its failure is logged.
Send(f, reached) ==
  /\ pass' = [pass EXCEPT !.at = "writing", !.one = {f}, !.delivered = reached # {}]
  /\ UNCHANGED <<critical, row, subscribed, torn, faults>>

Detect(f) == \E reached \in SUBSET subscribed :
  /\ pass.at = "comparing" /\ f \in pass.todo
  /\ pass.state[f] # "alerted"
  /\ Send(f, reached)
  /\ heard' = [x \in Webhooks \X Findings |->
                IF x \in reached \X {f} THEN More(heard[x]) ELSE heard[x]]
  /\ UNCHANGED missed

\* Resolved findings come after all the others, and are always sent.
Resolve(f) == \E reached \in SUBSET subscribed :
  /\ pass.at = "comparing" /\ pass.todo = {} /\ f \in pass.gone
  /\ Send(f, reached)
  /\ heard' = [x \in Webhooks \X Findings |->
                IF x \in reached \X {f} THEN 0 ELSE heard[x]]
  /\ missed' = (missed \ (reached \X {f})) \cup ((Webhooks \ reached) \X {f})

\* Mutants: a delivery taken for granted, and one forgotten.
WrittenAnyway(f) == "alerted"
WrittenSeen(f) == "seen"

\* _upsert_state.  last_alerted_at is set by a delivery and never cleared.
Written(f) == IF pass.delivered \/ row[f] = "alerted" THEN "alerted" ELSE "seen"

Upsert == \E f \in pass.one \cap pass.todo :
  /\ pass.at = "writing"
  /\ row' = [row EXCEPT ![f] = Written(f)]
  /\ pass' = [pass EXCEPT !.at = "comparing", !.todo = @ \ {f}, !.one = {}, !.delivered = FALSE]
  /\ UNCHANGED <<critical, subscribed, heard, torn, missed, faults>>

\* _delete_state.
Remove == \E f \in pass.one \cap pass.gone :
  /\ pass.at = "writing"
  /\ row' = [row EXCEPT ![f] = "none"]
  /\ pass' = [pass EXCEPT !.at = "comparing", !.gone = @ \ {f}, !.one = {}, !.delivered = FALSE]
  /\ torn' = torn \ {f}
  /\ UNCHANGED <<critical, subscribed, heard, missed, faults>>

End ==
  /\ pass.at = "comparing" /\ pass.todo = {} /\ pass.gone = {}
  /\ pass' = Idle
  /\ UNCHANGED <<critical, row, subscribed, heard, torn, missed, faults>>

\* The worker dies, or an exception of the database ends the pass: main()
\* logs it and has nothing to undo.
Abandon ==
  /\ pass.at # "idle"
  /\ faults < MaxFaults
  /\ faults' = faults + 1
  /\ torn' = torn \cup pass.one
  /\ pass' = Idle
  /\ UNCHANGED <<critical, row, subscribed, heard, missed>>

PassNext ==
  \/ Begin
  \/ \E f \in Findings : Touch(f) \/ Detect(f) \/ Resolve(f)
  \/ Upsert \/ Remove \/ End

Next ==
  \/ \E f \in Findings : Appears(f) \/ Clears(f)
  \/ \E h \in Webhooks : Subscribe(h)
  \/ PassNext
  \/ Abandon

Spec == Init /\ [][Next]_vars

\* PM2 runs the worker every day, and a pass goes on to its end.
FairSpec == Spec /\ WF_vars(PassNext)

-----------------------------------------------------------------------------
(* Properties.                                                             *)

Writing(f) == pass.at = "writing" /\ f \in pass.one

\* A row says "alerted", which ends all retries, only of a finding some
\* webhook knows to be on, unless a telling of it was never written down.
AlertedWasHeard == \A f \in Findings :
  row[f] = "alerted" /\ f \notin torn /\ ~Writing(f)
    => \E h \in Webhooks : heard[<<h, f>>] > 0

\* A webhook is not told twice that a finding began, unless the "resolved"
\* in between did not reach it or a telling was never written down.
DetectedOnce == \A h \in Webhooks, f \in Findings :
  heard[<<h, f>>] > 1 => <<h, f>> \in missed \/ f \in torn

\* A finding that stays critical is sent again and again until it is
\* recorded as delivered: an outage of the webhooks loses no alert.
UndeliveredIsRetried == \A f \in Findings :
  <>[](f \in critical) => []<>(row[f] = "alerted" \/ Writing(f))
=============================================================================
