----------------------------- MODULE AlertRules -----------------------------
(***************************************************************************)
(* Alert rules (routes/alerts.py) and the runner that checks them          *)
(* (run_alerts.py).  A run loads the rules, oldest first, and checks one   *)
(* after the other on a single connection that is never in autocommit: a   *)
(* statement that fails leaves its transaction aborted, and nothing rolls  *)
(* it back.  now() is the start of the transaction, so a trigger is dated  *)
(* from the first statement after the run's last commit.                   *)
(***************************************************************************)
EXTENDS Integers

CONSTANTS Runners,   \* processes of run_alerts.py
          MaxRules,  \* bound: rules ever created
          Cooldown,  \* a rule's cooldown_hours, in ticks
          MaxStall,  \* bound: ticks that pass during one run
          MaxFaults, \* bound: failed statements, deaths of a runner
          Closed     \* no transaction is open

VARIABLES
  created,  \* rules created so far: rule i is the i-th of created_at
  deleted,  \* those deleted
  enabled,  \* those enabled
  invalid,  \* those for which build_check_sql raises
  broken,   \* those whose query fails: their dataset is not there
  met,      \* those whose condition the data meets
  last,     \* the age of each rule's newest trigger, Cooldown if older or none
  runner,   \* each runner's state
  row,      \* the job_runs row each runner's last run has written
  told,     \* history: the age of its newest notification, likewise
  faults    \* failures so far

rules == <<created, deleted, enabled, invalid, broken, met>>
vars == <<rules, last, runner, row, told, faults>>

Rules == 1..MaxRules
Ages == 0..Cooldown
RunnerStates == [at : {"down", "checking", "querying", "recording", "notifying", "saving"},
                 todo : SUBSET Rules,        \* the loop has not done these yet
                 since : 0..MaxStall \cup {Closed}, \* the age of the open transaction
                 aborted : BOOLEAN,          \* it has failed
                 errors : BOOLEAN,           \* errors > 0
                 stall : 0..MaxStall,
                 due : SUBSET Rules,         \* history: could fire since the run began
                 fired : SUBSET Rules,       \* history: fired in this run
                 evaluated : SUBSET Rules,   \* history: decided in this run
                 loaded : SUBSET Rules]      \* history: enabled when it began

TypeOK ==
  /\ created \in 0..MaxRules
  /\ {deleted, enabled, invalid, broken, met} \subseteq SUBSET (1..created)
  /\ last \in [Rules -> Ages]
  /\ runner \in [Runners -> RunnerStates]
  /\ row \in [Runners -> {"none", "success", "error"}]
  /\ told \in [Rules -> Ages]
  /\ faults \in 0..MaxFaults

Down == [at |-> "down", todo |-> {}, since |-> Closed, aborted |-> FALSE, errors |-> FALSE,
         stall |-> 0, due |-> {}, fired |-> {}, evaluated |-> {}, loaded |-> {}]

Init ==
  /\ created = 0
  /\ deleted = {} /\ enabled = {} /\ invalid = {} /\ broken = {} /\ met = {}
  /\ last = [r \in Rules |-> Cooldown]
  /\ runner = [w \in Runners |-> Down]
  /\ row = [w \in Runners |-> "none"]
  /\ told = [r \in Rules |-> Cooldown]
  /\ faults = 0

Live == (1..created) \ deleted
Cooling(r) == last[r] < Cooldown

\* What a check would have to report: an enabled rule whose condition is met,
\* whose query can be built and run, and which has not just triggered.
DueNow == {r \in (Live \cap enabled \cap met) \ (invalid \cup broken) : ~Cooling(r)}

\* The runs in progress, after a step that may end what was due.
StillDue(run) == [w \in Runners |->
                   [run[w] EXCEPT !.due = @ \cap (DueNow' \cup run[w].fired)]]

-----------------------------------------------------------------------------
(* Operators, plugins and data.                                            *)

Elsewhere == UNCHANGED <<last, row, told, faults>> /\ runner' = StillDue(runner)

Create == \E valid, on \in BOOLEAN :
  /\ created < MaxRules
  /\ created' = created + 1
  /\ enabled' = IF on THEN enabled \cup {created'} ELSE enabled
  /\ invalid' = IF valid THEN invalid ELSE invalid \cup {created'}
  /\ UNCHANGED <<deleted, broken, met>> /\ Elsewhere

Toggle(r) ==
  /\ r \in Live
  /\ enabled' = IF r \in enabled THEN enabled \ {r} ELSE enabled \cup {r}
  /\ UNCHANGED <<created, deleted, invalid, broken, met>> /\ Elsewhere

\* Mutant: an id that is not there is deleted all the same.
DeleteUnknown(r) ==
  /\ deleted' = deleted \cup {r}
  /\ UNCHANGED <<created, enabled, invalid, broken, met>> /\ Elsewhere

Delete(r) ==
  /\ r \in Live
  /\ deleted' = deleted \cup {r}
  /\ UNCHANGED <<created, enabled, invalid, broken, met>> /\ Elsewhere

\* Uninstalling a plugin with its data leaves the rules on its tables alone.
Uninstall(r) ==
  /\ r \in Live \ broken
  /\ broken' = broken \cup {r}
  /\ UNCHANGED <<created, deleted, enabled, invalid, met>> /\ Elsewhere

Reinstall(r) ==
  /\ r \in Live \cap broken
  /\ broken' = broken \ {r}
  /\ UNCHANGED <<created, deleted, enabled, invalid, met>> /\ Elsewhere

DataChanges(r) ==
  /\ r \in Live
  /\ met' = IF r \in met THEN met \ {r} ELSE met \cup {r}
  /\ UNCHANGED <<created, deleted, enabled, invalid, broken>> /\ Elsewhere

Older(age) == IF age < Cooldown THEN age + 1 ELSE age

Tick ==
  /\ \A w \in Runners : runner[w].at # "down" => runner[w].stall < MaxStall
  /\ last' = [r \in Rules |-> Older(last[r])]
  /\ told' = [r \in Rules |-> Older(told[r])]
  /\ runner' = [w \in Runners |-> IF runner[w].at = "down" THEN Down
                  ELSE [runner[w] EXCEPT !.stall = @ + 1,
                                         !.since = IF @ = Closed THEN @ ELSE @ + 1]]
  /\ UNCHANGED <<rules, row, faults>>

-----------------------------------------------------------------------------
(* A run.                                                                  *)

Fault == faults < MaxFaults /\ faults' = faults + 1

\* A statement opens a transaction if none is open.
Opened(m) == IF m.since = Closed THEN 0 ELSE m.since

\* The rule the loop is at: the oldest of those to do.
Turn(m) == {r \in m.todo : \A s \in m.todo : r <= s}

\* Mutant: the last rule is left out.
OnwardButLast(m) ==
  LET rest == m.todo \ Turn(m)
  IN [m EXCEPT !.todo = rest, !.at = IF rest \subseteq {MaxRules} THEN "saving" ELSE "checking"]

\* The loop goes on with the next rule, or to the row of the run.
Onward(m) ==
  LET rest == m.todo \ Turn(m)
  IN [m EXCEPT !.todo = rest, !.at = IF rest = {} THEN "saving" ELSE "checking"]

Becomes(w, m) == runner' = StillDue([runner EXCEPT ![w] = m])

\* main() up to its loop.  With no rules at all it closes the connection.
Load(w) ==
  LET on == Live \cap enabled
  IN /\ runner[w].at = "down"
     /\ Live # {}
     /\ runner' = [runner EXCEPT ![w] =
          [Down EXCEPT !.at = IF on = {} THEN "saving" ELSE "checking",
                       !.todo = on, !.since = 0, !.due = DueNow, !.loaded = on]]
     /\ row' = [row EXCEPT ![w] = "none"]
     /\ UNCHANGED <<rules, last, told, faults>>

\* is_on_cooldown, then build_check_sql.
Check(w) == \E r \in Turn(runner[w]) :
  LET m == runner[w]
      open == [m EXCEPT !.since = Opened(m)]
  IN /\ m.at = "checking"
     /\ UNCHANGED <<rules, last, row, told, faults>>
     /\ \/ /\ m.aborted
           /\ Becomes(w, [Onward(m) EXCEPT !.errors = TRUE])
        \/ /\ ~m.aborted /\ Cooling(r)
           /\ Becomes(w, [Onward(open) EXCEPT !.evaluated = @ \cup {r}])
        \/ /\ ~m.aborted /\ ~Cooling(r) /\ r \in invalid
           /\ Becomes(w, [Onward(open) EXCEPT !.errors = TRUE])
        \/ /\ ~m.aborted /\ ~Cooling(r) /\ r \notin invalid
           /\ Becomes(w, [open EXCEPT !.at = "querying"])

\* A failed query is logged and counts as "did not fire".
Failed(m) == [Onward(m) EXCEPT !.aborted = TRUE]

Query(w) == \E r \in Turn(runner[w]) :
  LET m == runner[w]
  IN /\ m.at = "querying"
     /\ UNCHANGED <<rules, last, row, told>>
     /\ \/ /\ r \in broken
           /\ UNCHANGED faults /\ Becomes(w, Failed(m))
        \/ /\ Fault
           /\ Becomes(w, Failed(m))
        \/ /\ r \notin broken
           /\ Becomes(w, [IF r \in met THEN [m EXCEPT !.at = "recording"] ELSE Onward(m)
                            EXCEPT !.evaluated = @ \cup {r}])
           /\ UNCHANGED faults

\* Mutant: the rule's counters without the trigger's row.
RecordCountersOnly(w) == \E r \in Turn(runner[w]) :
  LET m == runner[w]
  IN /\ m.at = "recording"
     /\ UNCHANGED <<rules, last, row, told, faults>>
     /\ Becomes(w, [m EXCEPT !.at = "notifying", !.since = Closed, !.fired = @ \cup {r}])

\* record_trigger: the trigger's row, the rule's counters, and the commit.
Record(w) == \E r \in Turn(runner[w]) :
  LET m == runner[w]
  IN /\ m.at = "recording"
     /\ last' = [last EXCEPT ![r] = IF Opened(m) \in Ages THEN Opened(m) ELSE Cooldown]
     /\ UNCHANGED <<rules, row, told, faults>>
     /\ Becomes(w, [m EXCEPT !.at = "notifying", !.since = Closed, !.fired = @ \cup {r}])

RecordFails(w) ==
  /\ runner[w].at = "recording"
  /\ Fault
  /\ UNCHANGED <<rules, last, row, told>>
  /\ Becomes(w, [Failed(runner[w]) EXCEPT !.errors = TRUE])

\* Every channel swallows its own failure.
Notify(w) == \E r \in Turn(runner[w]) :
  LET m == runner[w]
  IN /\ m.at = "notifying"
     /\ \E delivered \in BOOLEAN : told' = IF delivered THEN [told EXCEPT ![r] = 0] ELSE told
     /\ UNCHANGED <<rules, last, row, faults>>
     /\ Becomes(w, Onward(m))

\* Mutant: the errors are counted and not looked at.
SaveSuccess(w) ==
  /\ runner[w].at = "saving"
  /\ row' = IF runner[w].aborted THEN row ELSE [row EXCEPT ![w] = "success"]
  /\ UNCHANGED <<rules, last, told, faults>>
  /\ Becomes(w, Down)

\* The row of the run.  Its failure is swallowed, and an aborted transaction
\* takes no INSERT.
Save(w) ==
  /\ runner[w].at = "saving"
  /\ row' = IF runner[w].aborted THEN row
            ELSE [row EXCEPT ![w] = IF runner[w].errors THEN "error" ELSE "success"]
  /\ UNCHANGED <<rules, last, told, faults>>
  /\ Becomes(w, Down)

\* Death, or PM2's hourly restart of a run that has not ended.
Crash(w) ==
  /\ runner[w].at # "down"
  /\ Fault
  /\ UNCHANGED <<rules, last, row, told>>
  /\ Becomes(w, Down)

RunnerNext(w) == \/ Load(w) \/ Check(w) \/ Query(w) \/ Record(w) \/ RecordFails(w)
                 \/ Notify(w) \/ Save(w) \/ Crash(w)

Next ==
  \/ Create
  \/ \E r \in Rules : Toggle(r) \/ Delete(r) \/ Uninstall(r) \/ Reinstall(r) \/ DataChanges(r)
  \/ Tick
  \/ \E w \in Runners : RunnerNext(w)

Spec == Init /\ [][Next]_vars

-----------------------------------------------------------------------------
(* Properties.                                                             *)

\* A rule that could fire throughout a run and did not was behind a
\* statement that failed in the same run.
SilencedOnlyBehindAFailure == \A w \in Runners :
  runner[w].at = "saving" /\ ~runner[w].aborted => runner[w].due \subseteq runner[w].fired

\* A run that will write "success" has decided every rule it loaded, and one
\* that has not writes "error" or nothing.
SuccessMeansDecided == [][\A w \in Runners :
  row'[w] = "success" /\ row[w] # "success"
    => runner[w].loaded \subseteq runner[w].evaluated]_vars

\* Two notifications of a rule are a cooldown apart, less the time a run may
\* take: the cooldown counts from the start of the recording transaction.
SpacedByCooldown == \A w \in Runners :
  runner[w].at = "notifying"
    => \A r \in Turn(runner[w]) : told[r] >= Cooldown - MaxStall
=============================================================================
