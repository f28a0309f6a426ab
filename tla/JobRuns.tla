------------------------------ MODULE JobRuns ------------------------------
(***************************************************************************)
(* The life of the rows of job_runs, the table through which every plugin  *)
(* sync and hook of NousViz runs.  Five kinds of process write it with no  *)
(* lock but the row locks of single statements:                            *)
(*                                                                         *)
(*   - API requests (routes/sync.py, routes/jobs.py): each reads a row in  *)
(*     one transaction and updates it in another;                          *)
(*   - the scheduler (run_scheduler.py): looks for an active run in one    *)
(*     transaction and enqueues in another;                                *)
(*   - jobs-workers (run_jobs.py): claim, supervise, finalize, and sweep   *)
(*     the rows of dead workers;                                           *)
(*   - plugin subprocesses (nousviz_sdk): detached, so they outlive the    *)
(*     worker that spawned them, and write the same row;                   *)
(*   - PM2, which restarts a worker that died.                             *)
(*                                                                         *)
(* One action is one transaction, one signal, or one local decision of the *)
(* worker's loop.  Wall-clock intervals (poll periods, timeouts, grace     *)
(* periods) are not counted: a delay that may elapse is an enabled action. *)
(* Only the heartbeat is: its age is a number of heartbeat intervals.      *)
(***************************************************************************)
EXTENDS Naturals, FiniteSets

CONSTANTS
  SyncJobs,      \* job ids of the form sync:<plugin>
  HookJobs,      \* job ids of the form hook:<plugin>:<hook>
  NoJob,         \* the job id of a row not inserted yet; "no hook declared"
  FirstRunHook,  \* [SyncJobs -> HookJobs \cup {NoJob}], the manifest's on_first_run_success
  Policy,        \* [SyncJobs -> Policies], the manifest's concurrency_policy
  Clients,       \* API request slots: requests that may be in flight at once
  Schedulers,    \* scheduler processes
  Workers,       \* jobs-worker processes (PM2 runs one)
  Procs,         \* slots for plugin subprocesses
  NoProc,
  Ops,           \* what may happen: control operations, syncs run by hand,
                 \* retention, failing policy lookups, failing heartbeats
  StaleBeats,    \* heartbeat intervals after which a row counts as a dead worker's
  MaxRuns,       \* bound: rows ever inserted
  MaxFaults      \* bound: worker deaths and failed finalizing transactions

Jobs     == SyncJobs \cup HookJobs
RunId    == 1 .. MaxRuns
NoRun    == 0
Callers  == Clients \cup Schedulers
Policies == {"skip_if_running", "queue_after", "cancel_active"}

ASSUME JobsAssumption ==
  /\ SyncJobs \cap HookJobs = {}
  /\ NoJob \notin Jobs
  /\ FirstRunHook \in [SyncJobs -> HookJobs \cup {NoJob}]
  /\ Policy \in [SyncJobs -> Policies]
ASSUME OpsAssumption    ==
  Ops \subseteq {"cancel", "force", "pause", "resume", "standalone", "retention", "badcheck",
                "lostbeat"}
ASSUME BeatsAssumption  == StaleBeats \in Nat \ {0}
ASSUME ProcsAssumption  == NoProc \notin Procs
ASSUME BoundsAssumption == MaxRuns \in Nat /\ MaxFaults \in Nat

VARIABLES
  count,      \* rows inserted so far: ids are 1 .. count, in insertion order
  job,        \* [RunId -> job_id]
  status,     \* [RunId -> status]
  heartbeat,  \* [RunId -> the age of heartbeat_at]
  checked,    \* [RunId -> the rows there were when the check that let the run in
              \*  found its plugin idle; 0 if none did]: history
  req,        \* [Callers -> what the request between its two transactions remembers]
  pc,         \* [Workers -> where the worker's loop stands]
  mem,        \* [Workers -> the local variables of _run_job]
  beat,       \* [Workers -> the clock of its loop's heartbeats]
  tokens,     \* [Workers -> runs whose run-scoped broker token is live]
  proc,       \* [Procs -> the plugin subprocess in the slot]
  alerts,     \* [RunId -> failure statuses webhooks were sent for]
  faults      \* faults so far

rowVars    == <<count, job, status, heartbeat, checked>>
workerVars == <<pc, mem, beat, tokens>>
vars       == <<count, job, status, heartbeat, checked, req, pc, mem, beat, tokens, proc,
                alerts, faults>>

-----------------------------------------------------------------------------
(* The table *)

Terminal   == {"success", "error", "timeout", "cancelled", "skipped"}
InFlight   == {"queued", "running", "cancelling"}
NonTerminal == InFlight \cup {"paused"}
Closed     == Terminal \cup {"deleted"}
Status     == Closed \cup NonTerminal \cup {"absent"}
Failed     == {"error", "timeout", "cancelled"}

\* The age of heartbeat_at in intervals of LIVE_HEARTBEAT_INTERVAL_SEC (10 s).
\* StaleBeats of them are ORPHAN_HEARTBEAT_STALE_SEC (120 s), and the 90 s of the
\* force gate.  It also stands for NULL, which sweep and gate take for as old.
Heartbeat == 0 .. StaleBeats
Fresh(h)  == h < StaleBeats

\* INSERT INTO job_runs.  Nothing is inserted beyond the bound.
CanInsert == count < MaxRuns
Insert(j, s, saw) ==
  /\ CanInsert
  /\ count' = count + 1
  /\ job' = [job EXCEPT ![count + 1] = j]
  /\ status' = [status EXCEPT ![count + 1] = s]
  /\ checked' = [checked EXCEPT ![count + 1] = saw]
  /\ UNCHANGED heartbeat

\* UPDATE job_runs SET status ... WHERE id = r, which finds no row once the
\* retention job has deleted it.
SetStatus(r, s) ==
  /\ status' = [status EXCEPT ![r] = IF @ = "deleted" THEN @ ELSE s]
  /\ UNCHANGED <<count, job, heartbeat, checked>>

RunsOf(j, S) == {r \in RunId : job[r] = j /\ status[r] \in S}

-----------------------------------------------------------------------------
(* Types *)

ProcStates  == {"free", "running", "returned", "raised", "exit0", "exit1"}
ProcAlive   == {"running", "returned", "raised"}
WorkerPC    == {"down", "idle", "claimed", "monitor", "finalize", "alert", "hook"}
ControlOps  == Ops \cap {"cancel", "force", "pause", "resume"}
ControlReq  == [op : ControlOps, run : RunId, seen : Status]
EnqueueReq  == [op : {"enqueue"}, job : SyncJobs, saw : 0 .. MaxRuns]
NoReq       == [op |-> "none"]

\* How far _run_job has gone in ending the subprocess: cancel_requested_at
\* still None; set; sigterm_sent_at set; the timeout finalized (terminal_logged).
Stage       == {"watching", "asked", "terminating", "logged"}
WorkerMem   == [run : RunId \cup {NoRun}, proc : Procs \cup {NoProc},
                outcome : Terminal, stage : Stage]
Blank       == [run |-> NoRun, proc |-> NoProc, outcome |-> "error", stage |-> "watching"]
\* due: a heartbeat interval has passed since last_heartbeat_at.  missed: the
\* heartbeats that failed since the last one that did not (history).
Beat        == [due : BOOLEAN, missed : 0 .. StaleBeats - 1]
NoBeat      == [due |-> FALSE, missed |-> 0]
\* A subprocess nobody waits for, its worker dead or none at all, has no parent.
Subprocess  == [state : ProcStates, run : RunId \cup {NoRun}, parent : {"worker", "none"}]
NoSubprocess == [state |-> "free", run |-> NoRun, parent |-> "none"]

TypeOK ==
  /\ count \in 0 .. MaxRuns
  /\ job \in [RunId -> Jobs \cup {NoJob}]
  /\ status \in [RunId -> Status]
  /\ heartbeat \in [RunId -> Heartbeat]
  /\ checked \in [RunId -> 0 .. MaxRuns]
  /\ req \in [Callers -> ControlReq \cup EnqueueReq \cup {NoReq}]
  /\ pc \in [Workers -> WorkerPC]
  /\ mem \in [Workers -> WorkerMem]
  /\ beat \in [Workers -> Beat]
  /\ tokens \in [Workers -> SUBSET RunId]
  /\ proc \in [Procs -> Subprocess]
  /\ alerts \in [RunId -> SUBSET Failed]
  /\ faults \in 0 .. MaxFaults

Init ==
  /\ count = 0
  /\ job = [r \in RunId |-> NoJob]
  /\ status = [r \in RunId |-> "absent"]
  /\ heartbeat = [r \in RunId |-> StaleBeats]
  /\ checked = [r \in RunId |-> 0]
  /\ req = [c \in Callers |-> NoReq]
  /\ pc = [w \in Workers |-> "down"]
  /\ mem = [w \in Workers |-> Blank]
  /\ beat = [w \in Workers |-> NoBeat]
  /\ tokens = [w \in Workers |-> {}]
  /\ proc = [p \in Procs |-> NoSubprocess]
  /\ alerts = [r \in RunId |-> {}]
  /\ faults = 0
-----------------------------------------------------------------------------
(* API requests and the scheduler: check in one transaction, act in another *)

\* Mutation: a run being cancelled no longer counts as active.
ActiveWithoutCancelling == {"queued", "running", "paused"}

\* What keeps POST /plugins/{id}/sync from enqueueing.
ActiveForTrigger == {"queued", "running", "cancelling", "paused"}

\* What keeps the scheduler from enqueueing: a paused run does not.
ActiveForSchedule == {"queued", "running", "cancelling"}

Idle(c)       == req[c] = NoReq
Remember(c, q) == req' = [req EXCEPT ![c] = q]

Newest(S) == {r \in S : \A q \in S : q <= r}

\* What is carried to the INSERT; saw is history.
ToEnqueue(c, j, saw) == Remember(c, [op |-> "enqueue", job |-> j, saw |-> saw])

\* trigger_sync up to the end of _enforce_concurrency's transaction.  The
\* policy applies to the newest active run only; skipping is final (409), and
\* the other outcomes go on to enqueue.
TriggerCheck(c, j) ==
  LET active == RunsOf(j, ActiveForTrigger) IN
  /\ Idle(c)
  /\ \/ /\ Policy[j] = "queue_after"
        /\ ToEnqueue(c, j, 0)
        /\ UNCHANGED rowVars
     \/ /\ Policy[j] # "queue_after" /\ active = {}
        /\ ToEnqueue(c, j, count)
        /\ UNCHANGED rowVars
     \/ /\ Policy[j] = "cancel_active"
        /\ \E r \in Newest(active) :
             SetStatus(r, IF status[r] \in {"queued", "running"}
                            THEN "cancelling" ELSE status[r])
        /\ ToEnqueue(c, j, 0)
     \/ /\ Policy[j] = "skip_if_running" /\ active # {}
        /\ Insert(j, "skipped", 0)
        /\ UNCHANGED req
  /\ UNCHANGED <<workerVars, proc, alerts, faults>>

\* run_scheduler._has_active_run; the scheduler goes on only if it finds none.
ScheduleCheck(c, j) ==
  /\ Idle(c)
  /\ RunsOf(j, ActiveForSchedule) = {}
  /\ ToEnqueue(c, j, count)
  /\ UNCHANGED <<rowVars, workerVars, proc, alerts, faults>>

\* "Fail open": both checks let the sync pass when they raise.
CheckFails(c, j) ==
  /\ "badcheck" \in Ops
  /\ Idle(c)
  /\ ToEnqueue(c, j, 0)
  /\ UNCHANGED <<rowVars, workerVars, proc, alerts, faults>>

\* _enqueue_async_run, and the scheduler's _enqueue_run.
Enqueue(c) ==
  /\ req[c].op = "enqueue"
  /\ Insert(req[c].job, "queued", req[c].saw)
  /\ Remember(c, NoReq)
  /\ UNCHANGED <<workerVars, proc, alerts, faults>>

\* The 409 of ?force=true: a running row with a heartbeat of the last 90 s.
ForceRefused(s, h) == s = "running" /\ Fresh(h)

\* What the handlers let past their early returns.
Proceeds(o, s, h) ==
  \/ o = "cancel" /\ s \in {"queued", "running", "paused"}
  \/ o = "force"  /\ s \in NonTerminal /\ ~ ForceRefused(s, h)
  \/ o = "pause"  /\ s \in {"queued", "running"}
  \/ o = "resume" /\ s = "paused"

\* Mutation: the force UPDATE goes by the id alone.
UpdateWhereForceUnguarded(o, seen) ==
  CASE o = "force"                       -> Status \ {"absent", "deleted"}
    [] o = "cancel" /\ seen = "running"  -> {"running"}
    [] o = "cancel" /\ seen # "running"  -> {"queued", "paused"}
    [] o = "pause"                       -> {"queued", "running"}
    [] o = "resume"                      -> {"paused"}

\* The WHERE clause of the UPDATE the handler then issues, given the status
\* it read, and the status the UPDATE sets.
UpdateWhere(o, seen) ==
  CASE o = "force"                       -> NonTerminal
    [] o = "cancel" /\ seen = "running"  -> {"running"}
    [] o = "cancel" /\ seen # "running"  -> {"queued", "paused"}
    [] o = "pause"                       -> {"queued", "running"}
    [] o = "resume"                      -> {"paused"}

UpdateTo(o, seen) ==
  CASE o = "force"                       -> "cancelled"
    [] o = "cancel" /\ seen = "running"  -> "cancelling"
    [] o = "cancel" /\ seen # "running"  -> "cancelled"
    [] o = "pause"                       -> "paused"
    [] o = "resume"                      -> "queued"

\* _get_run of cancel_job_run, pause_job_run and resume_job_run, and their
\* early returns (which leave the request slot idle).
ControlRead(c, o, r) ==
  /\ Idle(c)
  /\ Proceeds(o, status[r], heartbeat[r])
  /\ Remember(c, [op |-> o, run |-> r, seen |-> status[r]])
  /\ UNCHANGED <<rowVars, workerVars, proc, alerts, faults>>

ControlWrite(c) ==
  LET q == req[c] IN
  /\ q.op \in ControlOps
  /\ SetStatus(q.run, IF status[q.run] \in UpdateWhere(q.op, q.seen)
                        THEN UpdateTo(q.op, q.seen) ELSE status[q.run])
  /\ Remember(c, NoReq)
  /\ UNCHANGED <<workerVars, proc, alerts, faults>>

\* The second transaction fails, or the process dies before it: what the
\* request had in mind is lost.
RequestLost(c) ==
  /\ ~ Idle(c)
  /\ Remember(c, NoReq)
  /\ UNCHANGED <<rowVars, workerVars, proc, alerts, faults>>

-----------------------------------------------------------------------------
(* The jobs-worker *)

IsSync(r)  == job[r] \in SyncJobs
Run(w)     == mem[w].run
Child(w)   == mem[w].proc

\* Mutations: the sweep writes a status the CHECK constraint does not know;
\* requeues the rows of dead workers; forgets the rows being cancelled.
SweptUnknown(s, h) == IF ~ Fresh(h) /\ s = "running" THEN "orphaned" ELSE s
SweptRequeued(s, h) == IF ~ Fresh(h) /\ s = "running" THEN "queued" ELSE s
SweptRunningOnly(s, h) == IF ~ Fresh(h) /\ s = "running" THEN "error" ELSE s

\* What an orphan sweep makes of a row.
Swept(s, h) ==
  IF ~ Fresh(h)
    THEN CASE s = "running"    -> "error"
           [] s = "cancelling" -> "cancelled"
           [] OTHER            -> s
    ELSE s

SweepRows ==
  /\ status' = [r \in RunId |-> Swept(status[r], heartbeat[r])]
  /\ UNCHANGED <<count, job, heartbeat, checked>>

\* PM2 (re)starts the worker: a broker with no tokens, then the startup sweep.
Start(w) ==
  /\ pc[w] = "down"
  /\ pc' = [pc EXCEPT ![w] = "idle"]
  /\ SweepRows
  /\ UNCHANGED <<mem, beat, tokens, req, proc, alerts, faults>>

\* The periodic sweep, between two jobs.
Sweep(w) ==
  /\ pc[w] = "idle"
  /\ SweepRows
  /\ UNCHANGED <<workerVars, req, proc, alerts, faults>>

\* Mutation: cancelled-while-queued rows are drained through a claim as well.
ClaimableOrCancelling == {"queued", "cancelling"}

\* The statuses a claim looks for.
Claimable == {"queued"}

Oldest(S) == {r \in S : \A q \in S : r <= q}

\* _claim_next_job: the oldest queued row becomes this worker's.
Claim(w) ==
  /\ pc[w] = "idle"
  /\ \E r \in Oldest({q \in RunId : status[q] \in Claimable}) :
       /\ status' = [status EXCEPT ![r] = "running"]
       /\ heartbeat' = [heartbeat EXCEPT ![r] = 0]
       /\ mem' = [mem EXCEPT ![w] = [Blank EXCEPT !.run = r]]
  /\ pc' = [pc EXCEPT ![w] = "claimed"]
  /\ UNCHANGED <<count, job, checked, beat, tokens, req, proc, alerts, faults>>

\* main's loop goes for the next job.
Loops(w) ==
  /\ pc' = [pc EXCEPT ![w] = "idle"]
  /\ mem' = [mem EXCEPT ![w] = Blank]

\* The clock starts anew, or stops: off the loop no heartbeat is due.
ResetBeat(w) == beat' = [beat EXCEPT ![w] = NoBeat]

ToFinalize(w, o) ==
  /\ pc' = [pc EXCEPT ![w] = "finalize"]
  /\ mem' = [mem EXCEPT ![w].outcome = o, ![w].proc = NoProc]
  /\ ResetBeat(w)

\* Bad job id, plugin or script missing, integrity check failed.
Reject(w) ==
  /\ pc[w] = "claimed"
  /\ ToFinalize(w, "error")
  /\ UNCHANGED <<rowVars, tokens, req, proc, alerts, faults>>

\* _broker_handover, then Popen: the subprocess starts with a live token, and the
\* loop counts its first heartbeat interval from here, not from the claim.
Spawn(w) ==
  /\ pc[w] = "claimed"
  /\ \E p \in Procs :
       /\ proc[p].state = "free"
       /\ proc' = [proc EXCEPT ![p] = [state |-> "running", run |-> Run(w), parent |-> "worker"]]
       /\ mem' = [mem EXCEPT ![w].proc = p]
  /\ ResetBeat(w)
  /\ tokens' = [tokens EXCEPT ![w] = @ \cup {Run(w)}]
  /\ pc' = [pc EXCEPT ![w] = "monitor"]
  /\ UNCHANGED <<rowVars, req, alerts, faults>>

\* Popen raises after the token was registered: main's exception handler.
SpawnFails(w) ==
  /\ pc[w] = "claimed"
  /\ tokens' = [tokens EXCEPT ![w] = @ \cup {Run(w)}]
  /\ ToFinalize(w, "error")
  /\ UNCHANGED <<rowVars, req, proc, alerts, faults>>

Monitors(w, r)  == pc[w] = "monitor" /\ Run(w) = r
ChildExited(w)  == proc[Child(w)].state \in {"exit0", "exit1"}
Reap(p)         == proc' = [proc EXCEPT ![p] = NoSubprocess]

\* The status a sync's exit is recorded with.
ExitOutcome(stage, state) ==
  IF stage # "watching" THEN "cancelled" ELSE IF state = "exit0" THEN "success" ELSE "error"

\* proc.poll() returns.  After a timeout the row is final already and the
\* worker goes back for the next job; a hook's verdict is in its last line
\* of output, which may differ from its exit code.
ObserveExit(w) ==
  /\ pc[w] = "monitor" /\ ChildExited(w)
  /\ Reap(Child(w))
  /\ \/ mem[w].stage = "logged" /\ Loops(w) /\ UNCHANGED beat
     \/ /\ mem[w].stage # "logged"
        /\ \E o \in {"success", "error", "cancelled"} :
             /\ IsSync(Run(w)) => o = ExitOutcome(mem[w].stage, proc[Child(w)].state)
             /\ ~ IsSync(Run(w)) => o # "cancelled"
             /\ ToFinalize(w, o)
  /\ UNCHANGED <<rowVars, tokens, req, alerts, faults>>

\* communicate() raises (output that does not decode): main's exception
\* handler finalizes, whatever was logged before.
CollectRaises(w) ==
  /\ pc[w] = "monitor" /\ ChildExited(w)
  /\ Reap(Child(w))
  /\ ToFinalize(w, "error")
  /\ UNCHANGED <<rowVars, tokens, req, alerts, faults>>

\* SIGTERM ends a running plugin unless it handles the signal.
Sigterm(p) ==
  \/ UNCHANGED proc
  \/ /\ proc[p].state \in ProcAlive
     /\ proc' = [proc EXCEPT ![p].state = "exit1"]

\* The timeout branch up to its call of _finalize_run.
Timeout(w) ==
  /\ pc[w] = "monitor" /\ IsSync(Run(w)) /\ mem[w].stage = "watching"
  /\ Sigterm(Child(w))
  /\ mem' = [mem EXCEPT ![w].stage = "terminating", ![w].outcome = "timeout"]
  /\ ResetBeat(w)
  /\ pc' = [pc EXCEPT ![w] = "finalize"]
  /\ UNCHANGED <<rowVars, tokens, req, alerts, faults>>

\* subprocess.run kills the hook's process and waits for it.
HookTimeout(w) ==
  /\ pc[w] = "monitor" /\ ~ IsSync(Run(w))
  /\ Reap(Child(w))
  /\ ToFinalize(w, "timeout")
  /\ UNCHANGED <<rowVars, tokens, req, alerts, faults>>

\* The loop looks for 'cancelling', and for nothing else.
PollCancel(w) ==
  /\ pc[w] = "monitor" /\ IsSync(Run(w)) /\ mem[w].stage = "watching"
  /\ status[Run(w)] = "cancelling"
  /\ mem' = [mem EXCEPT ![w].stage = "asked"]
  /\ UNCHANGED <<rowVars, pc, beat, tokens, req, proc, alerts, faults>>

\* COOP_CANCEL_GRACE_SEC after the request.
Escalate(w) ==
  /\ pc[w] = "monitor" /\ IsSync(Run(w)) /\ mem[w].stage = "asked"
  /\ Sigterm(Child(w))
  /\ mem' = [mem EXCEPT ![w].stage = "terminating"]
  /\ UNCHANGED <<rowVars, pc, beat, tokens, req, alerts, faults>>

\* SIGTERM_GRACE_SEC after SIGTERM.
Kill(w) ==
  /\ pc[w] = "monitor" /\ IsSync(Run(w)) /\ mem[w].stage \in {"terminating", "logged"}
  /\ proc[Child(w)].state \in ProcAlive
  /\ proc' = [proc EXCEPT ![Child(w)].state = "exit1"]
  /\ UNCHANGED <<rowVars, workerVars, req, alerts, faults>>

\* Mutation: no heartbeats once the run is "heading terminal (timeout/cancel)", as
\* the comment in the loop has it.
HeartbeatsUntilAsked(w, r) == Monitors(w, r) /\ IsSync(r) /\ mem[w].stage = "watching"

\* Only a sync's loop writes heartbeats, and only until the run is final.
Heartbeats(w, r) == Monitors(w, r) /\ IsSync(r) /\ mem[w].stage # "logged"

\* The loop comes to write the heartbeat that is due.  _write_heartbeat swallows a
\* failure, and the loop waits another interval either way.
WriteHeartbeat(w) ==
  /\ Heartbeats(w, Run(w)) /\ beat[w].due
  /\ \/ /\ heartbeat' = [heartbeat EXCEPT ![Run(w)] = 0]
        /\ ResetBeat(w)
     \/ /\ "lostbeat" \in Ops
        /\ beat' = [beat EXCEPT ![w].due = FALSE,
                                 ![w].missed = IF @ + 1 < StaleBeats THEN @ + 1 ELSE @]
        /\ UNCHANGED heartbeat
  /\ UNCHANGED <<count, job, status, checked, pc, mem, tokens, req, proc, alerts, faults>>

TimedOut(w)   == IsSync(Run(w)) /\ mem[w].outcome = "timeout"
Succeeded(w)  == IsSync(Run(w)) /\ mem[w].outcome = "success"

\* Mutation: the timeout branch returns once the run is finalized.
AfterFinalizeReturns(w) ==
  \/ Succeeded(w) /\ pc' = [pc EXCEPT ![w] = "hook"] /\ UNCHANGED mem
  \/ ~ Succeeded(w) /\ Loops(w)

\* Where _run_job goes on once _finalize_run has returned.
AfterFinalize(w) ==
  \/ /\ TimedOut(w)
     /\ pc' = [pc EXCEPT ![w] = "monitor"]
     /\ mem' = [mem EXCEPT ![w].stage = "logged"]
  \/ Succeeded(w) /\ pc' = [pc EXCEPT ![w] = "hook"] /\ UNCHANGED mem
  \/ ~ TimedOut(w) /\ ~ Succeeded(w) /\ Loops(w)

\* The broker's release_run.
Revoked(w) == tokens[w] \ {Run(w)}

\* A failure of a sync whose row is still there is announced.
Alerting(w) ==
  IsSync(Run(w)) /\ mem[w].outcome \in Failed /\ status[Run(w)] # "deleted"

\* _finalize_run up to its commit: revoke the run's tokens, write the
\* outcome whatever the row's status is by now.
Finalize(w) ==
  /\ pc[w] = "finalize"
  /\ tokens' = [tokens EXCEPT ![w] = Revoked(w)]
  /\ SetStatus(Run(w), mem[w].outcome)
  /\ \/ Alerting(w) /\ pc' = [pc EXCEPT ![w] = "alert"] /\ UNCHANGED mem
     \/ ~ Alerting(w) /\ AfterFinalize(w)
  /\ UNCHANGED <<beat, req, proc, alerts, faults>>

\* The UPDATE fails: _finalize_run returns before the alert.
FinalizeFails(w) ==
  /\ pc[w] = "finalize" /\ faults < MaxFaults
  /\ faults' = faults + 1
  /\ tokens' = [tokens EXCEPT ![w] = Revoked(w)]
  /\ AfterFinalize(w)
  /\ UNCHANGED <<rowVars, beat, req, proc, alerts>>

\* process_run_failure, after the commit.
DispatchAlert(w) ==
  /\ pc[w] = "alert"
  /\ alerts' = [alerts EXCEPT ![Run(w)] = @ \cup {mem[w].outcome}]
  /\ AfterFinalize(w)
  /\ UNCHANGED <<rowVars, beat, tokens, req, proc, faults>>

\* Mutation: any success will do.
AnySuccess(j) == Cardinality(RunsOf(j, {"success"})) >= 1

\* fire_first_sync_success_hook: enqueue the hook if this is the plugin's
\* only successful sync.
FirstSuccess(j) == Cardinality(RunsOf(j, {"success"})) = 1

FireFirstSuccess(w) ==
  LET j == job[Run(w)] IN
  /\ pc[w] = "hook"
  /\ IF FirstSuccess(j) /\ FirstRunHook[j] # NoJob /\ CanInsert
       THEN Insert(FirstRunHook[j], "queued", 0)
       ELSE UNCHANGED rowVars
  /\ Loops(w)
  /\ UNCHANGED <<beat, tokens, req, proc, alerts, faults>>

\* The worker is killed.  Its subprocess, a session of its own, lives on.
Crash(w) ==
  LET p == Child(w) IN
  /\ pc[w] # "down" /\ faults < MaxFaults
  /\ faults' = faults + 1
  /\ pc' = [pc EXCEPT ![w] = "down"]
  /\ mem' = [mem EXCEPT ![w] = Blank]
  /\ ResetBeat(w)
  /\ tokens' = [tokens EXCEPT ![w] = {}]
  /\ \/ p = NoProc /\ UNCHANGED proc
     \/ p # NoProc /\ proc[p].state \in ProcAlive /\ proc' = [proc EXCEPT ![p].parent = "none"]
     \/ p # NoProc /\ proc[p].state \notin ProcAlive /\ Reap(p)
  /\ UNCHANGED <<rowVars, req, alerts>>

\* The workers for whom time counts: a loop that writes heartbeats comes round once
\* a second, and the way from the claim to the loop is shorter than an interval.
Times(w, r) == Heartbeats(w, r) \/ (pc[w] = "claimed" /\ Run(w) = r)

\* A heartbeat interval passes for row r.  It does so for anybody's row, but not
\* twice without a loop on that row coming round to the heartbeat that is due.
\* Nobody asks for the age of a row in another status.
Age(r) ==
  /\ status[r] \in {"running", "cancelling"}
  /\ \A w \in Workers : Times(w, r) => ~ beat[w].due
  /\ heartbeat' = [heartbeat EXCEPT ![r] = IF @ < StaleBeats THEN @ + 1 ELSE @]
  /\ beat' = [w \in Workers |-> IF Times(w, r) THEN [beat[w] EXCEPT !.due = TRUE] ELSE beat[w]]
  /\ UNCHANGED <<count, job, status, checked, pc, mem, tokens, req, proc, alerts, faults>>

\* execute_policy of job_runs:success and job_runs:failure: rows that are
\* final and old enough go, even the last success of a plugin.
Prune(r) ==
  /\ "retention" \in Ops
  /\ status[r] \in Terminal
  /\ SetStatus(r, "deleted")
  /\ UNCHANGED <<workerVars, req, proc, alerts, faults>>

-----------------------------------------------------------------------------
(* Plugin subprocesses: BaseSyncScript.main of nousviz_sdk *)

Gone(p, s) == IF proc[p].parent = "none" THEN NoSubprocess ELSE [proc[p] EXCEPT !.state = s]
Exits(p, s) == proc' = [proc EXCEPT ![p] = Gone(p, s)]

\* `nousviz sync <plugin>`: no worker, so _start_run inserts the row itself.
StandaloneStart(p, j) ==
  /\ "standalone" \in Ops
  /\ proc[p].state = "free"
  /\ Insert(j, "running", 0)
  /\ proc' = [proc EXCEPT ![p] = [state |-> "running", run |-> count + 1, parent |-> "none"]]
  /\ UNCHANGED <<workerVars, req, alerts, faults>>

\* run() returns (done, or having seen check_cancelled()) or raises.
RunEnds(p) ==
  /\ proc[p].state = "running" /\ IsSync(proc[p].run)
  /\ \E s \in {"returned", "raised"} : proc' = [proc EXCEPT ![p].state = s]
  /\ UNCHANGED <<rowVars, workerVars, req, alerts, faults>>

\* _complete_run, which looks at nothing but the row's id; then exit.
CompleteRun(p) ==
  /\ \/ /\ proc[p].state = "returned"
        /\ SetStatus(proc[p].run, "success")
        /\ Exits(p, "exit0")
     \/ /\ proc[p].state = "raised"
        /\ SetStatus(proc[p].run, "error")
        /\ Exits(p, "exit1")
  /\ UNCHANGED <<workerVars, req, alerts, faults>>

\* _complete_run swallows a database error.
CompleteRunFails(p) ==
  /\ \/ proc[p].state = "returned" /\ Exits(p, "exit0")
     \/ proc[p].state = "raised"   /\ Exits(p, "exit1")
  /\ UNCHANGED <<rowVars, workerVars, req, alerts, faults>>

\* The process ends by itself without a word to the table: hooks, scripts
\* that do not use main(), sys.exit, a fatal signal.
ProcExits(p) ==
  /\ proc[p].state = "running"
  /\ \E s \in {"exit0", "exit1"} : Exits(p, s)
  /\ UNCHANGED <<rowVars, workerVars, req, alerts, faults>>

\* nousviz_sdk.heartbeat()
PluginHeartbeat(p) ==
  /\ proc[p].state = "running"
  /\ heartbeat' = [heartbeat EXCEPT ![proc[p].run] = 0]
  /\ UNCHANGED <<count, job, status, checked, workerVars, req, proc, alerts, faults>>

-----------------------------------------------------------------------------
(* The specification *)

RequestNext ==
  \/ \E c \in Clients, j \in SyncJobs : TriggerCheck(c, j)
  \/ \E c \in Schedulers, j \in SyncJobs : ScheduleCheck(c, j)
  \/ \E c \in Callers, j \in SyncJobs : CheckFails(c, j)
  \/ \E c \in Callers : Enqueue(c)
  \/ \E c \in Clients, o \in ControlOps, r \in RunId : ControlRead(c, o, r)
  \/ \E c \in Callers : ControlWrite(c) \/ RequestLost(c)

WorkerNext(w) ==
  \/ Start(w) \/ Sweep(w) \/ Claim(w)
  \/ Reject(w) \/ Spawn(w) \/ SpawnFails(w)
  \/ ObserveExit(w) \/ CollectRaises(w)
  \/ Timeout(w) \/ HookTimeout(w) \/ PollCancel(w) \/ Escalate(w) \/ Kill(w)
  \/ WriteHeartbeat(w)
  \/ Finalize(w) \/ FinalizeFails(w) \/ DispatchAlert(w) \/ FireFirstSuccess(w)
  \/ Crash(w)

ProcNext(p) ==
  \/ \E j \in SyncJobs : StandaloneStart(p, j)
  \/ RunEnds(p) \/ CompleteRun(p) \/ CompleteRunFails(p) \/ ProcExits(p)
  \/ PluginHeartbeat(p)

Next ==
  \/ RequestNext
  \/ \E w \in Workers : WorkerNext(w)
  \/ \E p \in Procs : ProcNext(p)
  \/ \E r \in RunId : Age(r) \/ Prune(r)

Spec == Init /\ [][Next]_vars
\* What goes on without anybody asking for it.  The worker's loop never blocks
\* for ever on anything but its subprocess, PM2 restarts it (autorestart), time
\* passes, and an API process finishes the requests it has accepted.
SystemFairness ==
  /\ \A w \in Workers :
       /\ WF_vars(Start(w)) /\ WF_vars(Sweep(w)) /\ WF_vars(Claim(w))
       /\ WF_vars(Reject(w) \/ Spawn(w) \/ SpawnFails(w))
       /\ WF_vars(ObserveExit(w) \/ CollectRaises(w))
       /\ WF_vars(Timeout(w)) /\ WF_vars(HookTimeout(w))
       /\ WF_vars(PollCancel(w)) /\ WF_vars(Escalate(w)) /\ WF_vars(Kill(w))
       /\ WF_vars(Finalize(w) \/ FinalizeFails(w))
       /\ WF_vars(DispatchAlert(w)) /\ WF_vars(FireFirstSuccess(w))
  /\ \A r \in RunId : WF_vars(Age(r))
  /\ \A c \in Callers : WF_vars(Enqueue(c)) /\ WF_vars(ControlWrite(c))

\* A plugin's script is finite.
PluginFairness ==
  \A p \in Procs : /\ WF_vars(RunEnds(p) \/ ProcExits(p))
                   /\ WF_vars(CompleteRun(p) \/ CompleteRunFails(p))

SystemFairSpec == Spec /\ SystemFairness
FairSpec       == Spec /\ SystemFairness /\ PluginFairness

-----------------------------------------------------------------------------
(* Properties *)

\* Once a row is final it never re-enters the queue or becomes active again,
\* whatever requests, sweeps, workers and subprocesses still hold its id
\* (_TERMINAL_STATUSES: "cannot be cancelled/paused/resumed further").
FinishedStaysFinished ==
  [][\A r \in RunId : status[r] \in Closed => status'[r] \in Closed]_vars

Executes(w, r) == Run(w) = r /\ pc[w] \in {"claimed", "monitor", "finalize"}

\* A final status is rewritten only by the worker or the subprocess that
\* executes the run: no request decided on a stale read, and no sweep, does.
OnlyExecutorRewritesFinished ==
  [][\A r \in RunId :
       status[r] \in Terminal /\ status'[r] \notin {status[r], "deleted"} =>
         \/ \E w \in Workers : Executes(w, r)
         \/ \E p \in Procs : proc[p].run = r /\ proc[p].state \in ProcAlive]_vars

\* A worker never turns its back on a live subprocess: it goes for the next
\* job only when the last one's process is gone, so that timeouts and cancels
\* are always enforced to the end.
NoAbandonedChild ==
  \A p \in Procs :
    proc[p].state \in ProcAlive /\ proc[p].parent = "worker" =>
      \E w \in Workers : /\ Child(w) = p /\ Run(w) = proc[p].run
                         /\ pc[w] \in {"monitor", "finalize", "alert"}

\* A broker token lives no longer than the execution it was issued for: not
\* past the run's finalization, not past the worker's death.
TokenScoped ==
  \A w \in Workers : \A r \in tokens[w] :
    Run(w) = r /\ pc[w] \in {"monitor", "finalize"} /\ mem[w].stage # "logged"

\* A failure webhook is sent for final rows only: the dispatch comes after the
\* commit, and no commit means no dispatch.
AlertOnlyFinished == \A r \in RunId : alerts[r] # {} => status[r] \in Closed

\* A worker at work: on its way to the loop, or in it with a sync that is not final.
Works(w, r) ==
  /\ Run(w) = r
  /\ pc[w] = "claimed" \/ (pc[w] = "monitor" /\ IsSync(r) /\ mem[w].stage # "logged")

\* The row of a worker at work looks dead, to the sweep of another worker or to the
\* force gate, only after its heartbeats failed in a row for all but two of the
\* intervals ("a missed heartbeat for >2 minutes definitively means the worker is
\* gone").  One of the two is the way to the loop, which starts its clock anew; one
\* is the heartbeat that is due.
StaleOnlyIfMissed ==
  \A w \in Workers, r \in RunId :
    Works(w, r) /\ ~ Fresh(heartbeat[r]) => beat[w].missed + 2 >= StaleBeats

\* Two workers never execute one run ("No contention, no double-claim").
\* Holds where nobody resumes runs: a run paused while it executes and then
\* resumed is queued again under its executor's feet.
ExclusiveClaim ==
  \A v, w \in Workers :
    v # w /\ pc[v] \notin {"down", "idle"} /\ pc[w] \notin {"down", "idle"} => Run(v) # Run(w)

\* Every accepted run is eventually final, or parked by an operator: the queue
\* is served, a cancel is enforced, a dead worker's rows are swept.
InFlightResolves ==
  \A r \in RunId : status[r] \in InFlight ~> status[r] \in Closed \cup {"paused"}

\* "the platform's contract is one in-flight run per plugin at a time"
\* (run_scheduler.py); the 409 of trigger_sync rests on the same contract.  It does
\* not hold: the check and the INSERT are two transactions.
OneInFlight == \A j \in SyncJobs : Cardinality(RunsOf(j, InFlight)) <= 1

\* What holds of it: a second run is in flight beside a first only if the first was
\* inserted between the second's check and its INSERT, by another request, or if the
\* second was let in without finding its plugin idle (by policy, by a check that
\* failed, by hand).  However many requests overlap, whoever is cancelled, parked,
\* swept or dies: what a check found idle stays idle but for later rows.  Resuming
\* is no such request: it looks for no other run.
SecondOnlyByOverlap ==
  \A q, r \in RunId :
    q < r /\ job[q] = job[r] /\ job[r] \in SyncJobs /\ {status[q], status[r]} \subseteq InFlight
      => checked[r] < q

\* on_first_run_success is enqueued at most once per plugin ("Idempotent").
HookAtMostOnce ==
  \A h \in HookJobs : Cardinality({r \in RunId : job[r] = h}) <= 1

-----------------------------------------------------------------------------
(* The inductive invariant behind the safety properties *)

Busy(w) == pc[w] \notin {"down", "idle"}

\* Ids are given out in order, and a row has a job from its first day to its last.
RowsOK ==
  \A r \in RunId : /\ status[r] = "absent" <=> count < r
                   /\ job[r] = NoJob <=> count < r

\* A worker's locals fit the place its loop is at.  It holds on to a subprocess
\* outside the loop only while it records a timeout, and returns to the loop.
WorkerOK(w) ==
  /\ Busy(w) => Run(w) \in RunId /\ status[Run(w)] # "absent"
  /\ pc[w] = "claimed" => mem[w].stage = "watching"
  /\ Child(w) \in Procs <=>
       pc[w] = "monitor" \/ (pc[w] \in {"finalize", "alert"} /\ TimedOut(w))
  /\ pc[w] = "hook" => IsSync(Run(w))
  /\ pc[w] = "alert" => mem[w].outcome \in Failed /\ status[Run(w)] \in Closed

WorkersOK == \A w \in Workers : WorkerOK(w)

ProcsOK ==
  \A p \in Procs : proc[p].state # "free" =>
    proc[p].run \in RunId /\ status[proc[p].run] # "absent"

\* The age of a row at work is what its worker lets it be.
Owed(w) == IF beat[w].due THEN 1 ELSE 0
BeatsOK ==
  \A w \in Workers : LET r == Run(w) IN
    /\ pc[w] = "claimed" => heartbeat[r] <= Owed(w)
    /\ Heartbeats(w, r)  => heartbeat[r] <= beat[w].missed + 1 + Owed(w)

\* Every part the safety theorems rest on, in a form each step preserves.
Inductive ==
  /\ TypeOK /\ RowsOK /\ WorkersOK /\ ProcsOK
  /\ NoAbandonedChild /\ TokenScoped /\ AlertOnlyFinished /\ BeatsOK

-----------------------------------------------------------------------------
(* What the table promises about one run *)

PhaseOf(s) ==
  CASE s = "absent"     -> "new"
    [] s = "queued"     -> "waiting"
    [] s = "running"    -> "active"
    [] s = "paused"     -> "held"
    [] s = "cancelling" -> "closing"
    [] s \in Closed     -> "closed"

Lifecycle == INSTANCE RunLifecycle
               WITH Runs <- RunId, phase <- [r \in RunId |-> PhaseOf(status[r])]

\* The statuses, as five kinds of process write them, implement the lifecycle.
ImplementsLifecycle == Lifecycle!Spec
=============================================================================
