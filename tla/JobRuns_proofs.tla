--------------------------- MODULE JobRuns_proofs ---------------------------
(***************************************************************************)
(* Proofs about JobRuns, for any number of plugins, workers, callers,      *)
(* subprocesses, runs and faults, and any policy.                          *)
(***************************************************************************)
EXTENDS JobRuns, FiniteSetTheorems, TLAPS

USE JobsAssumption, OpsAssumption, ProcsAssumption, BoundsAssumption, BeatsAssumption

-----------------------------------------------------------------------------
(* Types of what the helpers of the actions assign *)

\* SetStatus and Insert, the only statements that write status, keep its type.
LEMMA SetStatusType ==
  ASSUME TypeOK, NEW r, NEW s \in Status, SetStatus(r, s)
  PROVE  /\ status' \in [RunId -> Status]
         /\ UNCHANGED <<count, job, heartbeat, checked>>
BY DEF TypeOK, SetStatus

\* INSERT INTO job_runs keeps the types of the columns.
LEMMA InsertType ==
  ASSUME TypeOK, NEW j \in Jobs, NEW s \in Status, NEW saw \in 0 .. MaxRuns, Insert(j, s, saw)
  PROVE  /\ count' \in 0 .. MaxRuns
         /\ job' \in [RunId -> Jobs \cup {NoJob}]
         /\ status' \in [RunId -> Status]
         /\ checked' \in [RunId -> 0 .. MaxRuns]
         /\ UNCHANGED heartbeat
         /\ count + 1 \in RunId
BY DEF TypeOK, Insert, CanInsert, RunId

\* The worker's three ways on: to the next job, to _finalize_run, and out of it.
LEMMA LoopsType ==
  ASSUME TypeOK, NEW w \in Workers, Loops(w)
  PROVE  pc' \in [Workers -> WorkerPC] /\ mem' \in [Workers -> WorkerMem]
BY DEF TypeOK, Loops, WorkerPC, WorkerMem, Blank, Terminal, Stage

\* The clock of the heartbeats starts well typed.
LEMMA ResetBeatType ==
  ASSUME TypeOK, NEW w \in Workers, ResetBeat(w)
  PROVE  beat' \in [Workers -> Beat]
<1>1. NoBeat \in Beat
  BY DEF NoBeat, Beat
<1>. QED
  BY <1>1 DEF TypeOK, ResetBeat

\* _run_job going into _finalize_run keeps the types of its locals.
LEMMA ToFinalizeType ==
  ASSUME TypeOK, NEW w \in Workers, NEW o \in Terminal, ToFinalize(w, o)
  PROVE  /\ pc' \in [Workers -> WorkerPC] /\ mem' \in [Workers -> WorkerMem]
         /\ beat' \in [Workers -> Beat]
<1>1. mem \in [Workers -> WorkerMem] /\ pc \in [Workers -> WorkerPC]
  BY DEF TypeOK
<1>2. mem' \in [Workers -> WorkerMem]
  BY <1>1 DEF ToFinalize, WorkerMem
<1>3. pc' \in [Workers -> WorkerPC]
  BY <1>1 DEF ToFinalize, WorkerPC
<1>. QED
  BY <1>2, <1>3, ResetBeatType DEF ToFinalize

\* _run_job coming back from _finalize_run keeps the types of its locals.
LEMMA AfterFinalizeType ==
  ASSUME TypeOK, NEW w \in Workers, AfterFinalize(w)
  PROVE  pc' \in [Workers -> WorkerPC] /\ mem' \in [Workers -> WorkerMem]
<1>1. mem \in [Workers -> WorkerMem] /\ pc \in [Workers -> WorkerPC]
  BY DEF TypeOK
<1>2. CASE Loops(w)
  BY <1>2, LoopsType
<1>3. ASSUME pc' = [pc EXCEPT ![w] = "monitor"], mem' = [mem EXCEPT ![w].stage = "logged"]
      PROVE  pc' \in [Workers -> WorkerPC] /\ mem' \in [Workers -> WorkerMem]
  <2>1. mem' \in [Workers -> WorkerMem]
    BY <1>1, <1>3 DEF WorkerMem, Stage
  <2>. QED
    BY <1>1, <1>3, <2>1 DEF WorkerPC
<1>4. ASSUME pc' = [pc EXCEPT ![w] = "hook"], UNCHANGED mem
      PROVE  pc' \in [Workers -> WorkerPC] /\ mem' \in [Workers -> WorkerMem]
  BY <1>1, <1>4 DEF WorkerPC
<1>. QED
  BY <1>2, <1>3, <1>4 DEF AfterFinalize

\* Waiting for a subprocess keeps the type of the process table.
LEMMA ReapType ==
  ASSUME TypeOK, NEW p, Reap(p)
  PROVE  proc' \in [Procs -> Subprocess]
BY DEF TypeOK, Reap, Subprocess, NoSubprocess, ProcStates

\* _sweep_orphans writes no status the CHECK constraint does not know.
LEMMA SweepType ==
  ASSUME TypeOK, SweepRows
  PROVE  /\ status' \in [RunId -> Status]
         /\ UNCHANGED <<count, job, heartbeat, checked>>
BY DEF TypeOK, SweepRows, Swept, Status, Closed, Terminal

-----------------------------------------------------------------------------
(* Type correctness *)

\* The empty table and the stopped workers are well typed.
LEMMA TypeInit == Init => TypeOK
BY DEF Init, TypeOK, Blank, WorkerMem, NoReq, NoSubprocess, Subprocess, ProcStates,
       WorkerPC, Stage, Status, Closed, Heartbeat, RunId, NoRun, Terminal, Beat, NoBeat

\* No step of an API request or of the scheduler breaks a type.
LEMMA RequestType ==
  ASSUME TypeOK, RequestNext
  PROVE  TypeOK'
<1>. DEFINE Reqs == ControlReq \cup EnqueueReq \cup {NoReq}
<1>1. ASSUME NEW c \in Clients, NEW j \in SyncJobs, TriggerCheck(c, j) PROVE TypeOK'
  <2>1. req' \in [Callers -> Reqs]
    BY <1>1 DEF TypeOK, TriggerCheck, ToEnqueue, Remember, EnqueueReq
  <2>2. status' \in [RunId -> Status]
    BY <1>1, InsertType DEF TypeOK, TriggerCheck, rowVars, SetStatus, Status,
      NonTerminal, InFlight, Closed, Terminal, Newest, RunsOf, Jobs
  <2>3. /\ count' \in 0 .. MaxRuns
        /\ job' \in [RunId -> Jobs \cup {NoJob}]
        /\ checked' \in [RunId -> 0 .. MaxRuns]
        /\ UNCHANGED heartbeat
    BY <1>1, InsertType DEF TypeOK, TriggerCheck, rowVars, SetStatus, Status,
      NonTerminal, InFlight, Closed, Terminal, Jobs
  <2>. QED
    BY <1>1, <2>1, <2>2, <2>3 DEF TypeOK, TriggerCheck, workerVars
<1>2. ASSUME NEW c \in Schedulers, NEW j \in SyncJobs, ScheduleCheck(c, j) PROVE TypeOK'
  <2>1. req' \in [Callers -> Reqs]
    BY <1>2 DEF TypeOK, ScheduleCheck, ToEnqueue, Remember, EnqueueReq
  <2>. QED
    BY <1>2, <2>1 DEF TypeOK, ScheduleCheck, rowVars, workerVars
<1>3. ASSUME NEW c \in Callers, Enqueue(c) PROVE TypeOK'
  <2>1. req' \in [Callers -> Reqs]
    BY <1>3 DEF TypeOK, Enqueue, Remember
  <2>2. req[c].job \in SyncJobs /\ req[c].saw \in 0 .. MaxRuns
    BY <1>3 DEF TypeOK, Enqueue, ControlReq, EnqueueReq, NoReq, ControlOps
  <2>3. req[c].job \in Jobs /\ "queued" \in Status
    BY <2>2 DEF Jobs, Status, NonTerminal, InFlight
  <2>. QED
    BY <1>3, <2>1, <2>2, <2>3, InsertType DEF TypeOK, Enqueue, workerVars
<1>4. ASSUME NEW c \in Clients, NEW o \in ControlOps, NEW r \in RunId, ControlRead(c, o, r)
      PROVE  TypeOK'
  <2>1. req' \in [Callers -> Reqs]
    BY <1>4 DEF TypeOK, ControlRead, Remember, ControlReq
  <2>. QED
    BY <1>4, <2>1 DEF TypeOK, ControlRead, rowVars, workerVars
<1>5. ASSUME NEW c \in Callers, ControlWrite(c) PROVE TypeOK'
  <2>1. req' \in [Callers -> Reqs]
    BY <1>5 DEF TypeOK, ControlWrite, Remember
  <2>2. req[c] \in ControlReq
    BY <1>5 DEF TypeOK, ControlWrite, EnqueueReq, NoReq, ControlOps
  <2>3. UpdateTo(req[c].op, req[c].seen) \in Status
    BY <2>2 DEF UpdateTo, ControlReq, ControlOps, Status, NonTerminal, InFlight, Closed, Terminal
  <2>4. status[req[c].run] \in Status
    BY <2>2 DEF TypeOK, ControlReq
  <2>5. status' \in [RunId -> Status] /\ UNCHANGED <<count, job, heartbeat, checked>>
    BY <1>5, <2>3, <2>4, SetStatusType DEF ControlWrite
  <2>. QED
    BY <1>5, <2>1, <2>5 DEF TypeOK, ControlWrite, workerVars
<1>6. ASSUME NEW c \in Callers, NEW j \in SyncJobs, CheckFails(c, j) PROVE TypeOK'
  <2>1. req' \in [Callers -> Reqs]
    BY <1>6 DEF TypeOK, CheckFails, ToEnqueue, Remember, EnqueueReq
  <2>. QED
    BY <1>6, <2>1 DEF TypeOK, CheckFails, rowVars, workerVars
<1>7. ASSUME NEW c \in Callers, RequestLost(c) PROVE TypeOK'
  <2>1. req' \in [Callers -> Reqs]
    BY <1>7 DEF TypeOK, RequestLost, Remember
  <2>. QED
    BY <1>7, <2>1 DEF TypeOK, RequestLost, rowVars, workerVars
<1>. QED
  BY <1>1, <1>2, <1>3, <1>4, <1>5, <1>6, <1>7 DEF RequestNext

\* No step of a jobs-worker breaks a type.
LEMMA WorkerType ==
  ASSUME TypeOK, WorkersOK, NEW w \in Workers, WorkerNext(w)
  PROVE  TypeOK'
<1>. DEFINE WTypes == /\ pc' \in [Workers -> WorkerPC] /\ mem' \in [Workers -> WorkerMem]
                      /\ beat' \in [Workers -> Beat]
<1>1. CASE Start(w) \/ Sweep(w)
  <2>1. pc' \in [Workers -> WorkerPC]
    BY <1>1 DEF TypeOK, Start, Sweep, WorkerPC, workerVars
  <2>2. status' \in [RunId -> Status] /\ UNCHANGED <<count, job, heartbeat, checked>>
    BY <1>1, SweepType DEF Start, Sweep
  <2>. QED
    BY <1>1, <2>1, <2>2 DEF TypeOK, Start, Sweep, workerVars
<1>2. CASE Claim(w)
  <2>1. PICK r \in RunId : /\ status' = [status EXCEPT ![r] = "running"]
                           /\ heartbeat' = [heartbeat EXCEPT ![r] = 0]
                           /\ mem' = [mem EXCEPT ![w] = [Blank EXCEPT !.run = r]]
    BY <1>2 DEF Claim, Oldest
  <2>2. [Blank EXCEPT !.run = r] \in WorkerMem
    BY DEF Blank, WorkerMem, Terminal, Stage
  <2>3. WTypes
    BY <1>2, <2>1, <2>2 DEF TypeOK, Claim, WorkerPC
  <2>4. status' \in [RunId -> Status] /\ heartbeat' \in [RunId -> Heartbeat]
    BY <2>1 DEF TypeOK, Status, NonTerminal, InFlight, Heartbeat
  <2>. QED
    BY <1>2, <2>3, <2>4 DEF TypeOK, Claim
<1>3. CASE Reject(w) \/ SpawnFails(w)
  <2>1. WTypes
    BY <1>3, ToFinalizeType DEF Reject, SpawnFails, Terminal
  <2>2. tokens' \in [Workers -> SUBSET RunId]
    BY <1>3 DEF TypeOK, WorkersOK, WorkerOK, Busy, Reject, SpawnFails
  <2>. QED
    BY <1>3, <2>1, <2>2 DEF TypeOK, Reject, SpawnFails, rowVars
<1>4. CASE Spawn(w)
  <2>1. PICK p \in Procs :
          /\ proc' = [proc EXCEPT ![p] = [state |-> "running", run |-> Run(w), parent |-> "worker"]]
          /\ mem' = [mem EXCEPT ![w].proc = p]
    BY <1>4 DEF Spawn
  <2>2. Run(w) \in RunId
    BY <1>4 DEF WorkersOK, WorkerOK, Busy, Spawn
  <2>3. proc' \in [Procs -> Subprocess]
    BY <2>1, <2>2 DEF TypeOK, Subprocess, ProcStates
  <2>4. mem \in [Workers -> WorkerMem]
    BY DEF TypeOK
  <2>5. mem' \in [Workers -> WorkerMem]
    BY <2>1, <2>4 DEF WorkerMem
  <2>6. /\ pc' \in [Workers -> WorkerPC] /\ tokens' \in [Workers -> SUBSET RunId]
        /\ beat' \in [Workers -> Beat]
    BY <1>4, <2>2, ResetBeatType DEF TypeOK, Spawn, WorkerPC
  <2>. QED
    BY <1>4, <2>3, <2>5, <2>6 DEF TypeOK, Spawn, rowVars
<1>5. CASE ObserveExit(w)
  <2>1. CASE Loops(w) /\ UNCHANGED beat
    BY <1>5, <2>1, ReapType, LoopsType DEF TypeOK, ObserveExit, rowVars
  <2>2. ASSUME NEW o \in {"success", "error", "cancelled"}, ToFinalize(w, o) PROVE TypeOK'
    <3>1. WTypes
      BY <2>2, ToFinalizeType DEF Terminal
    <3>. QED
      BY <1>5, <3>1, ReapType DEF TypeOK, ObserveExit, rowVars
  <2>. QED
    BY <1>5, <2>1, <2>2 DEF ObserveExit
<1>6. CASE CollectRaises(w) \/ HookTimeout(w)
  <2>1. WTypes
    BY <1>6, ToFinalizeType DEF CollectRaises, HookTimeout, Terminal
  <2>. QED
    BY <1>6, <2>1, ReapType DEF TypeOK, CollectRaises, HookTimeout, rowVars
<1>7. CASE Timeout(w) \/ Escalate(w) \/ Kill(w) \/ PollCancel(w)
  <2>1. mem \in [Workers -> WorkerMem] /\ pc \in [Workers -> WorkerPC]
    BY DEF TypeOK
  <2>2. mem' \in [Workers -> WorkerMem]
    BY <1>7, <2>1 DEF Timeout, Escalate, Kill, PollCancel, WorkerMem, Stage, Terminal, workerVars
  <2>3. pc' \in [Workers -> WorkerPC]
    BY <1>7, <2>1 DEF Timeout, Escalate, Kill, PollCancel, WorkerPC, workerVars
  <2>5. beat' \in [Workers -> Beat]
    BY <1>7, ResetBeatType DEF TypeOK, Timeout, Escalate, Kill, PollCancel, workerVars
  <2>4. proc' \in [Procs -> Subprocess]
    BY <1>7 DEF TypeOK, Timeout, Escalate, Kill, PollCancel, Sigterm, Subprocess, ProcStates
  <2>. QED
    BY <1>7, <2>2, <2>3, <2>4, <2>5 DEF TypeOK, Timeout, Escalate, Kill, PollCancel, rowVars, workerVars
<1>8. CASE WriteHeartbeat(w)
  <2>1. heartbeat' \in [RunId -> Heartbeat]
    BY <1>8 DEF TypeOK, WriteHeartbeat, Heartbeat
  <2>2. beat' \in [Workers -> Beat]
    <3>1. CASE ResetBeat(w)
      BY <3>1, ResetBeatType
    <3>2. CASE beat' = [beat EXCEPT ![w].due = FALSE,
                                    ![w].missed = IF @ + 1 < StaleBeats THEN @ + 1 ELSE @]
      <4>1. beat \in [Workers -> Beat] /\ StaleBeats \in Nat
        BY DEF TypeOK
      <4>2. (IF beat[w].missed + 1 < StaleBeats THEN beat[w].missed + 1 ELSE beat[w].missed)
               \in 0 .. StaleBeats - 1
        BY <4>1 DEF Beat
      <4>. QED
        BY <3>2, <4>1, <4>2 DEF Beat
    <3>. QED
      BY <1>8, <3>1, <3>2 DEF WriteHeartbeat
  <2>. QED
    BY <1>8, <2>1, <2>2 DEF TypeOK, WriteHeartbeat
<1>9. CASE Finalize(w)
  <2>1. WTypes
    <3>1. CASE AfterFinalize(w)
      BY <1>9, <3>1, AfterFinalizeType DEF TypeOK, Finalize
    <3>2. CASE ~ AfterFinalize(w)
      BY <1>9, <3>2 DEF TypeOK, Finalize, WorkerPC
    <3>. QED
      BY <3>1, <3>2
  <2>2. mem[w].outcome \in Status
    BY DEF TypeOK, WorkerMem, Status, Closed
  <2>3. status' \in [RunId -> Status] /\ UNCHANGED <<count, job, heartbeat, checked>>
    BY <1>9, <2>2, SetStatusType DEF Finalize
  <2>4. tokens' \in [Workers -> SUBSET RunId]
    BY <1>9 DEF TypeOK, Finalize, Revoked
  <2>. QED
    BY <1>9, <2>1, <2>3, <2>4 DEF TypeOK, Finalize
<1>10. CASE FinalizeFails(w)
  <2>1. WTypes
    BY <1>10, AfterFinalizeType DEF TypeOK, FinalizeFails
  <2>2. tokens' \in [Workers -> SUBSET RunId] /\ faults' \in 0 .. MaxFaults
    BY <1>10 DEF TypeOK, FinalizeFails, Revoked
  <2>. QED
    BY <1>10, <2>1, <2>2 DEF TypeOK, FinalizeFails, rowVars
<1>11. CASE DispatchAlert(w)
  <2>1. WTypes
    BY <1>11, AfterFinalizeType DEF TypeOK, DispatchAlert
  <2>2. mem[w].outcome \in Failed
    BY <1>11 DEF DispatchAlert, WorkersOK, WorkerOK
  <2>3. alerts' \in [RunId -> SUBSET Failed]
    BY <1>11, <2>2 DEF TypeOK, DispatchAlert
  <2>. QED
    BY <1>11, <2>1, <2>3 DEF TypeOK, DispatchAlert, rowVars
<1>12. CASE FireFirstSuccess(w)
  <2>1. WTypes
    BY <1>12, LoopsType DEF TypeOK, FireFirstSuccess
  <2>2. job[Run(w)] \in SyncJobs
    BY <1>12 DEF FireFirstSuccess, WorkersOK, WorkerOK, IsSync
  <2>3. FirstRunHook[job[Run(w)]] # NoJob => FirstRunHook[job[Run(w)]] \in Jobs
    BY <2>2 DEF Jobs
  <2>4. "queued" \in Status
    BY DEF Status, NonTerminal, InFlight
  <2>5. /\ count' \in 0 .. MaxRuns
        /\ job' \in [RunId -> Jobs \cup {NoJob}]
        /\ status' \in [RunId -> Status]
        /\ checked' \in [RunId -> 0 .. MaxRuns]
        /\ UNCHANGED heartbeat
    BY <1>12, <2>3, <2>4, InsertType DEF FireFirstSuccess, TypeOK, rowVars
  <2>. QED
    BY <1>12, <2>1, <2>5 DEF TypeOK, FireFirstSuccess
<1>13. CASE Crash(w)
  <2>1. WTypes
    BY <1>13, ResetBeatType DEF TypeOK, Crash, WorkerPC, WorkerMem, Blank, Terminal, Stage
  <2>2. proc' \in [Procs -> Subprocess]
    BY <1>13, ReapType DEF TypeOK, Crash, Subprocess
  <2>3. tokens' \in [Workers -> SUBSET RunId] /\ faults' \in 0 .. MaxFaults
    BY <1>13 DEF TypeOK, Crash
  <2>. QED
    BY <1>13, <2>1, <2>2, <2>3 DEF TypeOK, Crash, rowVars
<1>. QED
  BY <1>1, <1>2, <1>3, <1>4, <1>5, <1>6, <1>7, <1>8, <1>9, <1>10, <1>11, <1>12, <1>13 DEF WorkerNext

\* No step of a plugin subprocess breaks a type.
LEMMA ProcType ==
  ASSUME TypeOK, ProcsOK, NEW p \in Procs, ProcNext(p)
  PROVE  TypeOK'
<1>1. ASSUME NEW j \in SyncJobs, StandaloneStart(p, j) PROVE TypeOK'
  <2>1. j \in Jobs /\ "running" \in Status
    BY DEF Jobs, Status, NonTerminal, InFlight
  <2>2. proc' \in [Procs -> Subprocess]
    BY <1>1, <2>1, InsertType DEF TypeOK, StandaloneStart, Subprocess, ProcStates
  <2>. QED
    BY <1>1, <2>1, <2>2, InsertType DEF TypeOK, StandaloneStart, workerVars
<1>2. CASE RunEnds(p) \/ CompleteRunFails(p) \/ ProcExits(p)
  <2>1. proc' \in [Procs -> Subprocess]
    BY <1>2 DEF TypeOK, RunEnds, CompleteRunFails, ProcExits, Exits, Gone, NoSubprocess,
      Subprocess, ProcStates
  <2>. QED
    BY <1>2, <2>1 DEF TypeOK, RunEnds, CompleteRunFails, ProcExits, rowVars, workerVars
<1>3. CASE CompleteRun(p)
  <2>1. proc' \in [Procs -> Subprocess]
    BY <1>3 DEF TypeOK, CompleteRun, Exits, Gone, NoSubprocess, Subprocess, ProcStates
  <2>2. status' \in [RunId -> Status] /\ UNCHANGED <<count, job, heartbeat, checked>>
    BY <1>3, SetStatusType DEF CompleteRun, Status, Closed, Terminal
  <2>. QED
    BY <1>3, <2>1, <2>2 DEF TypeOK, CompleteRun, workerVars
<1>4. CASE PluginHeartbeat(p)
  <2>1. heartbeat' \in [RunId -> Heartbeat]
    <3>1. heartbeat \in [RunId -> Heartbeat] /\ 0 \in Heartbeat
      BY DEF TypeOK, Heartbeat
    <3>. QED
      BY <1>4, <3>1 DEF PluginHeartbeat
  <2>. QED
    BY <1>4, <2>1 DEF TypeOK, PluginHeartbeat, workerVars
<1>. QED
  BY <1>1, <1>2, <1>3, <1>4 DEF ProcNext

\* No step at all breaks a type.
LEMMA TypeStep ==
  ASSUME TypeOK, WorkersOK, ProcsOK, [Next]_vars
  PROVE  TypeOK'
<1>1. ASSUME NEW r \in RunId, Age(r) PROVE TypeOK'
  <2>1. heartbeat' \in [RunId -> Heartbeat]
    BY <1>1 DEF TypeOK, Age, Heartbeat
  <2>2. beat' \in [Workers -> Beat]
    BY <1>1 DEF TypeOK, Age, Beat
  <2>. QED
    BY <1>1, <2>1, <2>2 DEF TypeOK, Age
<1>2. ASSUME NEW r \in RunId, Prune(r) PROVE TypeOK'
  <2>1. "deleted" \in Status
    BY DEF Status, Closed
  <2>. QED
    BY <1>2, <2>1, SetStatusType DEF TypeOK, Prune, workerVars
<1>3. CASE UNCHANGED vars
  BY <1>3 DEF TypeOK, vars
<1>. QED
  BY <1>1, <1>2, <1>3, RequestType, WorkerType, ProcType DEF Next
-----------------------------------------------------------------------------
(* What one step may do to the rows *)

Executed(r) ==
  \/ \E w \in Workers : Executes(w, r)
  \/ \E p \in Procs : proc[p].run = r /\ proc[p].state \in ProcAlive

\* The moves of a row between two statuses that are not final.
Moves == {<<"queued", "running">>, <<"queued", "cancelling">>, <<"queued", "paused">>,
          <<"running", "cancelling">>, <<"running", "paused">>}
         \cup {m \in {<<"paused", "queued">>} : "resume" \in Ops}

SameRows  == UNCHANGED <<count, job>>
Inserted  == \E j \in Jobs, s \in {"queued", "running", "skipped"}, saw \in 0 .. MaxRuns :
               Insert(j, s, saw)
Moved     == /\ SameRows
             /\ \E r \in RunId, m \in Moves :
                  status[r] = m[1] /\ status' = [status EXCEPT ![r] = m[2]]
\* Requests and sweeps end rows that are not final; so many, or none at all.
Resolved  == /\ SameRows
             /\ \A r \in RunId : status'[r] # status[r] =>
                  status[r] \in NonTerminal /\ status'[r] \in Terminal
\* The executor of a run records its outcome, over whatever the row says.
Recorded  == /\ SameRows
             /\ \E r \in RunId, s \in Terminal :
                  /\ Executed(r) /\ status[r] \notin {"absent", "deleted"}
                  /\ status' = [status EXCEPT ![r] = s]
Pruned    == /\ SameRows /\ "retention" \in Ops
             /\ \E r \in RunId : /\ status[r] \in Terminal
                                 /\ status' = [status EXCEPT ![r] = "deleted"]
RowStep   == Inserted \/ Moved \/ Resolved \/ Recorded \/ Pruned

\* A step that leaves the statuses alone is a step of the rows.
LEMMA SameStatusIsRowStep ==
  ASSUME UNCHANGED <<count, job, status>>
  PROVE  RowStep
BY DEF RowStep, Resolved, SameRows

\* The writes of requests: they insert, or move a row that is not final.
LEMMA RequestRows ==
  ASSUME TypeOK, RequestNext
  PROVE  RowStep
<1>1. ASSUME NEW c \in Clients, NEW j \in SyncJobs, TriggerCheck(c, j) PROVE RowStep
  <2>1. CASE Insert(j, "skipped", 0)
    BY <2>1 DEF RowStep, Inserted, Jobs
  <2>2. ASSUME NEW r \in RunId, status[r] \in ActiveForTrigger,
               SetStatus(r, IF status[r] \in {"queued", "running"} THEN "cancelling" ELSE status[r])
        PROVE  RowStep
    <3>1. CASE status[r] \in {"queued", "running"}
      <4>1. status' = [status EXCEPT ![r] = "cancelling"] /\ SameRows
        BY <2>2, <3>1 DEF SetStatus, TypeOK, SameRows
      <4>2. <<status[r], "cancelling">> \in Moves
        BY <3>1 DEF Moves
      <4>. QED
        BY <4>1, <4>2 DEF RowStep, Moved
    <3>2. CASE status[r] \notin {"queued", "running"}
      <4>1. UNCHANGED <<count, job, status>>
        BY <2>2, <3>2 DEF SetStatus, TypeOK
      <4>. QED
        BY <4>1, SameStatusIsRowStep
    <3>. QED
      BY <3>1, <3>2
  <2>. QED
    BY <1>1, <2>1, <2>2, SameStatusIsRowStep DEF TriggerCheck, Newest, RunsOf, rowVars
<1>2. ASSUME NEW c \in Callers, Enqueue(c) PROVE RowStep
  <2>1. req[c].job \in Jobs /\ req[c].saw \in 0 .. MaxRuns
    BY <1>2 DEF TypeOK, Enqueue, ControlReq, EnqueueReq, NoReq, ControlOps, Jobs
  <2>. QED
    BY <1>2, <2>1 DEF Enqueue, RowStep, Inserted
<1>3. ASSUME NEW c \in Callers, ControlWrite(c) PROVE RowStep
  <2>. DEFINE q == req[c]
              to == UpdateTo(q.op, q.seen)
  <2>1. q \in ControlReq
    BY <1>3 DEF TypeOK, ControlWrite, EnqueueReq, NoReq, ControlOps
  <2>2. CASE status[q.run] \notin UpdateWhere(q.op, q.seen)
    <3>1. UNCHANGED <<count, job, status>>
      BY <1>3, <2>1, <2>2 DEF ControlWrite, SetStatus, TypeOK, ControlReq
    <3>. QED
      BY <3>1, SameStatusIsRowStep
  <2>3. CASE status[q.run] \in UpdateWhere(q.op, q.seen)
    <3>1. status[q.run] \in NonTerminal
      BY <2>1, <2>3 DEF UpdateWhere, ControlReq, ControlOps, NonTerminal, InFlight
    <3>2. status' = [status EXCEPT ![q.run] = to] /\ SameRows
      BY <1>3, <2>1, <2>3, <3>1 DEF ControlWrite, SetStatus, TypeOK, ControlReq, SameRows,
        NonTerminal, InFlight
    <3>3. \/ to \in Terminal
          \/ <<status[q.run], to>> \in Moves
      BY <2>1, <2>3 DEF UpdateWhere, UpdateTo, ControlReq, ControlOps, Terminal, Moves
    <3>4. q.run \in RunId /\ status \in [RunId -> Status]
      BY <2>1 DEF ControlReq, TypeOK
    <3>5. CASE to \in Terminal
      BY <3>1, <3>2, <3>4, <3>5 DEF RowStep, Resolved, SameRows
    <3>6. CASE <<status[q.run], to>> \in Moves
      BY <3>2, <3>4, <3>6 DEF RowStep, Moved, SameRows
    <3>. QED
      BY <3>3, <3>5, <3>6
  <2>. QED
    BY <2>2, <2>3
<1>4. ASSUME UNCHANGED rowVars PROVE RowStep
  BY <1>4, SameStatusIsRowStep DEF rowVars
<1>. QED
  BY <1>1, <1>2, <1>3, <1>4 DEF RequestNext, ScheduleCheck, CheckFails, ControlRead, RequestLost

\* The writes of workers: they claim, sweep, or record the run they execute.
LEMMA WorkerRows ==
  ASSUME TypeOK, WorkersOK, NEW w \in Workers, WorkerNext(w)
  PROVE  RowStep
<1>1. CASE SweepRows
  BY <1>1 DEF SweepRows, Swept, RowStep, Resolved, SameRows, NonTerminal, InFlight, Terminal
<1>2. CASE Claim(w)
  <2>1. PICK r \in RunId : /\ status[r] = "queued"
                           /\ status' = [status EXCEPT ![r] = "running"]
    BY <1>2 DEF Claim, Oldest, Claimable
  <2>2. <<"queued", "running">> \in Moves /\ SameRows
    BY <1>2 DEF Moves, Claim, SameRows
  <2>. QED
    BY <2>1, <2>2 DEF RowStep, Moved
<1>3. CASE Finalize(w)
  <2>. DEFINE r == Run(w)
  <2>1. r \in RunId /\ status[r] # "absent" /\ mem[w].outcome \in Terminal
    BY <1>3 DEF Finalize, WorkersOK, WorkerOK, Busy, TypeOK, WorkerMem
  <2>2. CASE status[r] = "deleted"
    <3>1. UNCHANGED <<count, job, status>>
      BY <1>3, <2>2 DEF Finalize, SetStatus, TypeOK
    <3>. QED
      BY <3>1, SameStatusIsRowStep
  <2>3. CASE status[r] # "deleted"
    <3>1. status' = [status EXCEPT ![r] = mem[w].outcome] /\ SameRows
      BY <1>3, <2>3 DEF Finalize, SetStatus, TypeOK, SameRows
    <3>2. Executed(r)
      BY <1>3 DEF Executed, Executes, Finalize
    <3>. QED
      BY <2>1, <2>3, <3>1, <3>2 DEF RowStep, Recorded
  <2>. QED
    BY <2>2, <2>3
<1>4. CASE FireFirstSuccess(w)
  <2>1. FirstRunHook[job[Run(w)]] # NoJob => FirstRunHook[job[Run(w)]] \in Jobs
    BY <1>4 DEF FireFirstSuccess, WorkersOK, WorkerOK, IsSync, Jobs
  <2>. QED
    BY <1>4, <2>1, SameStatusIsRowStep DEF FireFirstSuccess, RowStep, Inserted, rowVars
<1>5. ASSUME UNCHANGED <<count, job, status>> PROVE RowStep
  BY <1>5, SameStatusIsRowStep
<1>. QED
  BY <1>1, <1>2, <1>3, <1>4, <1>5 DEF WorkerNext, Start, Sweep, Reject, Spawn, SpawnFails,
    ObserveExit, CollectRaises, Timeout, HookTimeout, PollCancel, Escalate, Kill,
    WriteHeartbeat, FinalizeFails, DispatchAlert, Crash, rowVars

\* The writes of subprocesses: they record the run they execute.
LEMMA ProcRows ==
  ASSUME TypeOK, ProcsOK, NEW p \in Procs, ProcNext(p)
  PROVE  RowStep
<1>1. ASSUME NEW j \in SyncJobs, StandaloneStart(p, j) PROVE RowStep
  BY <1>1 DEF StandaloneStart, RowStep, Inserted, Jobs
<1>2. CASE CompleteRun(p)
  <2>. DEFINE r == proc[p].run
  <2>1. PICK s \in {"success", "error"} : SetStatus(r, s)
    BY <1>2 DEF CompleteRun
  <2>2. r \in RunId /\ status[r] # "absent" /\ Executed(r)
    BY <1>2 DEF CompleteRun, ProcsOK, Executed, ProcAlive
  <2>3. CASE status[r] = "deleted"
    <3>1. UNCHANGED <<count, job, status>>
      BY <2>1, <2>3 DEF SetStatus, TypeOK
    <3>. QED
      BY <3>1, SameStatusIsRowStep
  <2>4. CASE status[r] # "deleted"
    <3>1. status' = [status EXCEPT ![r] = s] /\ SameRows
      BY <2>1, <2>4 DEF SetStatus, TypeOK, SameRows
    <3>. QED
      BY <2>2, <2>4, <3>1 DEF RowStep, Recorded, Terminal
  <2>. QED
    BY <2>3, <2>4
<1>3. ASSUME UNCHANGED <<count, job, status>> PROVE RowStep
  BY <1>3, SameStatusIsRowStep
<1>. QED
  BY <1>1, <1>2, <1>3 DEF ProcNext, RunEnds, CompleteRunFails, ProcExits, PluginHeartbeat, rowVars

\* Every step writes the rows in one of the ways named above.
LEMMA NextRows ==
  ASSUME TypeOK, WorkersOK, ProcsOK, [Next]_vars
  PROVE  RowStep
<1>1. ASSUME NEW r \in RunId, Age(r) PROVE RowStep
  BY <1>1, SameStatusIsRowStep DEF Age
<1>2. ASSUME NEW r \in RunId, Prune(r) PROVE RowStep
  BY <1>2 DEF Prune, SetStatus, TypeOK, RowStep, Pruned, SameRows, Terminal
<1>3. CASE UNCHANGED vars
  BY <1>3, SameStatusIsRowStep DEF vars
<1>. QED
  BY <1>1, <1>2, <1>3, RequestRows, WorkerRows, ProcRows DEF Next

\* Rows stay, keep their job, and final rows stay final.
LEMMA RowsKept ==
  ASSUME TypeOK, TypeOK', RowsOK, RowStep, NEW r \in RunId
  PROVE  /\ status[r] # "absent" => status'[r] # "absent" /\ job'[r] = job[r]
         /\ status[r] \in Closed => status'[r] \in Closed
<1>1. CASE Inserted
  BY <1>1 DEF TypeOK, RowsOK, Inserted, Insert, CanInsert, RunId, Closed, Terminal
<1>2. CASE Moved
  BY <1>2 DEF TypeOK, Moved, Moves, SameRows, Closed, Terminal
<1>3. CASE Resolved
  BY <1>3 DEF TypeOK, Resolved, SameRows, Closed, Terminal, NonTerminal, InFlight
<1>4. CASE Recorded \/ Pruned
  BY <1>4 DEF TypeOK, Recorded, Pruned, SameRows, Closed, Terminal
<1>. QED
  BY <1>1, <1>2, <1>3, <1>4 DEF RowStep

\* Ids are given out in order, and a row keeps its job.
LEMMA RowsOKStep ==
  ASSUME TypeOK, TypeOK', RowsOK, RowStep
  PROVE  RowsOK'
<1>1. CASE Inserted
  BY <1>1 DEF Inserted, Insert, CanInsert, RowsOK, TypeOK, RunId
<1>2. CASE Moved
  BY <1>2 DEF Moved, Moves, SameRows, RowsOK, TypeOK
<1>3. CASE Resolved
  BY <1>3 DEF Resolved, SameRows, RowsOK, TypeOK, NonTerminal, InFlight, Terminal
<1>4. CASE Recorded \/ Pruned
  BY <1>4 DEF Recorded, Pruned, SameRows, RowsOK, TypeOK, Terminal
<1>. QED
  BY <1>1, <1>2, <1>3, <1>4 DEF RowStep
-----------------------------------------------------------------------------
(* The invariants of workers and subprocesses *)

\* The workers and their brokers are where they were.
Standing == UNCHANGED <<pc, mem, tokens>>

\* What RowsKept says of every row.
Kept ==
  \A r \in RunId :
    /\ status[r] # "absent" => status'[r] # "absent" /\ job'[r] = job[r]
    /\ status[r] \in Closed => status'[r] \in Closed

\* A worker that does not move keeps its invariant.
LEMMA WorkerOKKept ==
  ASSUME TypeOK, Kept, NEW v \in Workers, WorkerOK(v), pc'[v] = pc[v], mem'[v] = mem[v]
  PROVE  WorkerOK(v)'
<1>1. Run(v)' = Run(v) /\ Child(v)' = Child(v) /\ (Busy(v)' <=> Busy(v))
  BY DEF Run, Child, Busy
<1>2. Busy(v) => Run(v) \in RunId /\ (IsSync(Run(v))' <=> IsSync(Run(v)))
  BY <1>1 DEF Kept, WorkerOK, IsSync
<1>3. Busy(v) => (TimedOut(v)' <=> TimedOut(v))
  BY <1>1, <1>2 DEF TimedOut
<1>4. pc[v] \in {"hook", "finalize", "alert", "claimed", "monitor"} => Busy(v)
  BY DEF Busy
<1>. QED
  BY <1>1, <1>2, <1>3, <1>4 DEF WorkerOK, Kept

\* A worker that goes for the next job satisfies its invariant.
LEMMA LoopsOK ==
  ASSUME TypeOK, NEW w \in Workers, Loops(w)
  PROVE  WorkerOK(w)'
<1>1. pc'[w] = "idle" /\ mem'[w] = Blank
  BY DEF TypeOK, Loops
<1>. QED
  BY <1>1 DEF WorkerOK, Busy, Child, Blank

\* A worker that enters _finalize_run satisfies its invariant.
LEMMA ToFinalizeOK ==
  ASSUME TypeOK, Kept, NEW w \in Workers, WorkerOK(w), Busy(w),
         NEW o \in Terminal, ToFinalize(w, o), o = "timeout" => ~ IsSync(Run(w))
  PROVE  WorkerOK(w)'
<1>1. /\ pc'[w] = "finalize"
      /\ mem'[w].run = mem[w].run /\ mem'[w].outcome = o /\ mem'[w].proc = NoProc
  BY DEF TypeOK, ToFinalize, WorkerMem
<1>2. Run(w)' = Run(w) /\ Run(w) \in RunId /\ status[Run(w)] # "absent"
  BY <1>1 DEF Run, WorkerOK
<1>3. status'[Run(w)] # "absent" /\ (IsSync(Run(w))' <=> IsSync(Run(w)))
  BY <1>1, <1>2 DEF Kept, IsSync
<1>4. ~ TimedOut(w)'
  BY <1>1, <1>3 DEF TimedOut
<1>. QED
  BY <1>1, <1>2, <1>3, <1>4 DEF WorkerOK, Busy, Child

\* A worker that leaves _finalize_run satisfies its invariant.
LEMMA AfterFinalizeOK ==
  ASSUME TypeOK, Kept, NEW w \in Workers, WorkerOK(w), pc[w] \in {"finalize", "alert"},
         AfterFinalize(w)
  PROVE  WorkerOK(w)'
<1>1. Run(w) \in RunId /\ status[Run(w)] # "absent"
  BY DEF WorkerOK, Busy
<1>2. status'[Run(w)] # "absent" /\ (job'[Run(w)] = job[Run(w)])
  BY <1>1 DEF Kept
<1>3. CASE Loops(w)
  BY <1>3, LoopsOK
<1>4. CASE TimedOut(w) /\ pc' = [pc EXCEPT ![w] = "monitor"] /\ mem' = [mem EXCEPT ![w].stage = "logged"]
  <2>1. pc'[w] = "monitor" /\ mem'[w].run = mem[w].run /\ mem'[w].proc = mem[w].proc
    BY <1>4 DEF TypeOK, WorkerMem
  <2>2. Child(w) \in Procs
    BY <1>4 DEF WorkerOK
  <2>. QED
    BY <1>1, <1>2, <2>1, <2>2 DEF WorkerOK, Busy, Run, Child
<1>5. CASE Succeeded(w) /\ pc' = [pc EXCEPT ![w] = "hook"] /\ UNCHANGED mem
  <2>1. pc'[w] = "hook" /\ mem'[w] = mem[w]
    BY <1>5 DEF TypeOK
  <2>2. Child(w) \notin Procs
    BY <1>5 DEF WorkerOK, Succeeded, TimedOut
  <2>3. IsSync(Run(w))'
    BY <1>2, <1>5, <2>1 DEF Succeeded, IsSync, Run
  <2>. QED
    BY <1>1, <1>2, <2>1, <2>2, <2>3 DEF WorkerOK, Busy, Run, Child
<1>. QED
  BY <1>3, <1>4, <1>5 DEF AfterFinalize

\* A worker's own step keeps its locals in line with its place in the loop.
LEMMA WorkerNextOK ==
  ASSUME TypeOK, Kept, NEW w \in Workers, WorkerOK(w), WorkerNext(w)
  PROVE  WorkerOK(w)'
<1>1. CASE Start(w)
  BY <1>1 DEF Start, TypeOK, WorkerOK, Busy, Child
<1>2. CASE Claim(w)
  <2>1. PICK r \in RunId : /\ status'[r] = "running"
                           /\ mem' = [mem EXCEPT ![w] = [Blank EXCEPT !.run = r]]
    BY <1>2 DEF Claim, Oldest, TypeOK
  <2>2. pc'[w] = "claimed" /\ mem'[w] = [Blank EXCEPT !.run = r]
    BY <1>2, <2>1 DEF Claim, TypeOK
  <2>3. mem'[w].run = r /\ mem'[w].proc = NoProc /\ mem'[w].stage = "watching"
    BY <2>2 DEF Blank
  <2>. QED
    BY <2>1, <2>2, <2>3 DEF WorkerOK, Busy, Run, Child
<1>3. CASE Spawn(w)
  <2>1. PICK p \in Procs : mem' = [mem EXCEPT ![w].proc = p]
    BY <1>3 DEF Spawn
  <2>2. pc'[w] = "monitor" /\ mem'[w].run = mem[w].run /\ mem'[w].proc = p
    BY <1>3, <2>1 DEF Spawn, TypeOK, WorkerMem
  <2>. QED
    BY <1>3, <2>2 DEF Spawn, WorkerOK, Busy, Run, Child, Kept
<1>4. ASSUME Busy(w), NEW o \in {"success", "error", "cancelled"}, ToFinalize(w, o)
      PROVE  WorkerOK(w)'
  BY <1>4, ToFinalizeOK DEF Terminal
<1>5. CASE HookTimeout(w)
  BY <1>5, ToFinalizeOK DEF HookTimeout, Busy, Terminal
<1>6. CASE Timeout(w)
  <2>1. /\ pc'[w] = "finalize" /\ mem'[w].run = mem[w].run
        /\ mem'[w].proc = mem[w].proc /\ mem'[w].outcome = "timeout"
    BY <1>6 DEF Timeout, TypeOK, WorkerMem
  <2>2. Child(w) \in Procs /\ Run(w) \in RunId /\ status[Run(w)] # "absent"
    BY <1>6 DEF Timeout, WorkerOK, Busy
  <2>3. status'[Run(w)] # "absent" /\ TimedOut(w)'
    BY <1>6, <2>1, <2>2 DEF Timeout, Kept, TimedOut, IsSync, Run
  <2>. QED
    BY <2>1, <2>2, <2>3 DEF WorkerOK, Busy, Run, Child
<1>7. CASE PollCancel(w) \/ Escalate(w)
  <2>1. /\ pc'[w] = "monitor" /\ pc[w] = "monitor"
        /\ mem'[w].run = mem[w].run /\ mem'[w].proc = mem[w].proc
    BY <1>7 DEF PollCancel, Escalate, TypeOK, WorkerMem
  <2>. QED
    BY <2>1 DEF WorkerOK, Busy, Run, Child, Kept
<1>8. CASE Sweep(w) \/ Kill(w) \/ WriteHeartbeat(w)
  BY <1>8, WorkerOKKept DEF Sweep, Kill, WriteHeartbeat, workerVars, Standing
<1>9. CASE Finalize(w)
  <2>1. CASE AfterFinalize(w)
    BY <1>9, <2>1, AfterFinalizeOK DEF Finalize
  <2>2. CASE Alerting(w) /\ pc' = [pc EXCEPT ![w] = "alert"] /\ UNCHANGED mem
    <3>1. pc'[w] = "alert" /\ mem'[w] = mem[w] /\ mem[w].outcome \in Failed
      BY <2>2 DEF TypeOK, Alerting
    <3>2. Run(w) \in RunId /\ status[Run(w)] # "absent" /\ job'[Run(w)] = job[Run(w)]
      BY <1>9 DEF Finalize, WorkerOK, Busy, Kept
    <3>3. status'[Run(w)] = mem[w].outcome
      BY <1>9, <2>2, <3>2 DEF Finalize, SetStatus, Alerting, TypeOK
    <3>4. status'[Run(w)] \in Closed /\ status'[Run(w)] # "absent"
      BY <3>1, <3>3 DEF Failed, Closed, Terminal
    <3>5. Child(w) \in Procs <=> TimedOut(w)
      BY <1>9 DEF Finalize, WorkerOK
    <3>6. TimedOut(w)' <=> TimedOut(w)
      BY <3>1, <3>2 DEF TimedOut, IsSync, Run
    <3>. QED
      BY <3>1, <3>2, <3>4, <3>5, <3>6 DEF WorkerOK, Busy, Run, Child
  <2>. QED
    BY <1>9, <2>1, <2>2 DEF Finalize
<1>10. CASE FinalizeFails(w) \/ DispatchAlert(w)
  BY <1>10, AfterFinalizeOK DEF FinalizeFails, DispatchAlert
<1>11. CASE Loops(w)
  BY <1>11, LoopsOK
<1>12. CASE Crash(w)
  <2>1. pc'[w] = "down" /\ mem'[w] = Blank
    BY <1>12 DEF Crash, TypeOK
  <2>. QED
    BY <2>1 DEF WorkerOK, Busy, Child, Blank
<1>. QED
  BY <1>1, <1>2, <1>3, <1>4, <1>5, <1>6, <1>7, <1>8, <1>9, <1>10, <1>11, <1>12
  DEF WorkerNext, Reject, SpawnFails, ObserveExit, CollectRaises, FireFirstSuccess, Busy

\* No step puts the locals of any worker out of line.
LEMMA WorkersOKStep ==
  ASSUME TypeOK, Kept, WorkersOK, [Next]_vars
  PROVE  WorkersOK'
<1>1. ASSUME NEW w \in Workers, WorkerNext(w) PROVE WorkersOK'
  <2>1. ASSUME NEW v \in Workers, v # w PROVE pc'[v] = pc[v] /\ mem'[v] = mem[v]
    BY <1>1, <2>1 DEF TypeOK, WorkerNext, Start, Sweep, Claim, Reject, Spawn, SpawnFails,
      ObserveExit, CollectRaises, Timeout, HookTimeout, PollCancel, Escalate, Kill,
      WriteHeartbeat, Finalize, FinalizeFails, DispatchAlert, FireFirstSuccess, Crash,
      Loops, ToFinalize, AfterFinalize, workerVars, Standing
  <2>. QED
    BY <1>1, <2>1, WorkerNextOK, WorkerOKKept DEF WorkersOK
<1>2. CASE Standing
  BY <1>2, WorkerOKKept DEF WorkersOK, workerVars, Standing
<1>. QED
  BY <1>1, <1>2 DEF Next, RequestNext, ProcNext, TriggerCheck, ScheduleCheck, CheckFails, RequestLost, Enqueue, ControlRead,
    ControlWrite, StandaloneStart, RunEnds, CompleteRun, CompleteRunFails, ProcExits,
    PluginHeartbeat, Age, Prune, vars, workerVars, Standing

\* Every subprocess has the id of a row that exists.
LEMMA ProcsOKStep ==
  ASSUME TypeOK, TypeOK', Kept, RowsOK, WorkersOK, ProcsOK, [Next]_vars
  PROVE  ProcsOK'
<1>1. ASSUME \A p \in Procs : proc'[p].state = "free" \/ (proc[p].state # "free" /\ proc'[p].run = proc[p].run)
      PROVE  ProcsOK'
  BY <1>1 DEF ProcsOK, Kept
<1>2. ASSUME NEW w \in Workers, Spawn(w) PROVE ProcsOK'
  <2>1. Run(w) \in RunId /\ status'[Run(w)] # "absent"
    BY <1>2 DEF Spawn, WorkersOK, WorkerOK, Busy, Kept
  <2>2. PICK p \in Procs :
          proc' = [proc EXCEPT ![p] = [state |-> "running", run |-> Run(w), parent |-> "worker"]]
    BY <1>2 DEF Spawn
  <2>. QED
    BY <2>1, <2>2 DEF ProcsOK, Kept, TypeOK
<1>3. ASSUME NEW p \in Procs, NEW j \in SyncJobs, StandaloneStart(p, j) PROVE ProcsOK'
  <2>1. count + 1 \in RunId /\ status'[count + 1] # "absent"
    BY <1>3 DEF StandaloneStart, Insert, CanInsert, RunId, TypeOK
  <2>. QED
    BY <1>3, <2>1 DEF StandaloneStart, ProcsOK, Kept, TypeOK
<1>4. ASSUME NEW w \in Workers, WorkerNext(w), ~ Spawn(w) PROVE ProcsOK'
  <2>1. ASSUME NEW q, Reap(q) PROVE ProcsOK'
    BY <1>1, <2>1 DEF TypeOK, Reap, NoSubprocess, ProcsOK, Kept
  <2>2. ASSUME NEW q \in Procs, proc[q].state \in ProcAlive,
               \/ proc' = [proc EXCEPT ![q].state = "exit1"]
               \/ proc' = [proc EXCEPT ![q].parent = "none"]
        PROVE  ProcsOK'
    <3>1. ASSUME NEW p \in Procs
          PROVE  proc'[p].state = "free" \/ (proc[p].state # "free" /\ proc'[p].run = proc[p].run)
      <4>1. proc \in [Procs -> Subprocess]
        BY DEF TypeOK
      <4>. QED
        BY <2>2, <4>1 DEF ProcAlive, Subprocess
    <3>. QED
      BY <1>1, <3>1
  <2>3. CASE UNCHANGED proc
    BY <2>3 DEF ProcsOK, Kept
  <2>4. pc[w] = "monitor" => Child(w) \in Procs
    BY DEF WorkersOK, WorkerOK
  <2>5. Child(w) # NoProc => Child(w) \in Procs
    BY DEF TypeOK, WorkerMem, Child
  <2>6. CASE Timeout(w) \/ Escalate(w) \/ Kill(w)
    BY <2>2, <2>3, <2>4, <2>6 DEF Timeout, Escalate, Kill, Sigterm
  <2>7. CASE Crash(w)
    BY <2>1, <2>2, <2>3, <2>5, <2>7 DEF Crash
  <2>. QED
    BY <1>4, <2>1, <2>3, <2>6, <2>7 DEF WorkerNext, Start, Sweep, Claim, Reject, SpawnFails,
      ObserveExit, CollectRaises, HookTimeout, PollCancel, WriteHeartbeat, Finalize,
      FinalizeFails, DispatchAlert, FireFirstSuccess, workerVars, Standing
<1>5. ASSUME NEW p \in Procs, ProcNext(p), \A j \in SyncJobs : ~ StandaloneStart(p, j) PROVE ProcsOK'
  BY <1>1, <1>5 DEF TypeOK, ProcNext, RunEnds, CompleteRun, CompleteRunFails, ProcExits,
      PluginHeartbeat, Exits, Gone, NoSubprocess, Subprocess, ProcsOK, Kept
<1>6. CASE UNCHANGED proc
  BY <1>6 DEF ProcsOK, Kept
<1>. QED
  BY <1>2, <1>3, <1>4, <1>5, <1>6 DEF Next, RequestNext, TriggerCheck, ScheduleCheck, CheckFails, RequestLost, Enqueue,
    ControlRead, ControlWrite, Age, Prune, vars
-----------------------------------------------------------------------------
(* The safety invariants *)

\* What one worker's step leaves of the other workers.
LEMMA OthersKept ==
  ASSUME TypeOK, NEW w \in Workers, WorkerNext(w), NEW v \in Workers, v # w
  PROVE  /\ pc'[v] = pc[v] /\ mem'[v] = mem[v]
         /\ beat'[v] = beat[v] /\ tokens'[v] = tokens[v]
BY DEF TypeOK, WorkerNext, Start, Sweep, Claim, Reject, Spawn, SpawnFails,
  ObserveExit, CollectRaises, Timeout, HookTimeout, PollCancel, Escalate, Kill,
  WriteHeartbeat, Finalize, FinalizeFails, DispatchAlert, FireFirstSuccess, Crash,
  Loops, ToFinalize, AfterFinalize, ResetBeat, workerVars, Standing

\* A step that is no worker's.
LEMMA WorkersStand ==
  ASSUME [Next]_vars
  PROVE  (\E w \in Workers : WorkerNext(w)) \/ Standing
BY DEF Next, RequestNext, ProcNext, TriggerCheck, ScheduleCheck, CheckFails, RequestLost, Enqueue, ControlRead,
  ControlWrite, StandaloneStart, RunEnds, CompleteRun, CompleteRunFails, ProcExits,
  PluginHeartbeat, Age, Prune, vars, workerVars, Standing

\* No step leaves a token behind the execution it was issued for.
LEMMA TokenScopedStep ==
  ASSUME TypeOK, WorkersOK, TokenScoped, [Next]_vars
  PROVE  TokenScoped'
<1>. DEFINE Scoped(w) == \A r \in tokens[w] :
              Run(w) = r /\ pc[w] \in {"monitor", "finalize"} /\ mem[w].stage # "logged"
<1>1. ASSUME NEW w \in Workers, WorkerNext(w) PROVE Scoped(w)'
  <2>1. Scoped(w)
    BY DEF TokenScoped
  <2>2. CASE tokens'[w] = {}
    BY <2>2
  <2>3. CASE Finalize(w) \/ FinalizeFails(w) \/ Crash(w)
    <3>1. tokens'[w] = {}
      BY <2>1, <2>3 DEF TypeOK, Finalize, FinalizeFails, Crash, Revoked
    <3>. QED
      BY <3>1
  <2>4. CASE Start(w) \/ Claim(w) \/ DispatchAlert(w) \/ FireFirstSuccess(w)
    <3>1. tokens'[w] = {}
      BY <2>1, <2>4 DEF Start, Claim, DispatchAlert, FireFirstSuccess
    <3>. QED
      BY <3>1
  <2>5. CASE Reject(w) \/ SpawnFails(w) \/ Spawn(w)
    <3>1. mem[w].stage = "watching" /\ tokens[w] = {}
      BY <2>1, <2>5 DEF WorkersOK, WorkerOK, Reject, SpawnFails, Spawn
    <3>2. /\ pc'[w] \in {"monitor", "finalize"}
          /\ mem'[w].stage = mem[w].stage /\ mem'[w].run = mem[w].run
          /\ tokens'[w] \in {{}, {Run(w)}}
      BY <2>5, <3>1 DEF TypeOK, WorkerMem, Reject, SpawnFails, Spawn, ToFinalize
    <3>. QED
      BY <3>1, <3>2 DEF Run
  <2>6. CASE ObserveExit(w) \/ CollectRaises(w) \/ HookTimeout(w)
    <3>1. CASE Loops(w) /\ mem[w].stage = "logged"
      <4>1. tokens'[w] = {}
        BY <2>1, <2>6, <3>1 DEF ObserveExit, CollectRaises, HookTimeout
      <4>. QED
        BY <4>1
    <3>2. ASSUME NEW o, ToFinalize(w, o) PROVE Scoped(w)'
      <4>1. /\ pc'[w] = "finalize" /\ tokens'[w] = tokens[w]
            /\ mem'[w].stage = mem[w].stage /\ mem'[w].run = mem[w].run
        BY <2>6, <3>2 DEF TypeOK, WorkerMem, ObserveExit, CollectRaises, HookTimeout, ToFinalize
      <4>. QED
        BY <2>1, <4>1 DEF Run
    <3>. QED
      BY <2>6, <3>1, <3>2 DEF ObserveExit, CollectRaises, HookTimeout
  <2>7. CASE Timeout(w) \/ PollCancel(w) \/ Escalate(w)
    <3>1. /\ pc'[w] \in {"monitor", "finalize"} /\ tokens'[w] = tokens[w]
          /\ mem'[w].stage \in {"asked", "terminating"} /\ mem'[w].run = mem[w].run
      BY <2>7 DEF TypeOK, WorkerMem, Timeout, PollCancel, Escalate
    <3>. QED
      BY <2>1, <3>1 DEF Run
  <2>8. CASE Sweep(w) \/ Kill(w) \/ WriteHeartbeat(w)
    BY <2>1, <2>8 DEF Sweep, Kill, WriteHeartbeat, workerVars, Standing, Run
  <2>. QED
    BY <1>1, <2>3, <2>4, <2>5, <2>6, <2>7, <2>8 DEF WorkerNext
<1>2. ASSUME NEW w \in Workers, WorkerNext(w) PROVE TokenScoped'
  BY <1>1, <1>2, OthersKept DEF TokenScoped, Run
<1>3. CASE Standing
  BY <1>3 DEF TokenScoped, workerVars, Standing, Run
<1>. QED
  BY <1>2, <1>3, WorkersStand

\* No step alerts for a row that is not final, or reopens one.
LEMMA AlertOnlyFinishedStep ==
  ASSUME TypeOK, Kept, WorkersOK, AlertOnlyFinished, [Next]_vars
  PROVE  AlertOnlyFinished'
<1>1. ASSUME NEW w \in Workers, DispatchAlert(w) PROVE AlertOnlyFinished'
  <2>1. status[Run(w)] \in Closed
    BY <1>1 DEF DispatchAlert, WorkersOK, WorkerOK
  <2>. QED
    BY <1>1, <2>1 DEF DispatchAlert, AlertOnlyFinished, Kept, TypeOK
<1>2. CASE UNCHANGED alerts
  BY <1>2 DEF AlertOnlyFinished, Kept
<1>. QED
  BY <1>1, <1>2 DEF Next, RequestNext, ProcNext, WorkerNext, TriggerCheck, ScheduleCheck, CheckFails, RequestLost, Enqueue,
    ControlRead, ControlWrite, StandaloneStart, RunEnds, CompleteRun, CompleteRunFails, ProcExits,
    PluginHeartbeat, Age, Prune, vars, Start, Sweep, Claim, Reject, Spawn, SpawnFails,
    ObserveExit, CollectRaises, Timeout, HookTimeout, PollCancel, Escalate, Kill,
    WriteHeartbeat, Finalize, FinalizeFails, FireFirstSuccess, Crash

\* No step parts a live subprocess from the worker that waits for it.
LEMMA NoAbandonedChildStep ==
  ASSUME TypeOK, Kept, WorkersOK, NoAbandonedChild, [Next]_vars
  PROVE  NoAbandonedChild'
<1>. DEFINE Live(p)   == proc[p].state \in ProcAlive /\ proc[p].parent = "worker"
            Minds(w, p) == /\ Child(w) = p /\ Run(w) = proc[p].run
                           /\ pc[w] \in {"monitor", "finalize", "alert"}
<1>1. ASSUME NEW w \in Workers, WorkerNext(w), NEW p \in Procs, Live(p)'
      PROVE  \E v \in Workers : Minds(v, p)'
  <2>1. CASE Spawn(w)
    <3>1. PICK q \in Procs :
            /\ proc' = [proc EXCEPT ![q] = [state |-> "running", run |-> Run(w), parent |-> "worker"]]
            /\ mem' = [mem EXCEPT ![w].proc = q]
      BY <2>1 DEF Spawn
    <3>2. /\ pc'[w] = "monitor" /\ mem'[w].proc = q /\ mem'[w].run = mem[w].run
          /\ proc'[q].run = Run(w)
      BY <2>1, <3>1 DEF Spawn, TypeOK, WorkerMem
    <3>3. CASE p = q
      BY <3>2, <3>3 DEF Child, Run
    <3>4. CASE p # q
      <4>1. proc'[p] = proc[p]
        BY <3>1, <3>4 DEF TypeOK
      <4>2. PICK v \in Workers : Minds(v, p)
        BY <1>1, <4>1 DEF NoAbandonedChild
      <4>3. v # w
        BY <2>1, <4>2 DEF Spawn
      <4>. QED
        BY <1>1, <4>1, <4>2, <4>3, OthersKept DEF Child, Run
    <3>. QED
      BY <3>3, <3>4
  <2>2. CASE ~ Spawn(w)
    <3>1. Live(p) /\ proc'[p].run = proc[p].run
      <4>1. ASSUME NEW q, Reap(q) PROVE Live(p) /\ proc'[p].run = proc[p].run
        BY <1>1, <4>1 DEF TypeOK, Reap, NoSubprocess, ProcAlive
      <4>2. ASSUME NEW q \in Procs, proc[q].state \in ProcAlive,
                   \/ proc' = [proc EXCEPT ![q].state = "exit1"]
                   \/ proc' = [proc EXCEPT ![q].parent = "none"]
            PROVE  Live(p) /\ proc'[p].run = proc[p].run
        <5>1. proc \in [Procs -> Subprocess]
          BY DEF TypeOK
        <5>. QED
          BY <1>1, <4>2, <5>1 DEF ProcAlive, Subprocess
      <4>3. CASE UNCHANGED proc
        BY <1>1, <4>3
      <4>4. pc[w] = "monitor" => Child(w) \in Procs
        BY DEF WorkersOK, WorkerOK
      <4>5. Child(w) # NoProc => Child(w) \in Procs
        BY DEF TypeOK, WorkerMem, Child
      <4>6. CASE Timeout(w) \/ Escalate(w) \/ Kill(w)
        BY <4>2, <4>3, <4>4, <4>6 DEF Timeout, Escalate, Kill, Sigterm
      <4>7. CASE Crash(w)
        BY <4>1, <4>2, <4>3, <4>5, <4>7 DEF Crash
      <4>. QED
        BY <1>1, <2>2, <4>1, <4>3, <4>6, <4>7 DEF WorkerNext, Start, Sweep, Claim, Reject,
          SpawnFails, ObserveExit, CollectRaises, HookTimeout, PollCancel, WriteHeartbeat,
          Finalize, FinalizeFails, DispatchAlert, FireFirstSuccess, workerVars, Standing
    <3>2. PICK v \in Workers : Minds(v, p)
      BY <3>1 DEF NoAbandonedChild
    <3>3. CASE v # w
      BY <1>1, <3>1, <3>2, <3>3, OthersKept DEF Child, Run
    <3>4. CASE v = w
      <4>1. Child(w) = p /\ pc[w] \in {"monitor", "finalize", "alert"} /\ Run(w) = proc[p].run
        BY <3>2, <3>4
      <4>2. CASE Finalize(w) \/ FinalizeFails(w) \/ DispatchAlert(w)
        <5>1. TimedOut(w) /\ ~ Succeeded(w)
          BY <4>1, <4>2 DEF WorkersOK, WorkerOK, Finalize, FinalizeFails, DispatchAlert,
            TimedOut, Succeeded
        <5>2. /\ pc'[w] \in {"monitor", "alert"}
              /\ mem'[w].proc = mem[w].proc /\ mem'[w].run = mem[w].run
          BY <4>2, <5>1 DEF Finalize, FinalizeFails, DispatchAlert, AfterFinalize, TypeOK, WorkerMem
        <5>. QED
          BY <3>1, <4>1, <5>2 DEF Child, Run
      <4>3. CASE Timeout(w) \/ PollCancel(w) \/ Escalate(w)
        <5>1. /\ pc'[w] \in {"monitor", "finalize"}
              /\ mem'[w].proc = mem[w].proc /\ mem'[w].run = mem[w].run
          BY <4>3 DEF Timeout, PollCancel, Escalate, TypeOK, WorkerMem
        <5>. QED
          BY <3>1, <4>1, <5>1 DEF Child, Run
      <4>4. CASE Standing
        BY <3>1, <4>1, <4>4 DEF Child, Run, workerVars, Standing
      <4>5. CASE ObserveExit(w) \/ CollectRaises(w) \/ HookTimeout(w)
        <5>1. proc'[p].state = "free"
          BY <4>1, <4>5 DEF ObserveExit, CollectRaises, HookTimeout, Reap, NoSubprocess, TypeOK, Child
        <5>. QED
          BY <1>1, <5>1 DEF ProcAlive
      <4>6. CASE Crash(w)
        <5>1. p # NoProc
          BY ProcsAssumption
        <5>2. proc'[p].state = "free" \/ proc'[p].parent = "none"
          BY <4>1, <4>6, <5>1 DEF Crash, Reap, NoSubprocess, TypeOK, Child, Subprocess
        <5>. QED
          BY <1>1, <5>2 DEF ProcAlive
      <4>7. ~ (Start(w) \/ Claim(w) \/ Reject(w) \/ SpawnFails(w) \/ FireFirstSuccess(w))
        BY <4>1 DEF Start, Claim, Reject, SpawnFails, FireFirstSuccess
      <4>. QED
        BY <1>1, <2>2, <4>2, <4>3, <4>4, <4>5, <4>6, <4>7
        DEF WorkerNext, Sweep, Kill, WriteHeartbeat, workerVars, Standing
    <3>. QED
      BY <3>3, <3>4
  <2>. QED
    BY <2>1, <2>2
<1>2. ASSUME NEW q \in Procs, ProcNext(q), NEW p \in Procs, Live(p)'
      PROVE  \E v \in Workers : Minds(v, p)'
  <2>1. Standing
    BY <1>2 DEF ProcNext, StandaloneStart, RunEnds, CompleteRun, CompleteRunFails, ProcExits,
      PluginHeartbeat, workerVars, Standing
  <2>2. CASE p # q
    <3>1. proc'[p] = proc[p]
      BY <1>2, <2>2 DEF TypeOK, ProcNext, StandaloneStart, RunEnds, CompleteRun, CompleteRunFails,
        ProcExits, PluginHeartbeat, Exits, Gone
    <3>. QED
      BY <1>2, <2>1, <3>1 DEF NoAbandonedChild, Child, Run, workerVars, Standing
  <2>3. CASE p = q
    <3>1. ASSUME NEW s \in {"exit0", "exit1"}, Exits(q, s) PROVE FALSE
      BY <1>2, <2>3, <3>1 DEF TypeOK, Exits, Gone, NoSubprocess, Subprocess, ProcAlive
    <3>2. ASSUME NEW j \in SyncJobs, StandaloneStart(q, j) PROVE FALSE
      BY <1>2, <2>3, <3>2 DEF TypeOK, StandaloneStart
    <3>3. Live(p) /\ proc'[p].run = proc[p].run
      BY <1>2, <2>3, <3>1, <3>2 DEF TypeOK, ProcNext, RunEnds, CompleteRun, CompleteRunFails,
        ProcExits, PluginHeartbeat, Subprocess, ProcAlive
    <3>. QED
      BY <2>1, <3>3 DEF NoAbandonedChild, Child, Run, workerVars, Standing
  <2>. QED
    BY <2>2, <2>3
<1>3. CASE Standing /\ UNCHANGED proc
  BY <1>3 DEF NoAbandonedChild, Child, Run, workerVars, Standing
<1>. QED
  BY <1>1, <1>2, <1>3 DEF NoAbandonedChild, Next, RequestNext, TriggerCheck, ScheduleCheck, CheckFails, RequestLost, Enqueue,
    ControlRead, ControlWrite, Age, Prune, vars, workerVars, Standing
\* A row gets older by a heartbeat interval that passes, and younger otherwise.
LEMMA OnlyAgeAges ==
  ASSUME TypeOK, [Next]_vars, \A q \in RunId : ~ Age(q), NEW r \in RunId
  PROVE  heartbeat'[r] = heartbeat[r] \/ heartbeat'[r] = 0
<1>. DEFINE Younger == heartbeat'[r] = heartbeat[r] \/ heartbeat'[r] = 0
<1>1. ASSUME NEW q, heartbeat' = [heartbeat EXCEPT ![q] = 0] PROVE Younger
  BY <1>1 DEF TypeOK
<1>2. CASE UNCHANGED heartbeat
  BY <1>2
<1>3. ASSUME NEW w \in Workers, WorkerNext(w) PROVE Younger
  BY <1>1, <1>2, <1>3 DEF WorkerNext, Start, Sweep, SweepRows, Claim, Reject, Spawn,
    SpawnFails, ObserveExit, CollectRaises, Timeout, HookTimeout, PollCancel, Escalate, Kill,
    WriteHeartbeat, Finalize, SetStatus, FinalizeFails, DispatchAlert, FireFirstSuccess, Insert,
    Crash, rowVars
<1>4. ASSUME NEW p \in Procs, ProcNext(p) PROVE Younger
  BY <1>1, <1>2, <1>4 DEF ProcNext, StandaloneStart, RunEnds, CompleteRun, CompleteRunFails,
    ProcExits, PluginHeartbeat, Insert, SetStatus, rowVars
<1>5. CASE RequestNext
  BY <1>2, <1>5 DEF RequestNext, TriggerCheck, ScheduleCheck, CheckFails, RequestLost, Enqueue,
    ControlRead, ControlWrite, Insert, SetStatus, Newest, RunsOf, rowVars
<1>. QED
  BY <1>2, <1>3, <1>4, <1>5 DEF Next, Prune, SetStatus, vars

\* No step lets the row of a worker at work grow older than its missed heartbeats.
LEMMA BeatsOKStep ==
  ASSUME TypeOK, TypeOK', Kept, WorkersOK, BeatsOK, [Next]_vars
  PROVE  BeatsOK'
<1>. DEFINE Beats(w) ==
       /\ pc[w] = "claimed" => heartbeat[Run(w)] <= Owed(w)
       /\ Heartbeats(w, Run(w)) => heartbeat[Run(w)] <= beat[w].missed + 1 + Owed(w)
<1>1. SUFFICES ASSUME NEW v \in Workers PROVE Beats(v)'
  BY DEF BeatsOK
<1>2. Beats(v)
  BY DEF BeatsOK
<1>3. /\ \A r \in RunId : heartbeat[r] \in Nat /\ heartbeat'[r] \in 0 .. StaleBeats
      /\ beat[v].missed \in Nat /\ beat[v].due \in BOOLEAN
      /\ beat'[v].missed \in Nat /\ beat'[v].due \in BOOLEAN /\ StaleBeats \in Nat
  BY DEF TypeOK, Heartbeat, Beat
<1>4. pc[v] \in {"claimed", "monitor"} => Run(v) \in RunId /\ job'[Run(v)] = job[Run(v)]
  BY DEF WorkersOK, WorkerOK, Busy, Kept
<1>5. ASSUME pc'[v] = pc[v], mem'[v] = mem[v]
      PROVE  /\ Run(v)' = Run(v)
             /\ Heartbeats(v, Run(v))' => Heartbeats(v, Run(v))
             /\ Times(v, Run(v))' => Times(v, Run(v))
  BY <1>4, <1>5 DEF Run, Heartbeats, Monitors, IsSync, Times
<1>6. ASSUME pc'[v] = pc[v], mem'[v] = mem[v], beat'[v] = beat[v],
             \A r \in RunId : heartbeat'[r] = heartbeat[r] \/ heartbeat'[r] = 0
      PROVE  Beats(v)'
  <2>1. Owed(v)' = Owed(v) /\ Owed(v) \in Nat
    BY <1>6 DEF Owed
  <2>2. CASE pc[v] \in {"claimed", "monitor"}
    <3>1. Run(v)' = Run(v) /\ heartbeat'[Run(v)] <= heartbeat[Run(v)]
      BY <1>3, <1>4, <1>5, <1>6, <2>2
    <3>. QED
      BY <1>2, <1>3, <1>4, <1>5, <1>6, <2>1, <2>2, <3>1
  <2>3. CASE pc[v] \notin {"claimed", "monitor"}
    BY <1>6, <2>3 DEF Heartbeats, Monitors
  <2>. QED
    BY <2>2, <2>3
<1>7. ASSUME NEW q \in RunId, Age(q) PROVE Beats(v)'
  <2>1. pc'[v] = pc[v] /\ mem'[v] = mem[v] /\ Run(v)' = Run(v)
    BY <1>7 DEF Age, Run
  <2>2. ASSUME Times(v, q) PROVE Beats(v)'
    <3>1. Run(v) = q
      BY <2>2 DEF Times, Heartbeats, Monitors
    <3>2. Owed(v) = 0 /\ Owed(v)' = 1 /\ beat'[v].missed = beat[v].missed
      BY <1>7, <2>2 DEF Age, Owed, TypeOK, Beat
    <3>3. heartbeat'[q] <= heartbeat[q] + 1
      BY <1>3, <1>7 DEF Age, TypeOK
    <3>. QED
      BY <1>2, <1>3, <1>5, <2>1, <3>1, <3>2, <3>3
  <2>3. ASSUME ~ Times(v, q) PROVE Beats(v)'
    <3>1. beat'[v] = beat[v]
      BY <1>7, <2>3 DEF Age, TypeOK
    <3>2. CASE Run(v) # q
      <4>1. Run(v) \in RunId => heartbeat'[Run(v)] = heartbeat[Run(v)]
        BY <1>7, <3>2 DEF Age, TypeOK
      <4>2. Owed(v)' = Owed(v)
        BY <3>1 DEF Owed
      <4>3. CASE pc[v] \in {"claimed", "monitor"}
        BY <1>2, <1>4, <1>5, <2>1, <3>1, <4>1, <4>2, <4>3
      <4>4. CASE pc[v] \notin {"claimed", "monitor"}
        BY <2>1, <4>4 DEF Heartbeats, Monitors
      <4>. QED
        BY <4>3, <4>4
    <3>3. CASE Run(v) = q
      <4>1. pc'[v] # "claimed" /\ ~ Heartbeats(v, Run(v))'
        BY <1>5, <2>1, <2>3, <3>3 DEF Times
      <4>. QED
        BY <4>1
    <3>. QED
      BY <3>2, <3>3
  <2>. QED
    BY <2>2, <2>3
<1>8. ASSUME \A q \in RunId : ~ Age(q) PROVE Beats(v)'
  <2>1. \A r \in RunId : heartbeat'[r] = heartbeat[r] \/ heartbeat'[r] = 0
    BY <1>8, OnlyAgeAges
  <2>2. CASE UNCHANGED workerVars
    BY <1>6, <2>1, <2>2 DEF workerVars
  <2>3. ASSUME NEW w \in Workers, w # v, WorkerNext(w) PROVE Beats(v)'
    BY <1>6, <2>1, <2>3, OthersKept
  <2>4. CASE Claim(v)
    <3>1. PICK q \in RunId : /\ heartbeat' = [heartbeat EXCEPT ![q] = 0]
                             /\ mem' = [mem EXCEPT ![v] = [Blank EXCEPT !.run = q]]
      BY <2>4 DEF Claim, Oldest
    <3>2. Run(v)' = q /\ heartbeat'[q] = 0 /\ pc'[v] = "claimed"
      BY <2>4, <3>1 DEF Claim, TypeOK, Blank, Run
    <3>3. Owed(v)' \in Nat
      BY DEF Owed
    <3>. QED
      BY <3>2, <3>3 DEF Heartbeats, Monitors
  <2>5. CASE Spawn(v)
    <3>1. /\ pc[v] = "claimed" /\ pc'[v] = "monitor" /\ mem'[v].run = mem[v].run
          /\ beat'[v] = NoBeat /\ UNCHANGED heartbeat
      BY <2>5 DEF Spawn, ResetBeat, TypeOK, WorkerMem, rowVars
    <3>2. Run(v)' = Run(v) /\ beat'[v].missed = 0 /\ Owed(v)' = 0 /\ Owed(v) \in {0, 1}
      BY <3>1 DEF Run, NoBeat, Owed
    <3>3. heartbeat[Run(v)] <= 1
      BY <1>2, <1>3, <1>4, <3>1, <3>2
    <3>. QED
      BY <3>1, <3>2, <3>3
  <2>6. CASE PollCancel(v) \/ Escalate(v)
    <3>1. /\ pc[v] = "monitor" /\ pc'[v] = "monitor" /\ mem'[v].run = mem[v].run
          /\ beat'[v] = beat[v] /\ UNCHANGED heartbeat
          /\ mem[v].stage # "logged" /\ IsSync(Run(v))
      BY <2>6 DEF PollCancel, Escalate, TypeOK, WorkerMem, rowVars
    <3>2. Run(v)' = Run(v) /\ Owed(v)' = Owed(v) /\ Heartbeats(v, Run(v))
      BY <3>1 DEF Run, Owed, Heartbeats, Monitors
    <3>. QED
      BY <1>2, <3>1, <3>2
  <2>7. CASE WriteHeartbeat(v)
    <3>1. pc'[v] = pc[v] /\ mem'[v] = mem[v] /\ Run(v)' = Run(v) /\ pc[v] = "monitor"
      BY <2>7 DEF WriteHeartbeat, Heartbeats, Monitors, Run
    <3>2. CASE heartbeat' = [heartbeat EXCEPT ![Run(v)] = 0]
      <4>1. heartbeat'[Run(v)] = 0
        BY <1>4, <3>1, <3>2 DEF TypeOK
      <4>2. Owed(v)' \in Nat
        BY DEF Owed
      <4>. QED
        BY <1>3, <3>1, <4>1, <4>2
    <3>3. CASE /\ UNCHANGED heartbeat
               /\ beat' = [beat EXCEPT ![v].due = FALSE,
                             ![v].missed = IF @ + 1 < StaleBeats THEN @ + 1 ELSE @]
      <4>1. beat'[v].due = FALSE /\ beat[v].due = TRUE /\ Heartbeats(v, Run(v))
        BY <2>7, <3>3 DEF WriteHeartbeat, TypeOK, Beat
      <4>2. beat'[v].missed =
              IF beat[v].missed + 1 < StaleBeats THEN beat[v].missed + 1 ELSE beat[v].missed
        BY <3>3 DEF TypeOK, Beat
      <4>3. heartbeat[Run(v)] <= beat[v].missed + 2 /\ heartbeat[Run(v)] <= StaleBeats
        BY <1>2, <1>3, <1>4, <3>1, <3>3, <4>1 DEF Owed
      <4>4. heartbeat[Run(v)] <= beat'[v].missed + 1 /\ Owed(v)' = 0
        BY <1>3, <1>4, <3>1, <4>1, <4>2, <4>3 DEF Owed
      <4>. QED
        BY <1>3, <1>4, <3>1, <3>3, <4>4
    <3>. QED
      BY <2>7, <3>2, <3>3 DEF WriteHeartbeat
  <2>8. ASSUME AfterFinalize(v) PROVE Beats(v)'
    <3>1. pc'[v] = "monitor" => mem'[v].stage = "logged"
      BY <2>8 DEF AfterFinalize, Loops, TypeOK, WorkerMem
    <3>2. pc'[v] # "claimed"
      BY <2>8 DEF AfterFinalize, Loops, TypeOK
    <3>. QED
      BY <3>1, <3>2 DEF Heartbeats, Monitors
  <2>9. ASSUME pc'[v] \in {"idle", "down", "finalize", "alert"} PROVE Beats(v)'
    BY <2>9 DEF Heartbeats, Monitors
  <2>10. ASSUME WorkerNext(v) PROVE Beats(v)'
    BY <2>2, <2>4, <2>5, <2>6, <2>7, <2>8, <2>9, <2>10 DEF TypeOK, WorkerNext, Start, Sweep,
      Reject, SpawnFails, ObserveExit, CollectRaises, Timeout, HookTimeout, Kill, Finalize,
      FinalizeFails, DispatchAlert, FireFirstSuccess, Crash, Loops, ToFinalize
  <2>11. (\E w \in Workers : WorkerNext(w)) \/ UNCHANGED workerVars
    BY <1>8 DEF Next, RequestNext, ProcNext, TriggerCheck, ScheduleCheck, CheckFails, RequestLost,
      Enqueue, ControlRead, ControlWrite, StandaloneStart, RunEnds, CompleteRun,
      CompleteRunFails, ProcExits, PluginHeartbeat, Prune, vars, workerVars
  <2>. QED
    BY <2>2, <2>3, <2>10, <2>11
<1>. QED
  BY <1>7, <1>8

\* The margin the invariant leaves: a stale row at work has missed all but two beats.
LEMMA BeatsTell == TypeOK /\ WorkersOK /\ BeatsOK => StaleOnlyIfMissed
<1> SUFFICES ASSUME TypeOK, WorkersOK, BeatsOK, NEW w \in Workers, NEW r \in RunId,
                    Works(w, r), ~ Fresh(heartbeat[r])
             PROVE  beat[w].missed + 2 >= StaleBeats
  BY DEF StaleOnlyIfMissed
<1>1. /\ heartbeat[r] \in 0 .. StaleBeats /\ heartbeat[r] >= StaleBeats
      /\ StaleBeats \in Nat /\ beat[w].missed \in Nat
  BY DEF TypeOK, Heartbeat, Beat, Fresh
<1>2. Run(w) = r /\ Owed(w) \in {0, 1}
  BY DEF Works, Owed
<1>3. CASE pc[w] = "claimed"
  BY <1>1, <1>2, <1>3 DEF BeatsOK
<1>4. CASE Heartbeats(w, r)
  BY <1>1, <1>2, <1>4 DEF BeatsOK
<1>. QED
  BY <1>2, <1>3, <1>4 DEF Works, Heartbeats, Monitors

-----------------------------------------------------------------------------
(* The inductive invariant *)

\* The inductive invariant holds at first.
LEMMA InductiveInit == Init => Inductive
<1>. SUFFICES ASSUME Init PROVE Inductive
  OBVIOUS
<1>1. TypeOK
  BY TypeInit
<1>2. RowsOK
  BY DEF Init, RowsOK, RunId
<1>3. WorkersOK /\ TokenScoped /\ BeatsOK
  BY DEF Init, WorkersOK, WorkerOK, Busy, Child, Blank, TokenScoped, BeatsOK, Heartbeats, Monitors
<1>4. ProcsOK /\ NoAbandonedChild /\ AlertOnlyFinished
  BY DEF Init, ProcsOK, NoSubprocess, NoAbandonedChild, ProcAlive, AlertOnlyFinished
<1>. QED
  BY <1>1, <1>2, <1>3, <1>4 DEF Inductive

\* Every step preserves the inductive invariant, writes the rows in one of the
\* named ways, and keeps rows and their jobs.
LEMMA InductiveStep == Inductive /\ [Next]_vars => Inductive' /\ RowStep /\ Kept
<1>. SUFFICES ASSUME Inductive, [Next]_vars PROVE Inductive' /\ RowStep /\ Kept
  OBVIOUS
<1>. USE DEF Inductive
<1>1. TypeOK'
  BY TypeStep
<1>2. RowStep
  BY NextRows
<1>3. RowsOK'
  BY <1>1, <1>2, RowsOKStep
<1>4. Kept
  BY <1>1, <1>2, RowsKept DEF Kept
<1>5. WorkersOK' /\ ProcsOK'
  BY <1>1, <1>4, WorkersOKStep, ProcsOKStep
<1>6. NoAbandonedChild' /\ TokenScoped' /\ AlertOnlyFinished' /\ BeatsOK'
  BY <1>1, <1>4, NoAbandonedChildStep, TokenScopedStep, AlertOnlyFinishedStep, BeatsOKStep
<1>. QED
  BY <1>1, <1>2, <1>3, <1>4, <1>5, <1>6

\* The inductive invariant holds throughout every behaviour: the theorems below
\* read their properties off it.
THEOREM InductiveInvariance == Spec => []Inductive
BY InductiveInit, InductiveStep, PTL DEF Spec
-----------------------------------------------------------------------------
(* The theorems *)

\* Every variable keeps its type.
THEOREM TypeCorrectness == Spec => []TypeOK
BY InductiveInvariance, PTL DEF Inductive

\* The jobs-worker never leaves a live subprocess behind: whatever it records
\* for a run, it stays with the process until it is gone.
THEOREM ChildrenAreMinded == Spec => []NoAbandonedChild
BY InductiveInvariance, PTL DEF Inductive

\* A broker token is live only while the run it was issued for executes.
THEOREM TokensAreScoped == Spec => []TokenScoped
BY InductiveInvariance, PTL DEF Inductive

\* Failure webhooks speak of final rows only.
THEOREM AlertsAreTrue == Spec => []AlertOnlyFinished
BY InductiveInvariance, PTL DEF Inductive

\* Nobody has ground to take a worker at work for dead before its heartbeats failed
\* for all but two of the intervals in a row.
THEOREM StaleRunsWereMissed == Spec => []StaleOnlyIfMissed
BY InductiveInvariance, BeatsTell, PTL DEF Inductive

\* Whatever else happens to a final row, it is not run again.
THEOREM FinishedForGood == Spec => FinishedStaysFinished
<1>1. Inductive /\ [Next]_vars => [\A r \in RunId : status[r] \in Closed => status'[r] \in Closed]_vars
  BY InductiveStep DEF Kept
<1>. QED
  BY <1>1, InductiveInvariance, PTL DEF Spec, FinishedStaysFinished

\* Requests and sweeps, which decide on what they read earlier or on a
\* heartbeat, never overwrite an outcome.
THEOREM OutcomesAreTheExecutors == Spec => OnlyExecutorRewritesFinished
<1>. DEFINE Rewrites ==
       \A r \in RunId :
         status[r] \in Terminal /\ status'[r] \notin {status[r], "deleted"} =>
           \/ \E w \in Workers : Executes(w, r)
           \/ \E p \in Procs : proc[p].run = r /\ proc[p].state \in ProcAlive
<1>1. Inductive /\ [Next]_vars => Rewrites
  <2> SUFFICES ASSUME Inductive, [Next]_vars PROVE Rewrites
    OBVIOUS
  <2>1. RowStep /\ TypeOK /\ RowsOK
    BY InductiveStep DEF Inductive
  <2>2. CASE Inserted
    BY <2>1, <2>2 DEF Inserted, Insert, CanInsert, TypeOK, RowsOK, RunId, Terminal
  <2>3. CASE Moved
    BY <2>1, <2>3 DEF Moved, Moves, TypeOK, Terminal
  <2>4. CASE Resolved
    BY <2>4 DEF Resolved, Terminal, NonTerminal, InFlight
  <2>5. CASE Recorded
    BY <2>1, <2>5 DEF Recorded, Executed, TypeOK
  <2>6. CASE Pruned
    BY <2>1, <2>6 DEF Pruned, TypeOK
  <2>. QED
    BY <2>1, <2>2, <2>3, <2>4, <2>5, <2>6 DEF RowStep
<1>2. Inductive /\ [Next]_vars => [Rewrites]_vars
  BY <1>1
<1>. QED
  BY <1>2, InductiveInvariance, PTL DEF Spec, OnlyExecutorRewritesFinished

\* The statuses of a row, as requests, the scheduler, workers and subprocesses
\* write them, go through the lifecycle of one run and no other way.
THEOREM Refinement == Spec => ImplementsLifecycle
<1>. DEFINE phase == [r \in RunId |-> PhaseOf(status[r])]
<1>1. Init => Lifecycle!Init
  BY DEF Init, Lifecycle!Init, PhaseOf, Closed, Terminal
<1>2. Inductive /\ [Next]_vars => [Lifecycle!Next]_phase
  <2> SUFFICES ASSUME Inductive, [Next]_vars, phase' # phase PROVE Lifecycle!Next
    OBVIOUS
  <2>1. RowStep /\ TypeOK /\ TypeOK' /\ RowsOK
    BY InductiveStep DEF Inductive
  <2>2. \A r \in RunId : phase'[r] \in Lifecycle!Phase
    BY <2>1 DEF TypeOK, PhaseOf, Status, NonTerminal, InFlight, Lifecycle!Phase
  <2>3. ASSUME NEW r \in RunId, NEW s, status' = [status EXCEPT ![r] = s]
        PROVE  phase' = [phase EXCEPT ![r] = PhaseOf(s)]
    BY <2>1, <2>3 DEF TypeOK
  <2>4. CASE Inserted
    <3>1. PICK s \in {"queued", "running", "skipped"} : status' = [status EXCEPT ![count + 1] = s]
      BY <2>4 DEF Inserted, Insert
    <3>2. count + 1 \in RunId /\ status[count + 1] = "absent"
      BY <2>1, <2>4 DEF Inserted, Insert, CanInsert, TypeOK, RowsOK, RunId
    <3>3. phase[count + 1] = "new"
      BY <3>2 DEF PhaseOf, Closed, Terminal
    <3>4. PhaseOf(s) \in {"waiting", "active", "closed"}
      BY DEF PhaseOf, Closed, Terminal
    <3>. QED
      BY <2>3, <3>1, <3>2, <3>3, <3>4 DEF Lifecycle!Next, Lifecycle!Submit, Lifecycle!Move
  <2>5. CASE Moved
    <3>1. PICK r \in RunId, m \in Moves : status[r] = m[1] /\ status' = [status EXCEPT ![r] = m[2]]
      BY <2>5 DEF Moved
    <3>2. phase' = [phase EXCEPT ![r] = PhaseOf(m[2])] /\ phase[r] = PhaseOf(m[1])
      BY <2>3, <3>1
    <3>3. <<PhaseOf(m[1]), PhaseOf(m[2])>> \in
            {<<"waiting", "active">>, <<"waiting", "closing">>, <<"waiting", "held">>,
             <<"active", "closing">>, <<"active", "held">>, <<"held", "waiting">>}
      BY DEF Moves, PhaseOf, Closed, Terminal
    <3>. QED
      BY <3>1, <3>2, <3>3 DEF Lifecycle!Next, Lifecycle!Begin, Lifecycle!Hold, Lifecycle!Release,
        Lifecycle!Stop, Lifecycle!Move
  <2>6. CASE Resolved \/ Recorded \/ Pruned
    <3>1. ASSUME NEW r \in RunId, phase'[r] # phase[r]
          PROVE  phase[r] \in {"waiting", "active", "held", "closing"} /\ phase'[r] = "closed"
      BY <2>1, <2>6, <3>1 DEF Resolved, Recorded, Pruned, TypeOK, PhaseOf, Status, NonTerminal,
        InFlight, Closed, Terminal
    <3>2. phase' \in [RunId -> Lifecycle!Phase]
      BY <2>2
    <3>. QED
      BY <3>1, <3>2 DEF Lifecycle!Next, Lifecycle!Close
  <2>. QED
    BY <2>1, <2>4, <2>5, <2>6 DEF RowStep
<1>. QED
  BY <1>1, <1>2, InductiveInvariance, PTL DEF Spec, ImplementsLifecycle, Lifecycle!Spec
-----------------------------------------------------------------------------
(* Where runs are not resumed *)

\* What a claim must not find in the queue: a run some worker is busy with.
NoneRequeued == \A w \in Workers : Busy(w) => status[Run(w)] # "queued"

\* Where nobody resumes runs, no row becomes queued again: a claim is for once.
LEMMA NoRequeue ==
  ASSUME "resume" \notin Ops, TypeOK, RowStep, NEW r \in RunId,
         status[r] \notin {"absent", "queued"}, RowsOK
  PROVE  status'[r] # "queued"
<1>1. CASE Inserted
  BY <1>1 DEF Inserted, Insert, CanInsert, TypeOK, RowsOK, RunId
<1>2. CASE Moved
  <2>1. PICK q \in RunId, m \in Moves : status[q] = m[1] /\ status' = [status EXCEPT ![q] = m[2]]
    BY <1>2 DEF Moved
  <2>2. m[2] # "queued"
    BY DEF Moves
  <2>. QED
    BY <2>1, <2>2 DEF TypeOK
<1>3. CASE Resolved \/ Recorded \/ Pruned
  BY <1>3 DEF Resolved, Recorded, Pruned, TypeOK, Terminal
<1>. QED
  BY <1>1, <1>2, <1>3 DEF RowStep

\* A worker that stays busy other than by claiming keeps its run.
LEMMA BusyRun ==
  ASSUME TypeOK, NEW w \in Workers, WorkerNext(w), ~ Claim(w), Busy(w)'
  PROVE  Busy(w) /\ Run(w)' = Run(w)
<1>1. CASE Standing
  BY <1>1 DEF workerVars, Standing, Busy, Run
<1>2. ASSUME NEW o, ToFinalize(w, o), Busy(w) PROVE Busy(w) /\ Run(w)' = Run(w)
  BY <1>2 DEF TypeOK, WorkerMem, ToFinalize, Run
<1>3. ASSUME Loops(w) PROVE FALSE
  BY <1>3 DEF TypeOK, Loops, Busy
<1>4. CASE Start(w) \/ Crash(w)
  BY <1>4 DEF TypeOK, Start, Crash, Busy
<1>5. CASE Spawn(w) \/ Timeout(w) \/ PollCancel(w) \/ Escalate(w)
  BY <1>5 DEF TypeOK, WorkerMem, Spawn, Timeout, PollCancel, Escalate, Busy, Run
<1>6. ASSUME AfterFinalize(w), Busy(w) PROVE Busy(w) /\ Run(w)' = Run(w)
  BY <1>3, <1>6 DEF TypeOK, WorkerMem, AfterFinalize, Run
<1>7. CASE Finalize(w) \/ FinalizeFails(w) \/ DispatchAlert(w)
  BY <1>6, <1>7 DEF Finalize, FinalizeFails, DispatchAlert, Busy, Run
<1>. QED
  BY <1>1, <1>2, <1>3, <1>4, <1>5, <1>7 DEF WorkerNext, Sweep, Reject, SpawnFails, ObserveExit,
    CollectRaises, HookTimeout, Kill, WriteHeartbeat, FireFirstSuccess, Busy, workerVars, Standing

\* No two workers are busy with one run.
Exclusive == \A v, w \in Workers : v # w /\ Busy(v) /\ Busy(w) => Run(v) # Run(w)

LEMMA ExclusiveStep ==
  ASSUME "resume" \notin Ops, Inductive, NoneRequeued, Exclusive, [Next]_vars
  PROVE  (NoneRequeued /\ Exclusive)'
<1>. USE DEF Exclusive
<1>1. TypeOK /\ RowsOK /\ WorkersOK /\ RowStep
  BY InductiveStep DEF Inductive
<1>2. ASSUME NEW v \in Workers, Busy(v), Run(v)' = Run(v) PROVE status'[Run(v)'] # "queued"
  BY <1>1, <1>2, NoRequeue DEF NoneRequeued, WorkersOK, WorkerOK
<1>3. ASSUME NEW w \in Workers, Claim(w) PROVE (NoneRequeued /\ Exclusive)'
  <2>1. PICK r \in RunId : /\ status[r] = "queued" /\ status'[r] = "running"
                           /\ mem' = [mem EXCEPT ![w] = [Blank EXCEPT !.run = r]]
    BY <1>1, <1>3 DEF Claim, Oldest, Claimable, TypeOK
  <2>2. mem'[w].run = r
    BY <1>1, <2>1 DEF TypeOK, Blank
  <2>3. ASSUME NEW v \in Workers, v # w PROVE (Busy(v)' <=> Busy(v)) /\ Run(v)' = Run(v)
    BY <1>1, <1>3, <2>3 DEF TypeOK, Claim, Busy, Run
  <2>4. \A v \in Workers : v # w /\ Busy(v)' => Run(v)' # r /\ status'[Run(v)'] # "queued"
    BY <1>2, <2>1, <2>3 DEF NoneRequeued
  <2>5. NoneRequeued'
    BY <2>1, <2>2, <2>4 DEF NoneRequeued, Run
  <2>6. Exclusive'
    <3> SUFFICES ASSUME NEW u \in Workers, NEW v \in Workers, u # v, Busy(u)', Busy(v)'
                 PROVE  Run(u)' # Run(v)'
      OBVIOUS
    <3>1. Run(w)' = r
      BY <2>2 DEF Run
    <3>. QED
      BY <2>3, <2>4, <3>1
  <2>. QED
    BY <2>5, <2>6
<1>4. ASSUME \A v \in Workers : Busy(v)' => Busy(v) /\ Run(v)' = Run(v)
      PROVE  (NoneRequeued /\ Exclusive)'
  BY <1>2, <1>4 DEF NoneRequeued
<1>5. ASSUME NEW w \in Workers, WorkerNext(w), ~ Claim(w) PROVE (NoneRequeued /\ Exclusive)'
  <2>1. ASSUME NEW v \in Workers, Busy(v)' PROVE Busy(v) /\ Run(v)' = Run(v)
    <3>1. CASE v = w
      BY <1>1, <1>5, <2>1, <3>1, BusyRun
    <3>2. CASE v # w
      BY <1>1, <1>5, <2>1, <3>2, OthersKept DEF Busy, Run
    <3>. QED
      BY <3>1, <3>2
  <2>. QED
    BY <1>4, <2>1
<1>6. CASE Standing
  BY <1>4, <1>6 DEF Busy, Run, workerVars, Standing
<1>. QED
  BY <1>3, <1>5, <1>6, WorkersStand

\* Two workers never execute one run, provided nobody resumes runs: pausing
\* does not stop the executor, so a resumed run is queued under its feet.
THEOREM ExclusiveClaims ==
  ASSUME "resume" \notin Ops
  PROVE  Spec => []ExclusiveClaim
<1>1. Init => NoneRequeued /\ Exclusive
  BY DEF Init, NoneRequeued, Exclusive, Busy
<1>2. Inductive /\ NoneRequeued /\ Exclusive /\ [Next]_vars => (NoneRequeued /\ Exclusive)'
  BY ExclusiveStep
<1>3. Exclusive => ExclusiveClaim
  BY DEF Exclusive, ExclusiveClaim, Busy
<1>. QED
  BY <1>1, <1>2, <1>3, InductiveInvariance, PTL DEF Spec
-----------------------------------------------------------------------------
(* Requests that overlap *)

\* Where nobody resumes runs, no row comes in flight but by being inserted.
LEMMA OffStays ==
  ASSUME "resume" \notin Ops, TypeOK, RowsOK, RowStep, NEW r \in RunId,
         status[r] # "absent", status[r] \notin InFlight
  PROVE  status'[r] \notin InFlight /\ job'[r] = job[r]
<1>1. CASE Inserted
  <2>1. PICK j \in Jobs, s \in {"queued", "running", "skipped"}, saw \in 0 .. MaxRuns :
               Insert(j, s, saw)
    BY <1>1 DEF Inserted
  <2>2. r # count + 1
    BY DEF RowsOK, TypeOK
  <2>. QED
    BY <2>1, <2>2 DEF Insert, TypeOK
<1>2. CASE Moved
  <2>1. PICK q \in RunId, m \in Moves : status[q] = m[1] /\ status' = [status EXCEPT ![q] = m[2]]
    BY <1>2 DEF Moved
  <2>2. m[1] \in InFlight
    BY DEF Moves, InFlight
  <2>. QED
    BY <1>2, <2>1, <2>2 DEF Moved, SameRows, TypeOK
<1>3. CASE Resolved \/ Recorded \/ Pruned
  BY <1>3 DEF Resolved, Recorded, Pruned, SameRows, TypeOK, Terminal, InFlight
<1>. QED
  BY <1>1, <1>2, <1>3 DEF RowStep

\* No run of j among the first saw rows is in flight.
Clear(j, saw) == \A q \in RunId : q <= saw /\ job[q] = j => status[q] \notin InFlight

\* The same of the next state.
ClearNext(j, saw) ==
  /\ saw <= count'
  /\ \A q \in RunId : q <= saw /\ job'[q] = j => status'[q] \notin InFlight

\* What the check of a request found idle is idle still, until it enqueues.
ChecksHold ==
  \A c \in Callers : req[c].op = "enqueue" =>
    req[c].saw <= count /\ Clear(req[c].job, req[c].saw)

\* Rows that were there and not in flight are not in flight.
LEMMA ClearStays ==
  ASSUME "resume" \notin Ops, TypeOK, TypeOK', RowsOK, RowStep,
         NEW j, NEW saw \in Nat, saw <= count, Clear(j, saw)
  PROVE  ClearNext(j, saw)
<1>1. count' >= count
  BY DEF TypeOK, RowStep, Inserted, Insert, Moved, Resolved, Recorded, Pruned, SameRows
<1>2. ASSUME NEW q \in RunId, q <= saw, job'[q] = j PROVE status'[q] \notin InFlight
  <2>1. status[q] # "absent" /\ job[q] # NoJob
    BY <1>2 DEF RowsOK, TypeOK, RunId
  <2>2. job'[q] = job[q]
    BY <2>1, RowsKept
  <2>3. status[q] \notin InFlight
    BY <1>2, <2>2 DEF Clear
  <2>. QED
    BY <2>1, <2>3, OffStays
<1>3. saw <= count'
  BY <1>1 DEF TypeOK
<1>. QED
  BY <1>2, <1>3 DEF ClearNext

LEMMA ChecksHoldStep ==
  ASSUME "resume" \notin Ops, Inductive, ChecksHold, [Next]_vars
  PROVE  ChecksHold'
<1>1. TypeOK /\ TypeOK' /\ RowsOK /\ RowStep
  BY InductiveStep DEF Inductive
<1>2. SUFFICES ASSUME NEW c \in Callers, req'[c].op = "enqueue"
               PROVE  ClearNext(req'[c].job, req'[c].saw)
  BY DEF ChecksHold, Clear, ClearNext
<1>3. CASE req'[c] = req[c]
  <2>1. req[c].saw \in Nat
    BY <1>1, <1>2, <1>3 DEF TypeOK, ControlReq, EnqueueReq, NoReq, ControlOps
  <2>2. req[c].saw <= count /\ Clear(req[c].job, req[c].saw)
    BY <1>2, <1>3 DEF ChecksHold
  <2>3. PICK saw \in Nat : saw = req[c].saw
    BY <2>1
  <2>4. ClearNext(req[c].job, saw)
    BY <1>1, <2>2, <2>3, ClearStays
  <2>. QED
    BY <1>3, <2>3, <2>4
<1>4. ASSUME NEW d \in Callers, NEW j, ToEnqueue(d, j, 0), req'[c] # req[c]
      PROVE  ClearNext(req'[c].job, req'[c].saw)
  <2>1. req'[c].saw = 0
    BY <1>1, <1>4 DEF ToEnqueue, Remember, TypeOK
  <2>. QED
    BY <1>1, <2>1 DEF ClearNext, RunId, TypeOK
<1>5. ASSUME NEW d \in Callers, NEW j, ToEnqueue(d, j, count), req'[c] # req[c],
             RunsOf(j, InFlight) = {}, UNCHANGED rowVars
      PROVE  ClearNext(req'[c].job, req'[c].saw)
  <2>1. req'[c].saw = count /\ req'[c].job = j
    BY <1>1, <1>5 DEF ToEnqueue, Remember, TypeOK
  <2>. QED
    BY <1>1, <1>5, <2>1 DEF ClearNext, RunsOf, rowVars, TypeOK
<1>6. ASSUME NEW d \in Clients, NEW j \in SyncJobs, TriggerCheck(d, j), req'[c] # req[c]
      PROVE  ClearNext(req'[c].job, req'[c].saw)
  <2>1. d \in Callers
    BY DEF Callers
  <2>2. RunsOf(j, ActiveForTrigger) = {} => RunsOf(j, InFlight) = {}
    BY DEF RunsOf, ActiveForTrigger, InFlight
  <2>. QED
    BY <1>4, <1>5, <1>6, <2>1, <2>2 DEF TriggerCheck
<1>7. ASSUME NEW d \in Schedulers, NEW j \in SyncJobs, ScheduleCheck(d, j), req'[c] # req[c]
      PROVE  ClearNext(req'[c].job, req'[c].saw)
  <2>1. d \in Callers /\ RunsOf(j, InFlight) = {}
    BY <1>7 DEF Callers, ScheduleCheck, RunsOf, ActiveForSchedule, InFlight
  <2>. QED
    BY <1>5, <1>7, <2>1 DEF ScheduleCheck, rowVars
<1>8. ASSUME NEW d \in Clients, NEW o \in ControlOps, NEW q \in RunId, ControlRead(d, o, q),
             req'[c] # req[c]
      PROVE  FALSE
  <2>1. req'[c].op = o
    BY <1>1, <1>8 DEF ControlRead, Remember, TypeOK
  <2>. QED
    BY <1>2, <2>1 DEF ControlOps
<1>9. ASSUME NEW d \in Callers, Enqueue(d) \/ ControlWrite(d) \/ RequestLost(d), req'[c] # req[c]
      PROVE  FALSE
  <2>1. req'[c] = NoReq
    BY <1>1, <1>9 DEF Enqueue, ControlWrite, RequestLost, Remember, TypeOK
  <2>. QED
    BY <1>2, <2>1 DEF NoReq
<1>10. RequestNext \/ UNCHANGED req
  BY DEF Next, ProcNext, WorkerNext, StandaloneStart, RunEnds, CompleteRun, CompleteRunFails,
    ProcExits, PluginHeartbeat, Age, Prune, vars, Start, Sweep, Claim, Reject, Spawn,
    SpawnFails, ObserveExit, CollectRaises, Timeout, HookTimeout, PollCancel, Escalate,
    Kill, WriteHeartbeat, Finalize, FinalizeFails, DispatchAlert, FireFirstSuccess, Crash
<1>. QED
  BY <1>3, <1>4, <1>6, <1>7, <1>8, <1>9, <1>10 DEF RequestNext, CheckFails

\* Whoever inserts a run that is in flight has looked at the rows it takes for
\* idle, and they are; or it takes none for idle.
LEMMA InsertsFit ==
  ASSUME Inductive, ChecksHold, [Next]_vars
  PROVE  \/ UNCHANGED <<count, job, checked>>
         \/ \E j, s, saw : /\ Insert(j, s, saw) /\ saw \in Nat
                           /\ j \in SyncJobs /\ s \in InFlight => Clear(j, saw)
<1>. DEFINE Fits == \E j, s, saw : /\ Insert(j, s, saw) /\ saw \in Nat
                                   /\ j \in SyncJobs /\ s \in InFlight => Clear(j, saw)
            Same == UNCHANGED <<count, job, checked>>
<1>1. TypeOK /\ WorkersOK
  BY DEF Inductive
<1>2. \A j : Clear(j, 0)
  BY DEF Clear, RunId
<1>3. ASSUME NEW j, NEW s, Insert(j, s, 0) PROVE Fits
  BY <1>2, <1>3
<1>4. ASSUME NEW c \in Callers, Enqueue(c) PROVE Fits
  <2>1. req[c].saw \in Nat
    BY <1>1, <1>4 DEF Enqueue, TypeOK, ControlReq, EnqueueReq, NoReq, ControlOps
  <2>2. Clear(req[c].job, req[c].saw) /\ Insert(req[c].job, "queued", req[c].saw)
    BY <1>4 DEF Enqueue, ChecksHold
  <2>. QED
    BY <2>1, <2>2
<1>5. CASE RequestNext
  BY <1>3, <1>4, <1>5 DEF RequestNext, TriggerCheck, ScheduleCheck, CheckFails, RequestLost,
    ControlRead, ControlWrite, SetStatus, rowVars
<1>6. ASSUME NEW w \in Workers, WorkerNext(w) PROVE Same \/ Fits
  BY <1>3, <1>6 DEF WorkerNext, Start, Sweep, SweepRows, Claim, Reject, Spawn, SpawnFails,
    ObserveExit, CollectRaises, Timeout, HookTimeout, PollCancel, Escalate, Kill,
    WriteHeartbeat, Finalize, FinalizeFails, DispatchAlert, FireFirstSuccess, Crash, SetStatus,
    rowVars
<1>7. ASSUME NEW p \in Procs, ProcNext(p) PROVE Same \/ Fits
  BY <1>3, <1>7 DEF ProcNext, StandaloneStart, RunEnds, CompleteRun, CompleteRunFails, ProcExits,
    PluginHeartbeat, SetStatus, rowVars
<1>8. CASE (\E r \in RunId : Age(r) \/ Prune(r)) \/ UNCHANGED vars
  BY <1>8 DEF Age, Prune, SetStatus, vars
<1>. QED
  BY <1>5, <1>6, <1>7, <1>8 DEF Next

LEMMA OverlapStep ==
  ASSUME "resume" \notin Ops, Inductive, ChecksHold, SecondOnlyByOverlap, [Next]_vars
  PROVE  SecondOnlyByOverlap'
<1>1. TypeOK /\ TypeOK' /\ RowsOK /\ RowsOK' /\ RowStep
  BY InductiveStep DEF Inductive
<1>2. SUFFICES ASSUME NEW q \in RunId, NEW r \in RunId, q < r, job'[q] = job'[r],
                      job'[r] \in SyncJobs, status'[q] \in InFlight, status'[r] \in InFlight
               PROVE  checked'[r] < q
  BY DEF SecondOnlyByOverlap
<1>3. ASSUME NEW x \in RunId, status[x] # "absent", status'[x] \in InFlight
      PROVE  status[x] \in InFlight /\ job'[x] = job[x]
  BY <1>1, <1>3, OffStays, RowsKept
<1>4. CASE UNCHANGED <<count, job, checked>>
  <2>1. status[q] # "absent" /\ status[r] # "absent"
    BY <1>1, <1>2, <1>4 DEF RowsOK, InFlight
  <2>. QED
    BY <1>2, <1>3, <1>4, <2>1 DEF SecondOnlyByOverlap
<1>5. ASSUME NEW j, NEW s, NEW saw \in Nat, Insert(j, s, saw),
             j \in SyncJobs /\ s \in InFlight => Clear(j, saw)
      PROVE  checked'[r] < q
  <2>1. /\ count' = count + 1 /\ count \in Nat /\ count + 1 \in RunId
        /\ job' = [job EXCEPT ![count + 1] = j]
        /\ status' = [status EXCEPT ![count + 1] = s]
        /\ checked' = [checked EXCEPT ![count + 1] = saw]
    BY <1>1, <1>5 DEF Insert, CanInsert, TypeOK, RunId
  <2>2. q <= count + 1 /\ r <= count + 1
    BY <1>1, <1>2, <2>1 DEF RowsOK, InFlight, RunId
  <2>3. q # count + 1 /\ q <= count
    BY <1>2, <2>1, <2>2 DEF RunId
  <2>4. status[q] \in InFlight /\ job[q] = job'[q]
    BY <1>1, <1>2, <2>1, <2>3 DEF TypeOK
  <2>5. CASE r = count + 1
    <3>1. job'[r] = j /\ status'[r] = s /\ checked'[r] = saw
      BY <1>1, <2>1, <2>5 DEF TypeOK
    <3>2. ~ (q <= saw)
      BY <1>2, <1>5, <2>4, <3>1 DEF Clear
    <3>. QED
      BY <3>1, <3>2 DEF RunId
  <2>6. CASE r # count + 1
    <3>1. status[r] \in InFlight /\ job[r] = job'[r] /\ checked'[r] = checked[r]
      BY <1>1, <1>2, <2>1, <2>6 DEF TypeOK
    <3>. QED
      BY <1>2, <2>4, <3>1 DEF SecondOnlyByOverlap
  <2>. QED
    BY <2>5, <2>6
<1>. QED
  BY <1>4, <1>5, InsertsFit

\* For any number of API workers and schedulers, whose requests interleave in any
\* order, and any policy: a second run of a plugin is in flight beside a first only
\* if the first was inserted between the second's check and its INSERT, or the
\* second was let in without finding the plugin idle.  Nobody may resume runs.
THEOREM SecondRunsOverlap ==
  ASSUME "resume" \notin Ops
  PROVE  Spec => []SecondOnlyByOverlap
<1>1. Init => ChecksHold /\ SecondOnlyByOverlap
  BY DEF Init, ChecksHold, SecondOnlyByOverlap, NoReq, InFlight
<1>2. Inductive /\ ChecksHold /\ SecondOnlyByOverlap /\ [Next]_vars
        => (ChecksHold /\ SecondOnlyByOverlap)'
  BY ChecksHoldStep, OverlapStep
<1>. QED
  BY <1>1, <1>2, InductiveInvariance, PTL DEF Spec
-----------------------------------------------------------------------------
(* Where no success is resumed, deleted or fails to be written             *)

\* A run that some worker is busy with has no subprocess but that worker's, and
\* no subprocess executes a run that is waiting for a worker.
OneChild ==
  \A p \in Procs : proc[p].state # "free" =>
    /\ status[proc[p].run] # "queued"
    /\ \A w \in Workers : Busy(w) /\ Run(w) = proc[p].run => Child(w) = p

\* A success nothing can overwrite any more.
Settled(r) ==
  /\ job[r] \in SyncJobs /\ status[r] = "success"
  /\ \A w \in Workers : Busy(w) => Run(w) # r
  /\ \A p \in Procs : proc[p].state # "free" => proc[p].run # r

\* Hooks come of successes: who is about to enqueue one has recorded one, and
\* who has enqueued one has left a settled one.
HooksOK ==
  /\ \A r \in RunId : status[r] # "deleted"
  /\ \A w \in Workers : pc[w] = "hook" => status[Run(w)] = "success"
  /\ \A r \in RunId : job[r] \in HookJobs =>
       /\ \E x \in RunId : Settled(x) /\ FirstRunHook[job[x]] = job[r]
       /\ \A q \in RunId : job[q] = job[r] => q = r

HookInv == Inductive /\ NoneRequeued /\ Exclusive /\ OneChild /\ HooksOK

\* Where a subprocess of the next state comes from.
LEMMA ProcFrom ==
  ASSUME TypeOK, [Next]_vars, NEW p \in Procs, proc'[p].state # "free"
  PROVE  \/ proc[p].state # "free" /\ proc'[p].run = proc[p].run
         \/ \E w \in Workers : /\ pc[w] = "claimed" /\ Spawn(w)
                               /\ proc'[p].run = Run(w) /\ Child(w)' = p
         \/ /\ count + 1 \in RunId /\ proc'[p].run = count + 1
            /\ status'[count + 1] = "running"
<1>. DEFINE Stays == proc[p].state # "free" /\ proc'[p].run = proc[p].run
<1>1. proc \in [Procs -> Subprocess] /\ mem \in [Workers -> WorkerMem]
  BY DEF TypeOK
<1>2. CASE UNCHANGED proc
  BY <1>2
<1>3. ASSUME NEW q, Reap(q) PROVE Stays
  BY <1>1, <1>3 DEF Reap, NoSubprocess
<1>4. ASSUME NEW q \in Procs, NEW s, Exits(q, s), proc[q].state # "free" PROVE Stays
  BY <1>1, <1>4 DEF Exits, Gone, NoSubprocess, Subprocess
<1>5. ASSUME NEW q \in Procs, NEW s, proc' = [proc EXCEPT ![q].state = s], proc[q].state # "free"
      PROVE  Stays
  BY <1>1, <1>5 DEF Subprocess
<1>6. ASSUME NEW w \in Workers, Spawn(w)
      PROVE  Stays \/ (pc[w] = "claimed" /\ proc'[p].run = Run(w) /\ Child(w)' = p)
  <2>1. PICK q \in Procs :
          /\ proc' = [proc EXCEPT ![q] = [state |-> "running", run |-> Run(w),
                                          parent |-> "worker"]]
          /\ mem' = [mem EXCEPT ![w].proc = q] /\ pc[w] = "claimed"
    BY <1>6 DEF Spawn
  <2>2. mem'[w].proc = q
    BY <1>1, <2>1 DEF WorkerMem
  <2>. QED
    BY <1>1, <2>1, <2>2 DEF Child
<1>7. ASSUME NEW q \in Procs, NEW j \in SyncJobs, StandaloneStart(q, j)
      PROVE  \/ Stays
             \/ /\ count + 1 \in RunId /\ proc'[p].run = count + 1
                /\ status'[count + 1] = "running"
  <2>1. count + 1 \in RunId /\ status'[count + 1] = "running"
    BY <1>7 DEF StandaloneStart, Insert, CanInsert, TypeOK, RunId
  <2>2. proc' = [proc EXCEPT ![q] = [state |-> "running", run |-> count + 1, parent |-> "none"]]
    BY <1>7 DEF StandaloneStart
  <2>. QED
    BY <1>1, <2>1, <2>2
<1>8. ASSUME NEW w \in Workers, Crash(w) PROVE Stays
  <2>1. CASE UNCHANGED proc \/ Reap(Child(w))
    BY <1>2, <1>3, <2>1
  <2>2. CASE Child(w) # NoProc /\ proc[Child(w)].state \in ProcAlive
             /\ proc' = [proc EXCEPT ![Child(w)].parent = "none"]
    BY <1>1, <2>2 DEF Subprocess
  <2>. QED
    BY <1>8, <2>1, <2>2 DEF Crash
<1>9. ASSUME NEW w \in Workers, Timeout(w) \/ Escalate(w) \/ Kill(w) PROVE Stays
  <2>1. CASE UNCHANGED proc
    BY <2>1
  <2>2. CASE proc' = [proc EXCEPT ![Child(w)].state = "exit1"] /\ proc[Child(w)].state \in ProcAlive
    BY <1>1, <2>2 DEF Subprocess, ProcAlive
  <2>. QED
    BY <1>9, <2>1, <2>2 DEF Timeout, Escalate, Kill, Sigterm
<1>10. ASSUME NEW q \in Procs, RunEnds(q) \/ CompleteRun(q) \/ CompleteRunFails(q) \/ ProcExits(q)
       PROVE  Stays
  BY <1>4, <1>5, <1>10 DEF RunEnds, CompleteRun, CompleteRunFails, ProcExits
<1>11. CASE \E w \in Workers : WorkerNext(w)
  BY <1>2, <1>3, <1>6, <1>8, <1>9, <1>11 DEF WorkerNext, Start, Sweep, Claim, Reject, SpawnFails,
     ObserveExit, CollectRaises, HookTimeout, PollCancel, WriteHeartbeat, Finalize,
     FinalizeFails, DispatchAlert, FireFirstSuccess
<1>12. CASE \E q \in Procs : ProcNext(q)
  BY <1>2, <1>7, <1>10, <1>12 DEF ProcNext, PluginHeartbeat
<1>13. CASE RequestNext \/ (\E r \in RunId : Age(r) \/ Prune(r)) \/ UNCHANGED vars
  BY <1>2, <1>13 DEF RequestNext, TriggerCheck, ScheduleCheck, CheckFails, Enqueue, ControlRead,
     ControlWrite, RequestLost, Age, Prune, vars
<1>. QED
  BY <1>11, <1>12, <1>13 DEF Next

\* Where a busy worker of the next state comes from.
LEMMA BusyFrom ==
  ASSUME TypeOK, [Next]_vars, NEW w \in Workers, Busy(w)'
  PROVE  \/ Busy(w) /\ Run(w)' = Run(w)
         \/ /\ Run(w)' \in RunId /\ status[Run(w)'] = "queued" /\ UNCHANGED proc
<1>1. ASSUME Claim(w)
      PROVE  Run(w)' \in RunId /\ status[Run(w)'] = "queued" /\ UNCHANGED proc
  <2>1. PICK r \in RunId : status[r] = "queued" /\ mem' = [mem EXCEPT ![w] = [Blank EXCEPT !.run = r]]
    BY <1>1 DEF Claim, Oldest, Claimable
  <2>2. mem'[w].run = r
    BY <2>1 DEF TypeOK, Blank
  <2>. QED
    BY <1>1, <2>1, <2>2 DEF Claim, Run
<1>2. CASE Standing
  BY <1>2 DEF workerVars, Standing, Busy, Run
<1>3. ASSUME NEW v \in Workers, WorkerNext(v), v # w PROVE Busy(w) /\ Run(w)' = Run(w)
  BY <1>3, OthersKept DEF Busy, Run
<1>. QED
  BY <1>1, <1>2, <1>3, BusyRun, WorkersStand

\* A worker lets go of a subprocess by reaping it, or by dying.
LEMMA ChildFrom ==
  ASSUME TypeOK, WorkersOK, [Next]_vars, NEW w \in Workers, Busy(w), Busy(w)',
         Child(w) \in Procs, proc'[Child(w)].state # "free"
  PROVE  Child(w)' = Child(w)
<1>1. pc[w] # "claimed" /\ pc[w] # "idle" /\ pc[w] # "down"
  BY DEF WorkersOK, WorkerOK, Busy
<1>2. CASE Standing
  BY <1>2 DEF workerVars, Standing, Child
<1>3. ASSUME NEW v \in Workers, WorkerNext(v), v # w PROVE Child(w)' = Child(w)
  BY <1>3, OthersKept DEF Child
<1>4. ASSUME Loops(w) PROVE FALSE
  BY <1>4 DEF TypeOK, Loops, Busy
<1>5. ASSUME Reap(Child(w)) PROVE FALSE
  BY <1>5 DEF TypeOK, Reap, NoSubprocess
<1>6. CASE Start(w) \/ Sweep(w) \/ Claim(w) \/ Reject(w) \/ Spawn(w) \/ SpawnFails(w)
  BY <1>1, <1>6 DEF Start, Sweep, Claim, Reject, Spawn, SpawnFails
<1>7. CASE ObserveExit(w) \/ CollectRaises(w) \/ HookTimeout(w)
  BY <1>5, <1>7 DEF ObserveExit, CollectRaises, HookTimeout
<1>8. CASE Timeout(w) \/ PollCancel(w) \/ Escalate(w)
  BY <1>8 DEF TypeOK, WorkerMem, Timeout, PollCancel, Escalate, Child
<1>9. CASE Kill(w) \/ WriteHeartbeat(w)
  BY <1>9 DEF Kill, WriteHeartbeat, workerVars, Child
<1>10. ASSUME AfterFinalize(w) PROVE Child(w)' = Child(w)
  BY <1>4, <1>10 DEF TypeOK, WorkerMem, AfterFinalize, Child
<1>11. CASE Finalize(w) \/ FinalizeFails(w) \/ DispatchAlert(w)
  BY <1>10, <1>11 DEF Finalize, FinalizeFails, DispatchAlert, Child
<1>12. CASE FireFirstSuccess(w)
  BY <1>4, <1>12 DEF FireFirstSuccess
<1>13. ASSUME Crash(w) PROVE FALSE
  BY <1>13 DEF TypeOK, Crash, Busy
<1>. QED
  BY <1>2, <1>3, <1>6, <1>7, <1>8, <1>9, <1>11, <1>12, <1>13, WorkersStand DEF WorkerNext

\* Nobody takes up a run that somebody executes or has executed.
LEMMA OneChildStep ==
  ASSUME "resume" \notin Ops, Inductive, NoneRequeued, Exclusive, OneChild, [Next]_vars
  PROVE  OneChild'
<1>1. TypeOK /\ RowsOK /\ WorkersOK /\ ProcsOK /\ RowStep
  BY InductiveStep DEF Inductive
<1>2. SUFFICES ASSUME NEW p \in Procs, proc'[p].state # "free"
               PROVE  /\ status'[proc'[p].run] # "queued"
                      /\ \A w \in Workers : Busy(w)' /\ Run(w)' = proc'[p].run => Child(w)' = p
  BY DEF OneChild
<1>3. \A w \in Workers : Busy(w) =>
        Run(w) \in RunId /\ status[Run(w)] \notin {"absent", "queued"}
  BY <1>1 DEF WorkersOK, WorkerOK, NoneRequeued
<1>4. CASE proc[p].state # "free" /\ proc'[p].run = proc[p].run
  <2>1. proc[p].run \in RunId /\ status[proc[p].run] \notin {"absent", "queued"}
    BY <1>1, <1>4 DEF ProcsOK, OneChild
  <2>2. status'[proc'[p].run] # "queued"
    BY <1>1, <1>4, <2>1, NoRequeue
  <2>3. ASSUME NEW w \in Workers, Busy(w)', Run(w)' = proc'[p].run PROVE Child(w)' = p
    <3>1. Busy(w) /\ Run(w) = proc[p].run
      BY <1>1, <1>4, <2>1, <2>3, BusyFrom
    <3>2. Child(w) = p
      BY <1>4, <3>1 DEF OneChild
    <3>. QED
      BY <1>1, <1>2, <2>3, <3>1, <3>2, ChildFrom
  <2>. QED
    BY <2>2, <2>3
<1>5. ASSUME NEW v \in Workers, pc[v] = "claimed", Spawn(v), proc'[p].run = Run(v), Child(v)' = p
      PROVE  /\ status'[proc'[p].run] # "queued"
             /\ \A w \in Workers : Busy(w)' /\ Run(w)' = proc'[p].run => Child(w)' = p
  <2>1. Busy(v)
    BY <1>5 DEF Busy
  <2>2. status'[Run(v)] # "queued"
    BY <1>1, <1>3, <2>1, NoRequeue
  <2>3. ASSUME NEW w \in Workers, Busy(w)', Run(w)' = Run(v) PROVE w = v
    <3>1. ~ UNCHANGED proc
      BY <1>1, <1>5 DEF Spawn, TypeOK
    <3>2. Busy(w) /\ Run(w) = Run(v)
      BY <1>1, <2>3, <3>1, BusyFrom
    <3>. QED
      BY <2>1, <3>2 DEF Exclusive
  <2>. QED
    BY <1>5, <2>2, <2>3
<1>6. CASE /\ count + 1 \in RunId /\ proc'[p].run = count + 1
           /\ status'[count + 1] = "running"
  <2>1. status[count + 1] = "absent"
    BY <1>1, <1>6 DEF RowsOK, TypeOK
  <2>2. ASSUME NEW w \in Workers, Busy(w)', Run(w)' = count + 1 PROVE FALSE
    BY <1>1, <1>3, <2>1, <2>2, BusyFrom
  <2>. QED
    BY <1>6, <2>2
<1>. QED
  BY <1>1, <1>2, <1>4, <1>5, <1>6, ProcFrom

\* A success is overwritten by who executes its run only.
LEMMA SuccessStays ==
  ASSUME "retention" \notin Ops, TypeOK, RowsOK, RowStep,
         NEW r \in RunId, status[r] = "success", ~ Executed(r)
  PROVE  status'[r] = "success" /\ job'[r] = job[r]
<1>1. CASE Inserted
  BY <1>1 DEF Inserted, Insert, CanInsert, TypeOK, RowsOK, RunId
<1>2. CASE Moved
  BY <1>2 DEF Moved, Moves, SameRows, TypeOK
<1>3. CASE Resolved
  BY <1>3 DEF Resolved, SameRows, NonTerminal, InFlight
<1>4. CASE Recorded
  BY <1>4 DEF Recorded, SameRows, TypeOK
<1>. QED
  BY <1>1, <1>2, <1>3, <1>4 DEF RowStep, Pruned

LEMMA SettledStays ==
  ASSUME "retention" \notin Ops, Inductive, NoneRequeued, [Next]_vars,
         NEW x \in RunId, Settled(x)
  PROVE  Settled(x)' /\ job'[x] = job[x]
<1>1. TypeOK /\ RowsOK /\ WorkersOK /\ RowStep
  BY InductiveStep DEF Inductive
<1>2. ~ Executed(x)
  BY DEF Executed, Executes, Settled, Busy, ProcAlive
<1>3. status'[x] = "success" /\ job'[x] = job[x]
  BY <1>1, <1>2, SuccessStays DEF Settled
<1>4. ASSUME NEW w \in Workers, Busy(w)' PROVE Run(w)' # x
  BY <1>1, <1>4, BusyFrom DEF Settled
<1>5. ASSUME NEW p \in Procs, proc'[p].state # "free" PROVE proc'[p].run # x
  <2>1. ASSUME NEW w \in Workers, pc[w] = "claimed" PROVE Run(w) # x
    BY <2>1 DEF Settled, Busy
  <2>2. count + 1 \in RunId => status[count + 1] = "absent"
    BY <1>1 DEF RowsOK, TypeOK
  <2>. QED
    BY <1>1, <1>5, <2>1, <2>2, ProcFrom DEF Settled
<1>. QED
  BY <1>3, <1>4, <1>5 DEF Settled

\* Where a row of a hook comes from.
LEMMA HookFrom ==
  ASSUME TypeOK, [Next]_vars, NEW r \in RunId, job'[r] \in HookJobs
  PROVE  \/ job'[r] = job[r]
         \/ \E w \in Workers :
              /\ pc[w] = "hook" /\ FireFirstSuccess(w) /\ FirstSuccess(job[Run(w)])
              /\ r = count + 1 /\ job' = [job EXCEPT ![r] = FirstRunHook[job[Run(w)]]]
<1>1. CASE UNCHANGED job
  BY <1>1
<1>2. ASSUME NEW j \in SyncJobs, NEW s, NEW saw, Insert(j, s, saw) PROVE job'[r] = job[r]
  BY <1>2 DEF Insert, CanInsert, TypeOK, RunId
<1>3. ASSUME NEW c \in Callers, Enqueue(c) PROVE job'[r] = job[r]
  <2>1. req[c].job \in SyncJobs
    BY <1>3 DEF Enqueue, TypeOK, ControlReq, EnqueueReq, NoReq, ControlOps
  <2>. QED
    BY <1>2, <1>3, <2>1 DEF Enqueue
<1>4. ASSUME NEW w \in Workers, FireFirstSuccess(w), job'[r] # job[r]
      PROVE  /\ pc[w] = "hook" /\ FirstSuccess(job[Run(w)])
             /\ r = count + 1 /\ job' = [job EXCEPT ![r] = FirstRunHook[job[Run(w)]]]
  <2>1. /\ pc[w] = "hook" /\ FirstSuccess(job[Run(w)])
        /\ job' = [job EXCEPT ![count + 1] = FirstRunHook[job[Run(w)]]]
    BY <1>4 DEF FireFirstSuccess, Insert, rowVars
  <2>. QED
    BY <1>4, <2>1 DEF TypeOK
<1>5. CASE RequestNext
  BY <1>1, <1>2, <1>3, <1>5 DEF RequestNext, TriggerCheck, ScheduleCheck, CheckFails, ControlRead,
     ControlWrite, RequestLost, SetStatus, rowVars
<1>6. CASE \E w \in Workers : WorkerNext(w)
  BY <1>1, <1>4, <1>6 DEF WorkerNext, Start, Sweep, SweepRows, Claim, Reject, Spawn, SpawnFails,
     ObserveExit, CollectRaises, Timeout, HookTimeout, PollCancel, Escalate, Kill,
     WriteHeartbeat, Finalize, FinalizeFails, DispatchAlert, Crash, SetStatus, rowVars
<1>7. CASE \E p \in Procs : ProcNext(p)
  BY <1>1, <1>2, <1>7 DEF ProcNext, StandaloneStart, RunEnds, CompleteRun, CompleteRunFails,
     ProcExits, PluginHeartbeat, SetStatus, rowVars
<1>8. CASE (\E q \in RunId : Age(q) \/ Prune(q)) \/ UNCHANGED vars
  BY <1>1, <1>8 DEF Age, Prune, SetStatus, vars
<1>. QED
  BY <1>5, <1>6, <1>7, <1>8 DEF Next

\* The finalizing transaction of a success does not fail.
SuccessIsWritten == \A w \in Workers : FinalizeFails(w) => ~ Succeeded(w)

\* Who comes to the hook has recorded the success.
LEMMA ToHook ==
  ASSUME Inductive, [Next]_vars, SuccessIsWritten, \A r \in RunId : status[r] # "deleted",
         NEW w \in Workers, pc'[w] = "hook"
  PROVE  \/ pc[w] = "hook" /\ mem'[w] = mem[w]
         \/ Run(w)' = Run(w) /\ status'[Run(w)] = "success"
<1>1. TypeOK /\ WorkersOK
  BY DEF Inductive
<1>2. CASE Standing
  BY <1>2 DEF workerVars, Standing
<1>3. ASSUME NEW v \in Workers, WorkerNext(v), v # w PROVE pc[w] = "hook" /\ mem'[w] = mem[w]
  BY <1>1, <1>3, OthersKept
<1>4. ASSUME AfterFinalize(w) PROVE Succeeded(w) /\ UNCHANGED mem
  BY <1>1, <1>4 DEF AfterFinalize, Loops, TypeOK
<1>5. CASE Finalize(w)
  <2>1. Succeeded(w) /\ UNCHANGED mem
    BY <1>1, <1>4, <1>5 DEF Finalize, TypeOK
  <2>2. Run(w) \in RunId
    BY <1>1, <1>5 DEF Finalize, WorkersOK, WorkerOK, Busy
  <2>. QED
    BY <1>1, <1>5, <2>1, <2>2 DEF Finalize, SetStatus, Succeeded, Run, TypeOK
<1>6. ASSUME FinalizeFails(w) PROVE FALSE
  BY <1>4, <1>6 DEF FinalizeFails, SuccessIsWritten
<1>7. ASSUME DispatchAlert(w) PROVE FALSE
  BY <1>1, <1>4, <1>7 DEF DispatchAlert, Succeeded, WorkersOK, WorkerOK, Failed
<1>8. ASSUME WorkerNext(w), ~ Finalize(w), ~ FinalizeFails(w), ~ DispatchAlert(w)
      PROVE  pc[w] = "hook" /\ mem'[w] = mem[w]
  BY <1>1, <1>8 DEF WorkerNext, TypeOK, Start, Sweep, Claim, Reject, Spawn, SpawnFails, ObserveExit,
     CollectRaises, Timeout, HookTimeout, PollCancel, Escalate, Kill, WriteHeartbeat,
     FireFirstSuccess, Crash, Loops, ToFinalize, workerVars, Standing
<1>. QED
  BY <1>2, <1>3, <1>5, <1>6, <1>7, <1>8, WorkersStand

\* One manifest's hook is no other's: its job id names the plugin.
OwnHooks ==
  \A i, j \in SyncJobs : FirstRunHook[i] = FirstRunHook[j] /\ FirstRunHook[i] # NoJob => i = j

LEMMA HooksStep ==
  ASSUME "resume" \notin Ops, "retention" \notin Ops, OwnHooks, HookInv, [Next]_vars,
         SuccessIsWritten
  PROVE  HooksOK'
<1>1. /\ TypeOK /\ RowsOK /\ WorkersOK /\ ProcsOK /\ RowStep /\ Kept /\ TypeOK'
      /\ Inductive /\ NoneRequeued /\ Exclusive /\ OneChild /\ HooksOK /\ WorkersOK'
  BY InductiveStep DEF HookInv, Inductive
<1>2. \A r \in RunId : status'[r] # "deleted"
  <2>1. \A r \in RunId : status[r] # "deleted"
    BY <1>1 DEF HooksOK
  <2>2. CASE Inserted
    BY <1>1, <2>1, <2>2 DEF Inserted, Insert, TypeOK
  <2>3. CASE Moved
    BY <1>1, <2>1, <2>3 DEF Moved, Moves, TypeOK
  <2>4. CASE Resolved
    BY <1>1, <2>1, <2>4 DEF Resolved, Terminal
  <2>5. CASE Recorded
    BY <1>1, <2>1, <2>5 DEF Recorded, Terminal, TypeOK
  <2>. QED
    BY <1>1, <2>2, <2>3, <2>4, <2>5 DEF RowStep, Pruned
\* A run whose hook is due has nobody but its worker, which has finalized it.
<1>3. ASSUME NEW w \in Workers, pc[w] = "hook"
      PROVE  /\ Run(w) \in RunId /\ job[Run(w)] \in SyncJobs /\ status[Run(w)] = "success"
             /\ \A v \in Workers : v # w /\ Busy(v) => Run(v) # Run(w)
             /\ \A p \in Procs : proc[p].state # "free" => proc[p].run # Run(w)
  <2>1. Busy(w)
    BY <1>3 DEF Busy
  <2>2. WorkerOK(w)
    BY <1>1 DEF WorkersOK
  <2>3. Run(w) \in RunId /\ Child(w) \notin Procs /\ job[Run(w)] \in SyncJobs
    BY <1>3, <2>1, <2>2 DEF WorkerOK, IsSync
  <2>4. status[Run(w)] = "success"
    BY <1>1, <1>3 DEF HooksOK
  <2>5. \A v \in Workers : v # w /\ Busy(v) => Run(v) # Run(w)
    BY <1>1, <2>1 DEF Exclusive
  <2>6. \A p \in Procs : proc[p].state # "free" => proc[p].run # Run(w)
    BY <1>1, <2>1, <2>3 DEF OneChild
  <2>. QED
    BY <2>3, <2>4, <2>5, <2>6
<1>4. ASSUME NEW w \in Workers, pc'[w] = "hook" PROVE status'[Run(w)'] = "success"
  <2>1. \A r \in RunId : status[r] # "deleted"
    BY <1>1 DEF HooksOK
  <2>2. CASE Run(w)' = Run(w) /\ status'[Run(w)] = "success"
    BY <2>2
  <2>3. CASE pc[w] = "hook" /\ mem'[w] = mem[w]
    <3>1. ~ Executed(Run(w))
      BY <1>3, <2>3 DEF Executed, Executes, Busy, ProcAlive
    <3>. QED
      BY <1>1, <1>3, <2>3, <3>1, SuccessStays DEF Run
  <2>. QED
    BY <1>1, <1>4, <2>1, <2>2, <2>3, ToHook
<1>5. ASSUME NEW r \in RunId, job[r] \in HookJobs
      PROVE  \E x \in RunId : Settled(x)' /\ FirstRunHook[job'[x]] = job[r]
  <2>1. PICK x \in RunId : Settled(x) /\ FirstRunHook[job[x]] = job[r]
    BY <1>1, <1>5 DEF HooksOK
  <2>2. Settled(x)' /\ job'[x] = job[x]
    BY <1>1, <2>1, SettledStays
  <2>. QED
    BY <2>1, <2>2
<1>6. CASE \A r \in RunId : job'[r] \in HookJobs => job'[r] = job[r]
  BY <1>1, <1>2, <1>4, <1>5, <1>6 DEF HooksOK
<1>7. ASSUME NEW w \in Workers, pc[w] = "hook", FireFirstSuccess(w), FirstSuccess(job[Run(w)]),
             NEW n \in RunId, n = count + 1, job' = [job EXCEPT ![n] = FirstRunHook[job[Run(w)]]],
             job'[n] \in HookJobs
      PROVE  HooksOK'
  <2>0. PICK x \in RunId : x = Run(w)
    BY <1>3, <1>7
  <2>. DEFINE j == job[x]
  <2>1. /\ x \in RunId /\ j \in SyncJobs /\ status[x] = "success"
        /\ \A v \in Workers : v # w /\ Busy(v) => Run(v) # x
        /\ \A p \in Procs : proc[p].state # "free" => proc[p].run # x
    BY <1>3, <1>7, <2>0
  <2>2. /\ job'[n] = FirstRunHook[j] /\ status[n] = "absent" /\ x # n
        /\ \A r \in RunId : r # n => job'[r] = job[r]
    BY <1>1, <1>7, <2>0, <2>1 DEF TypeOK, RowsOK
  <2>3. ASSUME NEW q \in RunId, q # n, job[q] = FirstRunHook[j] PROVE FALSE
    <3>1. FirstRunHook[j] \in HookJobs
      BY <1>7, <2>2
    <3>2. PICK y \in RunId : Settled(y) /\ FirstRunHook[job[y]] = FirstRunHook[j]
      BY <1>1, <2>3, <3>1 DEF HooksOK
    <3>3. job[y] = j
      <4>1. FirstRunHook[j] # NoJob
        BY <3>1 DEF Jobs
      <4>2. job[y] \in SyncJobs
        BY <3>2 DEF Settled
      <4>. QED
        BY <2>1, <3>2, <4>1, <4>2 DEF OwnHooks
    <3>4. y # x /\ status[y] = "success"
      BY <1>7, <2>0, <3>2 DEF Settled, Busy
    <3>5. {x, y} \subseteq RunsOf(j, {"success"}) /\ IsFiniteSet(RunsOf(j, {"success"}))
      <4>1. RunsOf(j, {"success"}) \subseteq RunId /\ IsFiniteSet(RunId)
        BY FS_Interval DEF RunsOf, RunId
      <4>2. IsFiniteSet(RunsOf(j, {"success"}))
        BY <4>1, FS_Subset
      <4>3. {x, y} \subseteq RunsOf(j, {"success"})
        BY <2>1, <3>3, <3>4 DEF RunsOf
      <4>. QED
        BY <4>2, <4>3
    <3>6. PICK z : RunsOf(j, {"success"}) = {z}
      BY <1>7, <2>0, <3>5, FS_Singleton DEF FirstSuccess
    <3>. QED
      BY <3>4, <3>5, <3>6
  <2>4. Settled(x)'
    <3>1. status' = [status EXCEPT ![n] = "queued"] /\ UNCHANGED proc
      <4>1. UNCHANGED rowVars \/ Insert(FirstRunHook[job[Run(w)]], "queued", 0)
        BY <1>7 DEF FireFirstSuccess
      <4>2. job'[n] # job[n]
        BY <1>1, <1>7, <2>2 DEF RowsOK, Jobs
      <4>. QED
        BY <1>7, <4>1, <4>2 DEF FireFirstSuccess, Insert, rowVars
    <3>2. pc'[w] = "idle" /\ \A v \in Workers : v # w => pc'[v] = pc[v] /\ mem'[v] = mem[v]
      BY <1>1, <1>7 DEF FireFirstSuccess, Loops, TypeOK
    <3>3. \A v \in Workers : Busy(v)' => Run(v)' # x
      BY <2>1, <3>2 DEF Busy, Run
    <3>4. status'[x] = "success" /\ job'[x] = j
      BY <1>1, <2>1, <2>2, <3>1 DEF TypeOK
    <3>. QED
      BY <2>1, <3>1, <3>3, <3>4 DEF Settled
  <2>5. FirstRunHook[job'[x]] = job'[n]
    BY <2>1, <2>2
  <2>6. ASSUME NEW r \in RunId, job'[r] \in HookJobs
        PROVE  /\ \E y \in RunId : Settled(y)' /\ FirstRunHook[job'[y]] = job'[r]
               /\ \A q \in RunId : job'[q] = job'[r] => q = r
    <3>1. CASE r = n
      <4>1. \A q \in RunId : job'[q] = job'[r] => q = r
        BY <2>2, <2>3, <3>1
      <4>. QED
        BY <2>1, <2>4, <2>5, <3>1, <4>1
    <3>2. CASE r # n
      <4>1. job'[r] = job[r]
        BY <2>2, <3>2
      <4>2. \A q \in RunId : q # n /\ job'[q] = job'[r] => q = r
        BY <1>1, <2>2, <2>6, <4>1 DEF HooksOK
      <4>3. job'[n] # job'[r]
        BY <2>2, <2>3, <3>2, <4>1
      <4>4. \E y \in RunId : Settled(y)' /\ FirstRunHook[job'[y]] = job'[r]
        BY <1>5, <2>6, <4>1
      <4>. QED
        BY <4>2, <4>3, <4>4
    <3>. QED
      BY <3>1, <3>2
  <2>. QED
    BY <1>2, <1>4, <2>6 DEF HooksOK
<1>. QED
  BY <1>1, <1>6, <1>7, HookFrom

\* However many workers, callers and runs started by hand there are, and
\* whichever of them die: a plugin's first-success hook is enqueued once, as long
\* as every success is written, none is deleted by the retention, and no run is
\* resumed under its executor's feet.
THEOREM HookIsForOnce ==
  ASSUME "resume" \notin Ops, "retention" \notin Ops, OwnHooks
  PROVE  Spec /\ [][SuccessIsWritten]_vars => []HookAtMostOnce
<1>1. Init => HookInv
  <2>1. ASSUME Init PROVE NoneRequeued /\ Exclusive /\ OneChild
    BY <2>1 DEF Init, NoneRequeued, Exclusive, OneChild, Busy, NoSubprocess
  <2>2. ASSUME Init PROVE HooksOK
    BY <2>2 DEF Init, HooksOK, Jobs
  <2>. QED
    BY <2>1, <2>2, InductiveInit DEF HookInv
<1>2. HookInv /\ [Next]_vars /\ [SuccessIsWritten]_vars => HookInv'
  <2>1. ASSUME HookInv, [Next]_vars, [SuccessIsWritten]_vars PROVE HookInv'
    <3>1. Inductive' /\ (NoneRequeued /\ Exclusive)' /\ OneChild'
      BY <2>1, InductiveStep, ExclusiveStep, OneChildStep DEF HookInv
    <3>2. HooksOK'
      <4>1. CASE SuccessIsWritten
        BY <2>1, <4>1, HooksStep
      <4>2. CASE UNCHANGED vars
        <5>1. UNCHANGED <<job, status, pc, mem, proc>>
          BY <4>2 DEF vars
        <5>. QED
          BY <2>1, <5>1 DEF HookInv, HooksOK, Settled, Busy, Run
      <4>. QED
        BY <2>1, <4>1, <4>2
    <3>. QED
      BY <3>1, <3>2 DEF HookInv
  <2>. QED
    BY <2>1
<1>3. HookInv => HookAtMostOnce
  <2> SUFFICES ASSUME HookInv, NEW h \in HookJobs
               PROVE  Cardinality({r \in RunId : job[r] = h}) <= 1
    BY DEF HookAtMostOnce
  <2>. DEFINE S == {r \in RunId : job[r] = h}
  <2>1. CASE S = {}
    BY <2>1, FS_EmptySet
  <2>2. ASSUME NEW r \in S PROVE Cardinality(S) = 1
    <3>1. S = {r}
      BY <2>2 DEF HookInv, HooksOK
    <3>. QED
      BY <3>1, FS_Singleton
  <2>. QED
    BY <2>1, <2>2
<1>. QED
  BY <1>1, <1>2, <1>3, PTL DEF Spec
=============================================================================
