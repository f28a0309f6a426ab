# NousViz verification

TLA+ models of NousViz, the TLC runs that check them, and TLAPS proofs about
them. The source is the reference: every definition names the lines it stands
for in `PROJECT.json` ("map"), and where the code and its comments disagree the
model follows the code.

| module | what it is |
| --- | --- |
| `JobRuns.tla` | the `job_runs` table and everything that writes it: API requests, scheduler, workers, plugin subprocesses, retention |
| `RunLifecycle.tla` | what that table promises about one run, whoever writes its row |
| `SyncScheduler.tla` | when `run_scheduler.py` fires a slot of a plugin's cron |
| `PluginLifecycle.tla` | install, update and uninstall of a plugin: directories, migrations, tables, grants, rows |
| `PluginPresence.tla` | what those three promise: one version or none |
| `CredentialBroker.tla`, `BrokerProcesses.tla` | the tokens with which a run's processes fetch credentials, and the SDK's client; which runs and processes there are |
| `DiagnosticAlerts.tla` | the bridge from critical findings to webhooks |
| `AlertRules.tla` | alert rules and the runner that checks them |
| `Accounts.tla` | accounts, roles and invites, written by overlapping requests |
| `Sessions.tla` | logins, sessions, password changes and resets of one user |
| `Overrides.tla` | a role's permission, its overrides, and the cache of each API worker |
| `ResourceAccess.tla` | one decision about a resource, made of several transactions |
| `MC*.tla`, `*.cfg` | the instances for TLC |
| `JobRuns_proofs.tla`, `SyncScheduler_proofs.tla`, `PluginLifecycle_proofs.tla`, `CredentialBroker_proofs.tla` | the proofs about each |
| `Alerts_proofs.tla` | those about `DiagnosticAlerts` and `AlertRules` |
| `Overrides_proofs.tla`, `Accounts_proofs.tla` | those about `Overrides`; about `Accounts`, `Sessions` and `ResourceAccess` |

Run a model with `tlc -config JobRuns_core.cfg MCJobRuns.tla` (the run's name is
the cfg's, its module is in `PROJECT.json`), the proofs with
`tlapm JobRuns_proofs.tla`.

## 1. The system

NousViz is a FastAPI application (several API processes), a React front end, one
jobs-worker and one scheduler kept alive by PM2, plugins that run as
subprocesses, cron jobs (alerts, retention, snapshots), and one Postgres
database through which all of them meet. Nothing is shared in memory between
the processes; almost every operation is one or more short transactions of
`get_pg_conn()`, and hardly any takes a lock beyond the row lock of a statement.
That is where the system is hard: what one transaction has read may be gone
when the next one writes.

### Components

**Job runs: queue, worker, controls** (`apps/worker/src/run_jobs.py`,
`routes/sync.py`, `routes/jobs.py`, `sdk/nousviz_sdk/sync.py`, `jobs.py`).
State: the rows of `job_runs` (status, `heartbeat_at`), the worker's locals, its
subprocess. Operations: trigger, schedule, cancel, force-cancel, pause, resume,
claim (`FOR UPDATE SKIP LOCKED`), spawn, supervise with cancel, timeout, SIGTERM
and SIGKILL, finalize, sweep of orphans, standalone sync. Hard: five kinds of
process write one row; check and enqueue are two transactions; a request decides
on a row it read earlier; a subprocess in its own session survives its worker.
Correct when a final row stays final, no run is executed twice at once, a live
worker is never taken for dead, every accepted run ends, outcomes are written by
whoever executes the run, and the row goes through the lifecycle only.

**Sync scheduler** (`run_scheduler.py`). State: `sync_schedule_registry`
(`last_enqueued_at`), overrides in `plugin_settings`. A pass every 30 to 35
seconds reads crons and row, decides, checks for an active run, enqueues,
records, refreshes, and reaps. Hard: the passes are not atomic and the enqueue
and the record of it are two transactions; an operator deletes the row in
between; a cold row's anchor moves with the clock. Correct when no slot goes by,
none is fired twice, no two runs overlap, and nothing is kept of a plugin that
is gone.

**Credential broker** (`credential_broker.py`). A Unix socket in the worker on
which a subprocess redeems a token for credentials; tokens are single-use or
scoped to a run, bounded in number and age, and released by finalization. A
request is a thread of the worker: the token is looked up and consumed under the
lock, the credentials are read and sent outside it. Correct when a single-use
token is accepted once, a token of a finished run never, and none stays in the
table for ever.

**Failure alerts of jobs** (`services/job_alerts.py`), **diagnostic alerts**
(`services/diagnostic_alerts.py`), **alert rules** (`run_alerts.py`). Each sends
webhooks: the first once for every failed run, the others under a cooldown kept
in a row. Hard: a send and the row that remembers it are separate, in different
orders in different places; a resolved finding deletes the row its cooldown
lives in. Correct when a failure is announced, a flapping one not more often than
the cooldown, and one broken rule does not silence the others.

**Retention** (`services/retention.py`). Deletes old rows table by table in
batches under a policy. What other components conclude from rows that are no
longer there is its hazard.

**Authentication** (`routes/auth.py`, `scripts/reset_password.py`, the `users`
command of `routes/admin.py`): users, sessions, invites, password resets.
Handlers are functions in threads of two gunicorn workers; check and use are
separate transactions. Correct when a password reset ends every session, an
invite makes one account with the restriction it names, and an installation
keeps a superadmin (a deferred trigger of migration 029 counts them).

**Role-based access and resource ACLs** (`rbac/*`, the role routes of
`routes/system.py`): a catalogue of permissions per role, overrides and custom
roles in the database, and in each worker a cache of 30 seconds (5 after a
failed query) that only the worker taking an edit empties; decisions about
resources look up owner, grants and the default policy one transaction each.
Correct when an edit is seen everywhere in bounded time and at once where it was
taken, a name used again inherits nothing, and every verdict has a reason.

**Plugin management** (`routes/plugins.py`, `plugin_loader.py`,
`plugin_hooks.py`, `plugin_update_checker.py`): install by clone, requirements,
migrations, grants; update through a staged directory, two renames and a
rollback; uninstall by down-migrations, removal of the directory and a purge of
rows. Correct when a plugin is entirely there or not at all, after a crash or a
failure at any step, and old code never runs on new tables.

**Connections and credentials** (`core/connections/manager.py`,
`plugin_credentials.py`), **OAuth** (`routes/oauth.py`: the flow row, its state
parameter, the exchange), **share links** (`routes/share.py`).

**Health, diagnostics, metrics**; **query, datasets, catalog, dashboards, notes,
annotations** (single-statement CRUD); **web front end**; **generated API
clients**; **CLI and operations scripts** (PM2's `ecosystem.config.js` decides
what restarts).

### Interactions

- The API and the scheduler hand runs to the worker by inserting `queued` rows;
  operators reach the worker by changing a row's status, which its loop polls.
- The worker starts a plugin's subprocess with a run id and a broker token; the
  subprocess reports through the row and its exit code.
- A finished sync calls the failure alert, or the first-success hook, which is
  another queued row.
- Installing, updating and uninstalling a plugin change what the scheduler finds
  in `plugin_registry`, in the manifest and in the registry row.
- Retention deletes rows the first-success hook counts.
- The worker's finalization takes a run's token back; the loader of the API
  accepts a plugin's code only under the SHA that install or update recorded.
- Suspension and roles decide who may log in and manage; sessions outlive both
  and are checked against them on each request.

## 2. The plan

Done:

1. `JobRuns`, `RunLifecycle` and their proofs: the core.
2. `SyncScheduler` and its proofs.
3. `PluginLifecycle`, which implements `PluginPresence`, and its proofs.
4. `CredentialBroker` and its proofs.
5. `DiagnosticAlerts` and `AlertRules`, and their proofs. They order the send and
   the record differently, so that one specification of a cooldown for both says
   less than the properties of each.
6. `Accounts` and `Sessions`, and their proofs.
7. `Overrides` and `ResourceAccess`, and their proofs.

With these every invariant, action property and refinement that a passing run
checks is also a theorem, under the assumptions its section names. The three
liveness properties (`InFlightResolves`, `TokensLeave`, `UndeliveredIsRetried`)
stay with TLC: fairness and ENABLED are out of the prover's reach.

Left, in this order:

1. Proofs under weaker assumptions: `ACopySurvives` beside uninstalls, and a
   bound of the hooks by the successes that retention deletes.
2. The OAuth callback: consuming a flow, the exchange and the storing of each
   field are separate transactions, and two flows of one plugin may mix theirs.
3. Impersonation, step-up and API keys beside `Sessions`.

The theorems worth having are, for each module, its type invariant, its
inductive safety invariants, and the refinement of its abstract specification;
progress stays with TLC. Where two modules share no state, one run holds both and
chooses at the start which of them moves.

## 3. `JobRuns`

### State and actions

A row is its id, `job_id`, `status` and `heartbeat_at`. The heartbeat is its age
in intervals of 10 s (`LIVE_HEARTBEAT_INTERVAL_SEC`), up to `StaleBeats`, which
stands for NULL as well and is what the 120 s of the sweep and the 90 s of the
force gate come to (a row between the two is treated as old, which only lets the
sweep come earlier). `req` is what an API request or the scheduler carries from
its first transaction to its second; `pc` and `mem` are the worker's place in
`main` and `_run_job` and its locals, `beat` its loop's clock; `proc` are the
plugin subprocesses, `tokens` the run-scoped tokens of the worker's broker,
`alerts` the webhooks sent. `checked`, a run's memory of the rows there were when
its check found the plugin idle, and `beat`'s `missed`, the heartbeats that failed
since the last that did not, are history.

Nothing keeps the row of a living worker fresh but its heartbeats: `Age` lets an
interval pass for any row that is running or being cancelled. All that is assumed
of time is in its guard: a loop comes round to a heartbeat that is due before the
next one is (it turns once a second), and the way from the claim to the loop takes
less than an interval. A heartbeat may fail, which `_write_heartbeat` swallows;
the loop then waits for the next. Hooks, finalization and the time after it have
no heartbeats, and age.

| action | code |
| --- | --- |
| `TriggerCheck`, `Enqueue` | `_enforce_concurrency`, `_enqueue_async_run` |
| `ScheduleCheck`, `Enqueue` | `_has_active_run`, `_enqueue_run` |
| `CheckFails`, `RequestLost` | the fail-open handlers; a request that dies between its transactions |
| `ControlRead`, `ControlWrite` | `_get_run` and the UPDATE of cancel, force-cancel, pause, resume |
| `Start`, `Sweep` | the sweep at startup and between two jobs |
| `Claim`, `Reject`, `Spawn`, `SpawnFails` | `_claim_next_job`, `_run_job` up to `Popen` |
| `ObserveExit`, `CollectRaises`, `PollCancel`, `Escalate`, `Kill`, `Timeout`, `HookTimeout`, `WriteHeartbeat` | the supervision loop |
| `Finalize`, `FinalizeFails`, `DispatchAlert`, `FireFirstSuccess` | `_finalize_run`, the alert and the hook after it |
| `Crash` | the worker dies at any point, its subprocess does not |
| `Age`, `Prune` | a heartbeat interval passes for a row; the retention job |
| `StandaloneStart`, `RunEnds`, `CompleteRun`, `CompleteRunFails`, `ProcExits`, `PluginHeartbeat` | `BaseSyncScript.main` and what plugins do otherwise |

One action is one transaction, one signal or one local decision. But for the
heartbeat, clock intervals are not counted: whatever may time out is an enabled
action. Because
the row lock makes each UPDATE atomic and Postgres re-evaluates its WHERE clause,
an UPDATE reads and writes in one step; what a handler decided on an earlier
SELECT stays in `req`.

`RunLifecycle` is the abstract specification: a run is submitted, begins, may be
held and released, may be told to stop, and closes for good. `JobRuns`
implements it under the mapping `PhaseOf`.

### Runs

| run | question | bounds |
| --- | --- | --- |
| `JobRuns_core` | `TypeOK`, `NoAbandonedChild`, `OnlyExecutorRewritesFinished`, `ImplementsLifecycle` | two runs, one client, one worker, two subprocess slots, one fault, all controls, `cancel_active` |
| `JobRuns_claims` | `ExclusiveClaim` | two workers, two runs, one fault, cancel, retention, standalone syncs, `queue_after` |
| `JobRuns_requests` | `SecondOnlyByOverlap`, `StaleOnlyIfMissed` | an API request and the scheduler, one worker, two runs, one fault, cancel, failing heartbeats, three intervals, `skip_if_running` |
| `JobRuns_overlap` | refutes `OneInFlight` | the same two, nothing failing; see section 10 |
| `JobRuns_live` | `InFlightResolves` under fairness | two runs, one fault, cancel, pause, failing checks, `cancel_active` |

- `SecondOnlyByOverlap` is what the check before the enqueue is worth. There are
  two API workers and a scheduler, each of which checks in one transaction and
  inserts in another, so two runs of a plugin can be in flight (`OneInFlight` does
  not hold). But a second one is there only if the first was inserted between the
  second's check and its INSERT, or if no check found the plugin idle before the
  second (it was let in by `queue_after` or `cancel_active`, by a check that
  failed, or by hand). A run that the check overlooks in some state, such as one
  being cancelled, breaks it.
- `StaleOnlyIfMissed`: the row of a worker at work looks dead only after all but
  two of its heartbeats in `StaleBeats` intervals failed in a row. With the code's
  twelve intervals that is ten: one interval is the way from the claim to the loop,
  which starts its clock anew though "initial claim already wrote heartbeat_at"
  (`run_jobs.py:700-702`), and one is the heartbeat that is due. Its mutant stops the
  heartbeats where the comment at 840-842 says that they stop ("heading terminal
  (timeout/cancel)"): the code stops them later, when the run is final, and a
  cancel that waits for its grace needs them.

Why these bounds are enough: no action relates more than two rows, except the
sweep, which treats each row alike, and the count of successes. Two
subprocess slots are the living one and the orphan of a worker that died. One
fault is one death or one failed finalization; a second one finds the same
state. Three intervals are the two that need no failure and one that does; the
other runs, where age matters only as old or not, have one. The safety properties
are also proved for every value of the constants.

### Fairness

`SystemFairness` asks that what the worker's loop can do it eventually does:
the loop blocks on nothing but its subprocess, and even that is polled; PM2
restarts it (`autorestart: true`), time passes, and a request accepted by an API
process is finished, unless it is lost (`RequestLost` stays possible).
`Finalize` and `FinalizeFails` are fair together: the database may fail, but only
`MaxFaults` times. `PluginFairness` asks that a plugin's script be finite.
Nothing is assumed of operators. Without `PluginFairness` a run supervised by a
living worker still ends, by its timeout; that of a dead worker's orphan need
not, since the orphan's `heartbeat()` keeps its row from being swept.

### What is proved

`JobRuns_proofs` proves, for any number of plugins, callers, workers,
subprocesses, runs and faults and any policies:

- `TypeCorrectness`, `ChildrenAreMinded`: the invariants of `JobRuns_core`;
- `StaleRunsWereMissed`: `StaleOnlyIfMissed`, for any number of workers and
  intervals;
- `TokensAreScoped`, `AlertsAreTrue`, `FinishedForGood`: `TokenScoped` (a token
  of the table belongs to an execution in progress), `AlertOnlyFinished` and
  `FinishedStaysFinished`, which no run checks any more, as the theorems say more;
- `OutcomesAreTheExecutors`: `OnlyExecutorRewritesFinished`;
- `Refinement`: `JobRuns` implements `RunLifecycle`;
- `ExclusiveClaims`: no two workers execute one run, if runs are not resumed;
- `SecondRunsOverlap`: `SecondOnlyByOverlap`, for any number of requests and
  schedulers, failing checks and runs by hand, if no run is resumed (a resume looks
  for no other run);
- `HookIsForOnce` (`HookAtMostOnce`): a plugin's first-success hook is enqueued
  at most once, if no run is resumed, retention is off, every success is written
  (`SuccessIsWritten`, a condition on the steps), and each plugin has hooks of its
  own (`OwnHooks`). Any number of workers, callers, runs by hand and deaths.

The assumptions are those `JobRuns` states about its constants, and for the last
three theorems those named in them.

The argument. `Inductive` joins the type invariant, what ties rows to the
counter (`RowsOK`), a worker's locals to its place in the loop (`WorkersOK`),
subprocesses to existing rows (`ProcsOK`), and the age of a row to what its
worker's clock lets it be (`BeatsOK`), to the safety invariants, which are not
inductive alone: that a token belongs to an execution in progress, for
instance, needs to know that a worker in `finalize` after a timeout goes back to
supervising. `InductiveStep` proves that every step preserves it, and also that
every step writes the table in one of five named ways (`RowStep`: a row is
inserted; one that is not final is moved; rows of the dead are resolved; the
executor records; retention prunes). The action properties, the refinement and
the last three theorems then argue about five kinds of writes and not about
thirty actions.

`HookAtMostOnce` counts rows over time, which no invariant about the present does.
`HookInv` turns it into one: every hook's row has a success of its plugin that is
`Settled`, which is to say nobody executes it any more, neither a worker nor a
subprocess (`OneChild`, `ExclusiveStep`); so nothing can overwrite it, and the
test for an earlier success, made before another hook is enqueued, finds it. Each
assumption is one of the ways in which the code does lose it: a resumed run is
executed twice and its success overwritten, retention deletes the success, and a
success whose write failed is not there to be found.

`SecondOnlyByOverlap` needs to know of a request on its way to its INSERT what its
check saw (`ChecksHold`): the rows there were then are closed or parked still, as
nobody resumes them.

Only model-checked: `InFlightResolves`. Only proved: `HookAtMostOnce`, which without
the assumptions does not hold (section 10).

## 4. `SyncScheduler`

One plugin and the clock, in units of five seconds: a pass every six to seven
units (30 s plus up to 5 s of jitter), at most one unit long, a grace of eight
(30 + 5 + 5 s), a dedup window of six. A pass is a sequence of transactions,
`Begin` (plugin list and crons), `Decide` (registry row, slot), `Check`,
`Enqueue`, `Record`, `Refresh` or `Forget`, `Reap`, each of which may fail in the
way the code swallows; between any two the scheduler may die, runs may end, and
operators may save an override (which deletes the row), update the plugin's
manifest, uninstall or install it. `registry` is the row's `last_enqueued_at`:
missing, NULL, or a time. Slots are the multiples of a cron's period, and
`NextSlot` and `PrevSlot` are croniter's `get_next` and `get_prev`, both strict.
`others` says whether some other plugin is installed, which comes and goes
(`OthersChange`): the sweep of rows does nothing for an empty list of plugins.
The manifest's swap during an update is a pass that reads no manifest.

`fired`, `decided`, `steady`, `unknown` and `unchecked` are history: which slots
were fired, when one was last fired or skipped, when a pass was last lost or the
schedule changed, how many enqueues found no row to be recorded in, and how many
checks failed open.

| run | question | bounds |
| --- | --- | --- |
| `SyncScheduler_slots` | `TypeOK`, `OneScheduled`, `FiredOnceUnlessForgotten`, `NoSlotGoesBy`, `UninstalledIsForgotten` | close to three minutes, a schedule of one or two minutes, one interference of any kind at any point |

They hold more than two periods of the shorter cron, so an interference
in one slot is seen in the next two; every distance of passes from slots occurs,
as the jitter accumulates. One interference at a time is what the code is written
for.

`NoSlotGoesBy` says by when a slot of a standing schedule is fired or skipped for
an active run: by the end of the next pass, or one pass later if the dedup window
keeps it back, as it does to a slot after a late one. It is not quite so: the row
keeps the time of the record and not the slot's. An enqueue that catches up an
earlier slot, skipped while a run was active, just before the next one is due,
and is recorded just after it, counts for both, and the next one is never fired.
That takes more than four minutes, which is beyond the bounds of the run (TLC
finds it with `Horizon = 54` and crashes only, if the `Slack` in `NoSlotGoesBy` is
left out); it came up in the proof. Hence the `Slack`: an enqueue within a pass's
length before the slot is taken for the slot's own.

The runs keep to one scheduler, as PM2 does: with two, `OneScheduled` fails
within two passes, since nothing in the code orders their checks and enqueues
(the comment at `run_scheduler.py:19-21` names a clause that is not there).

### What is proved

`SyncScheduler_proofs`, for any crons, periods, intervals, faults and horizon:

- `TypeCorrect`: the types, and that a pass only looks for a slot with a cron
  that parses;
- `OneInFlight` (`OneScheduled`) and `FiredOnce` (`FiredOnceUnlessForgotten`),
  for one scheduler (`Alone`), as PM2 runs;
- `NoSlotIsLost` (`NoSlotGoesBy`), for one scheduler and a dedup window no longer
  than the pause between passes (both are 30 s, `run_scheduler.py:75` and `84`;
  with a longer one a slot may be kept back for several passes);
- `Forgotten` (`UninstalledIsForgotten`), for any number of schedulers: two passes
  after an uninstall the row is gone, if another plugin was installed all the while.
  The row of the last plugin may stay (section 10).

For `OneInFlight` the strengthening `RunInv` is that a pass about to insert found
no active run, or its check failed: nobody else inserts. For `FiredOnce` it is
`SlotInv`: a slot that has been fired as often as it may be is either about to be
recorded by the pass that fired it, or lies at or before the row's
`last_enqueued_at`, where it stays, as no pass is about to drop the row or to
fire the slot from what an earlier row said. `PassInv` says what a pass knows at
each place it has come to.

The other two are about elapsed time. `Clocked` bounds the age of a pause and of
a pass. `Leftover` then says of an uninstalled plugin that only a pass from before
the uninstall takes it for installed, and that as long as there is a row nobody
has begun a pass that would have ended late enough to take it away. `Passing` says
of a slot that has come where each pass after it stands: before it acts, the pass
is in time for the grace of a cold row, or the row that kept the slot back in the
pass before no longer does (`BeforeActing`); after it, the slot has been dealt
with, but for a cold row read at the very slot and a row too recent (`AfterPass`).
`Recent` bounds how far the row's time may be from the enqueue it stands for.

## 5. `PluginLifecycle`

One plugin and the API's workers. A directory is absent, partial, or a version;
version v ships migrations 1..v, of which each creates one table. `live`,
`staging` and `backup` are `plugins/installed/<id>` and its siblings; the names
of the latter two end in a time in seconds, so two updates in one second share
them. `applied` is `schema_migrations`, `granted` what the role
`nousviz_plugin` may use, `row` the SHA in `plugin_registry`. A handler is
`async` and blocks its worker, so a worker is in one operation at a time.

| action | code |
| --- | --- |
| `InstallBegins`, `CloneStarts`, `CloneEnds`, `Validate`, `Register` | `install_plugin` |
| `UpdateBegins`, `Stage`, `MoveAside`, `Promote`, `Unswap`, `Record`, `Cleanup` | `update_plugin`: the staged clone, the two renames, the new SHA, the removal of the backup |
| `Rollback`, `Restore` | its rollback: the new directory out, the backup back |
| `ListMigrations`, `CheckMigration`, `RunMigration`, `Grant`, `Regrant` | `_run_plugin_migrations`, `_migration_skip_is_safe`, the grants |
| `UninstallBegins`, `Revoke`, `Down`, `Unrecord`, `DropTables`, `PurgeMigrations`, `RemoveDirectory`, `PurgeRows` | `uninstall_plugin` |
| `SettingsRead`, `SettingsWrite` | the routes that save settings or credentials |
| `Publish`, `Tick`, `Crash` | the source gets a version; the clock; a worker dies, also because gunicorn kills it after 120 s |

Each step fails in the ways the code handles. `mem.slip` marks an operation one
of whose own steps failed and was passed over by design; `harmed` a failure no
handler undoes (a death, a rollback that fails).

| run | question | bounds |
| --- | --- | --- |
| `PluginLifecycle_failures` | `TypeOK`, `UpdateKeepsItsWord`, `UninstalledIsGone`, `SettledHasTables`, `NothingLeftBehind`, `ImplementsPresence` | all operations, one at a time, three versions, two seconds, two failures or deaths anywhere; 794,000 states |
| `PluginLifecycle_races` | `SwapKeepsACopy` | two workers, installs and updates at once, within a second or not, one failure; 1.61 million states |
| `PluginLifecycle_rerun` | refutes `RecordedStaysRecorded` | no failure; see section 10 |

Three versions are an installed one, an update and an update of what that left;
two failures are one in an operation and one in its rollback, or in the next
operation that finds what the first left behind. `PluginPresence` is the
abstract specification: absent, or present in one version, and the only version
an update goes back to is the one it replaced.

### What is proved

`PluginLifecycle_proofs`, for any numbers of versions, seconds and failures:

- `TypeCorrect`: the types, for any operations at once;
- `UpdatesKeepTheirWord`, `UninstallsRemove`, `SettledPluginsWork`,
  `OperationsCleanUp` and `PresenceImplemented` (the other four invariants of
  `PluginLifecycle_failures` and the refinement of `PluginPresence`), for
  operations one at a time (`MaxAtOnce = 1`);
- `ACopySurvives` (`SwapKeepsACopy`), for any number of operations at once none
  of which is an uninstall.

`Orderly` is the invariant of the first group (`OneAtATime`): at each place of
each operation it says what is on disk, in the schema and in the rows, in terms of
what the operation found. The four invariants are not inductive even together: that
a rollback restores the version it found, for instance, needs to know since which
step the backup holds it, and that no other operation took its name. It is about
one operation at a time since nothing in the code keeps two apart: with the
bounds of `PluginLifecycle_races` TLC refutes `UpdateKeepsItsWord` and
`SettledHasTables` within 1,200 states.

`ACopySurvives` counts. An update that has moved a version aside and put nothing in
its place yet vouches for a copy (`Vouching`); one that would remove the live
directory in a rollback without a version to put back owes one (`Owing`), and an
install may yet remove what it validates (`Checking`). `CopyKept` says that those
who vouch make up for those who owe and for a live directory that is missing, or
that a backup is left which nobody will touch again (`Kept`). With uninstalls the
count fails: an update begun before one can roll a partial backup over a later
install, which is why the run leaves them out too.

## 6. `CredentialBroker`

A token is absent from the table, fresh, or past its `expires_at` and not swept
yet. `run` is a run's life as the broker sees it (`released` is between
`release_run` and the final row, `orphaned` after the worker's death), `thread`
the broker's thread for a client's request, between consuming the token
(`ConsumeToken`, under the lock) and fetching the credentials
(`FetchCredentials`, outside it). `client` is a process with the SDK's
`_broker_client`: the inherited descriptor from which one process reads the
token, its cache, and what it remembers of a failure. `Fork` copies all of that
but not the descriptor's contents; `PresentAgain` is a process that uses the
socket directly. `Spawn`, `ReleaseRun`, `RecordFinish`, `WorkerDies`, `Restart`
and `SweepOrphan` are the worker's side, `SweepTokens` the broker's sweep.

`Services`, a run that moves either the broker or one of the two senders of alerts
(section 7), checks its types (`BrokerTypeOK`), `SingleUseAcceptedOnce`,
`NoTokenOfFinishedRun` and `TokensLeave` with one run of either kind, two
processes of it, one key, stored or not, and one fault (92,000 states): tokens of
different runs have nothing to do with each other but the table, in which each
has its own entry. `TokensLeave` assumes that PM2 restarts the worker, that time
passes, that the sweep runs and that threads of the broker finish; nothing of
runs and plugins.

`NoTokenOfFinishedRun` keeps later requests out; one that was accepted before the
revocation is answered after it.

`CredentialBroker_proofs` proves the first three of `MCServices` (`BrokerMoves`: the
broker moves as `CredentialBroker` says, or not at all) for any runs, processes and
keys, and `OneRequestAtStartup`, which no run checks any more. `TokenInv` is the
strengthening of the first two: a run not under way has no entry, and a
single-use token in the table has not been accepted yet. `OnceInv` says of a
process of a single-use run that its number of requests follows from where it
is: one that holds a token and has not failed has sent none, and after its
request its cache is full or its failure remembered. `TokensLeave` stays with
TLC.

## 7. Alerts

`DiagnosticAlerts` is one pass after the other of the snapshot worker: collect
(`Begin`), then for each finding tell (`Detect`, `Resolve`: any subset of the
subscribed webhooks is reached) and write (`Upsert`, `Remove`), the known ones only
refreshed (`Touch`); a pass may die or its database fail between any two.
`AlertRules` is the runner, which loads the enabled rules and checks them on one
connection without autocommit: `aborted` is a transaction in which a statement
failed, and `since` its start, which is what `now()` returns. Routes that create,
enable, change and delete rules, and datasets that come and go, run beside it.

`Services` checks both, either moving (1.1 million states): one finding
(findings have a row each, and a pass handles them one by one), two webhooks (one
reached and one not), two rules (one silenced by another), one runner (PM2's cron
starts one), a cooldown of two ticks of which a run may stall one, one fault.

- `AlertedWasHeard`: the row says "alerted", which ends retries, only if some
  webhook knows; `DetectedOnce`: no webhook is told twice of one occurrence;
  `UndeliveredIsRetried`: a finding that stays is sent until it is delivered.
  The last assumes only that passes go on (PM2's cron).
- `SilencedOnlyBehindAFailure`: a rule that could fire throughout a run and did
  not was behind a failed statement; `SuccessMeansDecided`: a run recorded as a
  success has decided all its rules; `SpacedByCooldown`: two notifications are a
  cooldown apart, less the stall.

### What is proved

`Alerts_proofs`, for any findings, webhooks, rules, cooldowns and faults:

- `TypeCorrect`, `NothingAlertedUnheard` (`AlertedWasHeard`) and `NothingToldTwice`
  (`DetectedOnce`) of the bridge;
- `BothTypesCorrect` of bridge and runner;
- `SilenceHasACause` (`SilencedOnlyBehindAFailure`) and `SuccessesAreWhole`
  (`SuccessMeansDecided`), for any number of runners;
- `NotificationsAreSpaced` (`SpacedByCooldown`), for one runner (`Alone`), as
  PM2's cron starts it: two that overlap do break the cooldown.

`DInv` is the invariant of the bridge: a pass works on rows as it loaded them and
on one finding at a time (`PassInv`); a row says "alerted" of what was told, or of
what is being resolved (`RowInv`); and a webhook that knows of a finding was told
once and its row says so or is about to, unless it missed the end or a telling was
torn from its record (`HeardInv`). `RunOK` is that of a runner: as long as no
statement of its transaction failed, every rule that is due is fired or still to
come, and every one it loaded is decided or still to come. For the cooldown,
`Near` compares two clocks: `last_triggered_at` is the start of the run's
transaction and the notification comes later, by at most what a run may stall.

`UndeliveredIsRetried` is liveness and only model-checked. A behaviour of
`MCAlerts` moves either the bridge or the runner, so that a theorem about one of
them holds of it by `EitherMoves`.

## 8. Accounts and access

Four modules that share no variable; `MCAccounts` chooses which one moves.

`Accounts`: handlers read in one transaction (`InviteBegins`, `AcceptBegins`,
`ChangeBegins`) and write in a later one. `Change` is the UPDATE with the count
of the trigger, `Commit` its commit, between which the row stays locked.
`RegisterFirst` is the open first registration, which asks `_users_exist`, taken
for empty when the query fails; `InitialSetup` and `ConsoleCreates` the other two
ways to an account. `SuperadminLostOnlyToOverlap` names the one way to lose the
last superadmin: a commit during another one's. Settings of a user's plugins
read, compare and write under READ COMMITTED (`SetPlugins`); two that overlap may
merge (`SetPluginsTogether`).

`Sessions`: a login checks the password in one transaction and creates the
session in another; a reset ends the sessions it finds and then commits. A
session carries the number of the password it was opened with, so
`ResetEndsSessions` can say that one from before a reset survives only if its
login was under way during it.

`Overrides`: one permission of one role. `LookUp`, `Query`, `Store` are a
resolution in a worker; `EditBegins`, `Write`, `Invalidate` an edit.
`FreshAfterTTL`: no worker answers by what was in force before a change for
longer than the TTL (or `OutageTTL` if it could not ask). `SeenAtHome`: after its
answer the worker that took the edit knows of it, unless a lookup held its answer
then. `RowHasItsRole`: an override of a role that is not there was written by a
request that passed its check before the role's deletion and committed after it
(`belated`): such a row there is, and the next role of that name gets it.

`ResourceAccess`: `check_resource_access` asks owner, user grant, role grant,
role permission, default policy, each a transaction that may fail, while rules
change. `VerdictHasCause`: who is let in had a reason while being decided, who
had a grant all the while is let in, unless its lookup failed. It has no
constants, so that TLC's verdict is for every instance.

`Accounts_changes` (1.36 million states): two addresses, two requests, two
invites, a failing count; two reset links and two password changes; two workers,
a TTL of two ticks and an `OutageTTL` of one; all of `ResourceAccess`. Two
requests suffice for every overlap of a check with a write, two ticks tell an
entry that lives longer than it should from one that does not. Users and workers
have the same names in the cfg, since they never act in one behaviour and are
permuted together. `Accounts_audit` refutes `ConfirmedResetHolds`; see
section 10.

### What is proved

For any number of users, requests, invites, links, workers and times to live, all
that `Accounts_changes` checks:

- `Overrides_proofs`: the types, `FreshAfterTTL`, `SeenAtHome`,
  `RowHasItsRole`. `FreshInv`: a wrong entry was looked up before the last
  change, so that what it has left and the age of the change add up to TTL at
  most; the same of a lookup under way and its age. `SeenInv`: a worker with a
  wrong entry or answer in hand is one that need not know, or has yet to
  invalidate. `RowInv`: a request about to write an override had
  its role there when it checked, and has it still unless it is marked as crossed
  by a deletion.
- `Accounts_proofs`: `AllTypesCorrect`; `OneAccountPerInvite`
  (`InviteMakesItsAccount`), `SuperadminStays` (`SuperadminLostOnlyToOverlap`),
  `ResetsEndSessions` and `VerdictsHaveCause`.

`AccInv` says what a request carries from its first transaction to its second
(`ReqOK`: of an invite, the user it names and the limit it sets), that requests of
one invite agree on the user (`Agree`), what an invite's row says of the account
made of it (`InviteOK`), and that a change which its trigger let pass leaves a
superadmin, unless another was committed since (`LastOK`); the last is what
`SuperadminStays` needs at the commit. `ResetInv` says that one reset at a time
holds the row; that while it does, every login under way and every session its
UPDATE did not find is marked late; and that otherwise a login checked with a
password from before the last reset is. `AccessInv` says of a request that has
come to its n-th lookup that the ones behind it found nothing or failed.
`OneMoves`: a behaviour of `MCAccounts` moves one of the four parts.

## 9. What is not modelled

Of the components in section 1: OAuth flows are in the plan; health, metrics,
CRUD, the front end and the generated clients are not, since each of their
operations is one statement, or none. `PROJECT.json` lists
them all. Left out of what is modelled:

- `JobRuns`: what a plugin prints, progress and details of a row, the pipe that
  fills when nobody reads it, imports of jobs from PM2 and crontab, text and
  delivery of alerts.
- `SyncScheduler`: the other plugins of a pass but for whether there are any,
  columns that are only shown, time zones and
  irregular crons, runs not enqueued by the scheduler, which `JobRuns` has, and a
  second scheduler: with two, `OneScheduled` fails within two passes, as nothing
  orders their checks and enqueues (the comment at `run_scheduler.py:19-21`
  names a clause that is not there).
- `PluginLifecycle`: several plugins (dependencies, cascades), the catalogue,
  requirements, what a hook does, an uninstall beside an update.
- `CredentialBroker`: framing, limits on sizes and connections, a lost reply
  other than as a failure.
- Alerts: how findings and conditions are computed, texts, two alert runners.
- Accounts and access: impersonation, step-up, API keys, single sign-on,
  avatars, plugin access levels, the audit log's contents.

Fairness is assumed in two runs only, `JobRuns_live` and `Services`, as their
sections say.

## 10. Where the code and its comments disagree

Three runs check what the repository says and find it violated:

| run | the repository says | what the code does |
| --- | --- | --- |
| `JobRuns_overlap` | "the platform's contract is one in-flight run per plugin at a time" (`run_scheduler.py:467-468`; the 409 of `sync.py:228`) | check and INSERT are two transactions, in the scheduler as in `trigger_sync`, and no constraint forbids a second active row: a request and the scheduler, or two requests, both find the plugin idle and both enqueue |
| `PluginLifecycle_rerun` | a recorded migration is skipped (`plugins.py:2383`, `3307-3308`) | an update that adds a table asks whether all declared tables exist before the new migration has made it, so every recorded migration loses its record and is run again |
| `Accounts_audit` | "the password change itself succeeded" though its audit row was not written (`reset_password.py:165`; `auth.py:700-716`) | the INSERT's failure is caught inside the transaction, which is aborted by then: COMMIT is a rollback that raises nothing, and the answer is success. `forgot_password` (580-600) and `update_me` (1366-1385) do the same |

Met while modelling, without a run of their own:

Job runs and scheduler.

- "A force-cancel is refused while the worker is alive" (`jobs.py:759`): the
  UPDATE does not repeat the test.
- "A paused run stays paused" (`jobs.py:883`): worker and subprocess finalize
  over it.
- "An exit does not overwrite a timeout" (`run_jobs.py:721`): `_complete_run` and
  `main`'s handler do.
- "Orphans surface within three minutes" (`run_jobs.py:117`): one that calls
  `heartbeat()` does not.
- "The first-success hook is idempotent" (`plugin_hooks.py:132`): retention
  deletes the first success, or its write fails, and the next is a first again.
- "Polls within the window do not enqueue again" (`run_scheduler.py:271`), "no
  double fires on crash" (12-14): on a fresh row the record comes before the row,
  and a death between enqueue and record fires the slot again, once the first run
  has ended.
- "so we advance one slot per poll" (`run_scheduler.py:434`): the row takes the
  time of the record, so that an enqueue consumes every slot up to then.
- "Delete registry rows for plugins not in `installed_slugs`"
  (`run_scheduler.py:305`): not if there are none at all (307-308). The row of the
  last plugin, put back by a pass that was under way when it was uninstalled,
  stays until a plugin is installed again.
- "Skip while the run is already heading terminal (timeout/cancel)"
  (`run_jobs.py:840-842`): heartbeats go on until the run is final, and have to.
- A cancel accepted while the plugin is finishing has no effect; a hook of more
  than two minutes is stale under its worker, as hooks write no heartbeat.

Plugins.

- Uninstall with `remove_data` leaves the table of a newer version that was
  rolled back, which the old manifest does not declare; cascaded dependents skip
  `_drop_declared_tables` (against the comment at 2972-2975).
- A death after the clone makes every later install answer
  "already_installed", with no migration run.
- Leftover backup and staging directories are picked up by `discover_plugins`.
- The write of the new SHA is "informational" (3358), but the loader refuses code
  under another SHA (against 3329-3332).
- An uninstall that dies between the directory and the rows leaves the rows: a
  second one answers 404, and a reinstall finds them.
- "Rolled back to v..." is answered even if the restore failed.

Alerts.

- A rule whose query fails silences all rules after it (`run_alerts.py:482`;
  line 4: "Checks all enabled alerts").
- The cooldown described at `diagnostic_alerts.py:18-20` never applies.
- A delivery to one of two webhooks is never retried for the other, a webhook
  subscribed later is not told, and "resolved" is sent of findings never
  announced; a death between telling "resolved" and deleting the row silences the
  next occurrence.
- A death between the record and the send silences a rule for its cooldown; two
  runners that overlap break it.

Accounts and access.

- "Prevents reducing the superadmin count to zero" (migration 029): two
  overlapping demotions both pass the trigger.
- Two first registrations at once both make a superadmin, and a failing count is
  taken for an empty installation (`_users_exist`).
- One reset link serves two overlapping requests; changing the password in
  `update_me` or with the console's command keeps the sessions.
- `register` reads the invite again and, if it was withdrawn meanwhile, drops its
  restriction; `accept_invite` keeps it.
- `users create` of the console does not lower-case the address.
- `users_role_check` of migration 029 lets no user hold a custom role, except one
  that is named `custom`.
- "Cache invalidated so the change is visible immediately" (`system.py:541-542`,
  `overrides.py:112-115`): not in the other of two workers
  (`ecosystem.config.js:21`), nor where a lookup was under way.
- "The role starts empty" (`system.py:764-765`): an override written while its
  role is being deleted stays and goes to the next role of that name, or by the
  UNIQUE constraint blocks its seed.
- Two overlapping settings of a user's plugins may each remove what the other
  keeps, and leave no row at all, which means every plugin
  (`plugin_visibility.py:226-229`).
- While the database is away a revoked default permission is back for five
  seconds, and the policy lookup fails open.
- Grants go by a dashboard's slug, outlive it (`dashboards.py:235`) and apply to
  the next one with that slug; `share.py:111` records "user" as the creator, so
  that the owner's right never applies to shares.
