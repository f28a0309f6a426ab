--------------------------- MODULE SyncScheduler ---------------------------
(***************************************************************************)
(* run_scheduler.py: when a plugin's scheduled sync is put into the queue. *)
(*                                                                         *)
(* The scheduler makes a pass every PollInterval to PollInterval + Jitter. *)
(* A pass reads the plugin's cron, then its row of sync_schedule_registry, *)
(* works out which slot is due, looks for an active run, inserts the run,  *)
(* and remembers the enqueue in the registry: five transactions, between   *)
(* which it may die, a transaction may fail, runs end, and operators       *)
(* change the schedule.  The row's last_enqueued_at is all that tells a    *)
(* slot that was fired from one that was not.                              *)
(*                                                                         *)
(* One plugin; what happens to it does not depend on the others, but for   *)
(* the sweep of rows at the end of a pass, which an empty plugin list      *)
(* skips.  Time is counted in units of five seconds.                       *)
(***************************************************************************)
EXTENDS Naturals

CONSTANTS
  Crons,         \* valid cron expressions
  Period,        \* [Crons -> distance of its slots]
  NoCron,        \* no schedule declared, no override set
  BadCron,       \* a manifest's schedule that croniter rejects
  Schedulers,    \* scheduler processes (PM2 runs one)
  PollInterval, Jitter, Slack,  \* the pause, its jitter, and how long a pass may take
  Window,        \* ENQUEUE_DEDUP_WINDOW_SEC
  NoRow, Null,   \* no registry row; last_enqueued_at IS NULL
  Faults,        \* which of "crash", "database", "operator" may interfere
  MaxFaults,     \* bound: how often they do
  StartTimes,    \* when the model begins, relative to the slots
  Horizon        \* bound: when the clock stops

ASSUME CronsAssumption ==
  /\ Period \in [Crons -> Nat \ {0}]
  /\ NoCron \notin Crons /\ BadCron \notin Crons /\ NoCron # BadCron
ASSUME TimesAssumption ==
  /\ {PollInterval, Jitter, Slack, Window, MaxFaults, Horizon} \subseteq Nat
  /\ PollInterval > Slack
ASSUME RowsAssumption   == NoRow \notin Nat /\ Null \notin Nat /\ NoRow # Null
ASSUME StartAssumption  == StartTimes \subseteq 0 .. Horizon
ASSUME FaultsAssumption == Faults \subseteq {"crash", "database", "operator"}

Time == 0 .. Horizon

VARIABLES
  now,
  manifest, override,  \* the cron of plugin.yaml, and of plugin_settings._sync_schedule
  installed,           \* the plugin is in plugin_registry
  others,              \* so is some other plugin
  registry,            \* NoRow, or last_enqueued_at of the plugin's row
  active,              \* runs of the plugin that are queued, running or cancelling
  pc, started,         \* [Schedulers -> place in the pass, and when it began]
  mem,                 \* [Schedulers -> the pass's plugin list, cron and next_fire_at]
  faults,              \* how often something interfered
  fired,               \* history: [slot -> runs enqueued for it]
  decided,             \* history: when the last due slot was fired or skipped
  steady,              \* history: when a pass was last lost, or the schedule changed
  unknown,             \* history: enqueues whose record found no row
  unchecked            \* history: checks for an active run that failed

passVars    == <<pc, started, mem>>
planVars    == <<manifest, override, installed, others>>
historyVars == <<fired, decided, steady, unknown, unchecked>>
vars == <<now, planVars, registry, active, passVars, faults, historyVars>>

-----------------------------------------------------------------------------
(* Slots *)

\* croniter.get_next and get_prev: strictly after, strictly before.
NextSlot(cron, t) == ((t \div Period[cron]) + 1) * Period[cron]
HasPrev(t)        == t > 0
PrevSlot(cron, t) == ((t - 1) \div Period[cron]) * Period[cron]

\* Mutation: the grace forgets the jitter.
GraceWithoutJitter == PollInterval + Slack

\* grace_sec: a slot of a cold row may be this old.
Grace == PollInterval + Jitter + Slack

\* next_fire_at: warm rows go on from the last enqueue, cold ones from now.
NextFire(cron, last, t) ==
  LET inGrace == HasPrev(t) /\ t - PrevSlot(cron, t) <= Grace IN
  CASE last \in Nat                      -> NextSlot(cron, last)
    [] last \notin Nat /\ inGrace        -> PrevSlot(cron, t)
    [] last \notin Nat /\ ~ inGrace      -> NextSlot(cron, t)

\* should_enqueue
Due(fire, last, t) == fire <= t /\ (last \in Nat => t - last >= Window)

-----------------------------------------------------------------------------
PC  == {"down", "sleep", "decide", "check", "enqueue", "record", "refresh", "forget", "reap"}
Mem == [listed : {"yes", "no", "none"}, cron : Crons \cup {NoCron}, fire : Nat]

TypeOK ==
  /\ now \in Time
  /\ manifest \in Crons \cup {NoCron, BadCron}
  /\ override \in Crons \cup {NoCron}
  /\ installed \in BOOLEAN
  /\ others \in BOOLEAN
  /\ registry \in Time \cup {NoRow, Null}
  /\ active \in Nat
  /\ pc \in [Schedulers -> PC]
  /\ started \in [Schedulers -> Time]
  /\ mem \in [Schedulers -> Mem]
  /\ faults \in 0 .. MaxFaults
  /\ fired \in [Time -> Nat]
  /\ decided \in Time
  /\ steady \in Time
  /\ unknown \in Nat
  /\ unchecked \in Nat

\* The locals of a pass that is over.  A pass's list has the plugin, has only
\* others, or has none.
Nothing == [listed |-> "no", cron |-> NoCron, fire |-> 0]

Asleep(s)  == pc[s] = "sleep"
InPass(s)  == pc[s] \notin {"down", "sleep"}

\* The plugin has been installed right after a pass, or is yet to be.
Init ==
  /\ now \in StartTimes
  /\ manifest \in Crons \cup {NoCron}
  /\ override = NoCron
  /\ installed \in BOOLEAN
  /\ others \in BOOLEAN
  /\ registry = NoRow
  /\ active = 0
  /\ pc = [s \in Schedulers |-> "sleep"]
  /\ started = [s \in Schedulers |-> now]
  /\ mem = [s \in Schedulers |-> Nothing]
  /\ faults = 0
  /\ fired = [t \in Time |-> 0]
  /\ decided = now
  /\ steady = now
  /\ unknown = 0
  /\ unchecked = 0

Interferes(kind) ==
  /\ kind \in Faults /\ faults < MaxFaults
  /\ faults' = faults + 1

\* Five seconds pass, unless a scheduler is due for its next pass, or its
\* pass has taken as long as a pass may take.
Tick ==
  /\ now < Horizon
  /\ \A s \in Schedulers :
       /\ Asleep(s) => now < started[s] + PollInterval + Jitter
       /\ InPass(s) => now < started[s] + Slack
  /\ now' = now + 1
  /\ UNCHANGED <<planVars, registry, active, passVars, faults, historyVars>>

-----------------------------------------------------------------------------
(* The pass over one plugin: _process_plugin *)

Goes(s, place) == pc' = [pc EXCEPT ![s] = place]

\* Mutation: the upsert writes last_enqueued_at as well.
UpsertedAnew == Null

\* _upsert_registry leaves last_enqueued_at of a row there is alone.
Upserted == IF registry = NoRow THEN Null ELSE registry

EffectiveCron == IF override # NoCron THEN override ELSE manifest

\* What a pass may take for the cron: an override that cannot be read is no
\* override, a manifest that cannot be (an update swaps the plugin's
\* directory) no schedule.
CronRead(cron) ==
  \/ cron = EffectiveCron /\ UNCHANGED <<faults, steady>>
  \/ cron = manifest /\ Interferes("database") /\ steady' = now
  \/ cron = override /\ Interferes("operator") /\ steady' = now

\* _list_installed_plugins, and the crons.  Without a schedule the registry
\* row goes; with one that does not parse it is only refreshed.
Begin(s, cron) ==
  /\ Asleep(s) /\ now >= started[s] + PollInterval
  /\ started' = [started EXCEPT ![s] = now]
  /\ CronRead(cron)
  /\ \/ /\ ~ installed
        /\ Goes(s, "reap")
        /\ mem' = [mem EXCEPT ![s].listed = IF others THEN "no" ELSE "none"]
     \/ /\ installed /\ cron = NoCron
        /\ Goes(s, "forget")
        /\ mem' = [mem EXCEPT ![s].listed = "yes"]
     \/ /\ installed /\ cron = BadCron
        /\ Goes(s, "refresh")
        /\ mem' = [mem EXCEPT ![s].listed = "yes"]
     \/ /\ installed /\ cron \in Crons
        /\ Goes(s, "decide")
        /\ mem' = [mem EXCEPT ![s].listed = "yes", ![s].cron = cron]
  /\ UNCHANGED <<now, planVars, registry, active, fired, decided, unknown, unchecked>>

\* plugin_registry cannot be read: the pass has no plugins, and reaps nothing.
ListFails(s) ==
  /\ Asleep(s) /\ now >= started[s] + PollInterval
  /\ Interferes("database")
  /\ started' = [started EXCEPT ![s] = now]
  /\ steady' = now
  /\ UNCHANGED <<now, planVars, registry, active, pc, mem, fired, decided, unknown, unchecked>>

\* What follows once the row is read.
DecideOn(s, last) ==
  LET fire == NextFire(mem[s].cron, last, now) IN
  /\ mem' = [mem EXCEPT ![s].fire = fire]
  /\ \/ Due(fire, last, now) /\ Goes(s, "check")
     \/ ~ Due(fire, last, now) /\ Goes(s, "refresh")

Decide(s) ==
  /\ pc[s] = "decide"
  /\ DecideOn(s, registry)
  /\ UNCHANGED <<now, planVars, registry, active, started, faults, historyVars>>

\* _read_registry_row answers None when its query fails.
DecideBlind(s) ==
  /\ pc[s] = "decide"
  /\ Interferes("database")
  /\ DecideOn(s, NoRow)
  /\ steady' = now
  /\ UNCHANGED <<now, planVars, registry, active, started, fired, decided, unknown, unchecked>>

\* Mutation: the prior run is not looked for.
MaySkipNever == TRUE

\* _has_active_run
MayEnqueue == active = 0

\* A slot that meets an active run is skipped, not consumed.
Check(s) ==
  /\ pc[s] = "check"
  /\ \/ MayEnqueue /\ Goes(s, "enqueue") /\ UNCHANGED decided
     \/ ~ MayEnqueue /\ Goes(s, "refresh") /\ decided' = now
  /\ UNCHANGED <<now, planVars, registry, active, started, mem, faults, fired, steady, unknown, unchecked>>

\* _has_active_run answers None when its query fails.
CheckFails(s) ==
  /\ pc[s] = "check"
  /\ Interferes("database")
  /\ Goes(s, "enqueue")
  /\ unchecked' = unchecked + 1
  /\ UNCHANGED <<now, planVars, registry, active, started, mem, fired, decided, steady, unknown>>

\* _enqueue_run
Enqueue(s) ==
  /\ pc[s] = "enqueue"
  /\ active' = active + 1
  /\ fired' = [fired EXCEPT ![mem[s].fire] = @ + 1]
  /\ decided' = now
  /\ Goes(s, "record")
  /\ UNCHANGED <<now, planVars, registry, started, mem, faults, steady, unknown, unchecked>>

\* _enqueue_run failed: the slot is left for the next pass.
EnqueueFails(s) ==
  /\ pc[s] = "enqueue"
  /\ Interferes("database")
  /\ steady' = now
  /\ Goes(s, "refresh")
  /\ UNCHANGED <<now, planVars, registry, active, started, mem, fired, decided, unknown, unchecked>>

\* Mutation: the row keeps the end of the window, not the enqueue.
RecordedUntil == IF registry = NoRow THEN NoRow ELSE now + Window

\* _record_enqueue: an UPDATE, which finds no row if there is none (yet).
Recorded == IF registry = NoRow THEN NoRow ELSE now

Record(s) ==
  /\ pc[s] = "record"
  /\ registry' = Recorded
  /\ unknown' = IF registry = NoRow THEN unknown + 1 ELSE unknown
  /\ Goes(s, "refresh")
  /\ UNCHANGED <<now, planVars, active, started, mem, faults, fired, decided, steady, unchecked>>

RecordFails(s) ==
  /\ pc[s] = "record"
  /\ Interferes("database")
  /\ Goes(s, "refresh")
  /\ UNCHANGED <<now, planVars, registry, active, started, mem, historyVars>>

\* _upsert_registry
Refresh(s) ==
  /\ pc[s] = "refresh"
  /\ registry' = Upserted
  /\ Goes(s, "reap")
  /\ UNCHANGED <<now, planVars, active, started, mem, faults, historyVars>>

RefreshFails(s) ==
  /\ pc[s] = "refresh"
  /\ Interferes("database")
  /\ Goes(s, "reap")
  /\ UNCHANGED <<now, planVars, registry, active, started, mem, historyVars>>

\* _delete_registry_row
Forget(s) ==
  /\ pc[s] = "forget"
  /\ registry' = NoRow
  /\ Goes(s, "reap")
  /\ UNCHANGED <<now, planVars, active, started, mem, faults, historyVars>>

ForgetFails(s) ==
  /\ pc[s] = "forget"
  /\ Interferes("database")
  /\ Goes(s, "reap")
  /\ UNCHANGED <<now, planVars, registry, active, started, mem, historyVars>>

\* Mutation: nothing is reaped.
ReapedNever(listed) == registry

\* _reap_uninstalled, by the list the pass began with: an empty one, which may
\* be a failed read, reaps nothing.
Reaped(listed) == IF listed = "no" THEN NoRow ELSE registry

Reap(s) ==
  /\ pc[s] = "reap"
  /\ registry' = Reaped(mem[s].listed)
  /\ Goes(s, "sleep")
  /\ mem' = [mem EXCEPT ![s] = Nothing]
  /\ UNCHANGED <<now, planVars, active, started, faults, historyVars>>

ReapFails(s) ==
  /\ pc[s] = "reap"
  /\ Interferes("database")
  /\ steady' = now
  /\ Goes(s, "sleep")
  /\ mem' = [mem EXCEPT ![s] = Nothing]
  /\ UNCHANGED <<now, planVars, registry, active, started, fired, decided, unknown, unchecked>>

-----------------------------------------------------------------------------
(* The rest of the world *)

RunEnds ==
  /\ active > 0
  /\ active' = active - 1
  /\ UNCHANGED <<now, planVars, registry, passVars, faults, historyVars>>

Crash(s) ==
  /\ pc[s] # "down"
  /\ Interferes("crash")
  /\ Goes(s, "down")
  /\ mem' = [mem EXCEPT ![s] = Nothing]
  /\ UNCHANGED <<now, planVars, registry, active, started, historyVars>>

\* PM2 restarts it: main's loop begins with a pass.
Restart(s) ==
  /\ pc[s] = "down"
  /\ now >= PollInterval
  /\ Goes(s, "sleep")
  /\ started' = [started EXCEPT ![s] = now - PollInterval]
  /\ steady' = now
  /\ UNCHANGED <<now, planVars, registry, active, mem, faults, fired, decided, unknown, unchecked>>

\* set_sync_schedule: the override and the deletion of the row, in one
\* transaction.
SetSchedule(cron) ==
  /\ installed
  /\ Interferes("operator")
  /\ override' = cron
  /\ registry' = NoRow
  /\ steady' = now
  /\ UNCHANGED <<now, manifest, installed, others, active, passVars, fired, decided, unknown, unchecked>>

\* An update of the plugin brings another schedule; the row stays.
UpdateManifest(cron) ==
  /\ installed
  /\ Interferes("operator")
  /\ manifest' = cron
  /\ steady' = now
  /\ UNCHANGED <<now, override, installed, others, registry, active, passVars, fired, decided, unknown, unchecked>>

\* _purge_plugin_db_rows
Uninstall ==
  /\ installed
  /\ Interferes("operator")
  /\ installed' = FALSE
  /\ override' = NoCron
  /\ registry' = NoRow
  /\ steady' = now
  /\ UNCHANGED <<now, manifest, others, active, passVars, fired, decided, unknown, unchecked>>

Install ==
  /\ ~ installed
  /\ Interferes("operator")
  /\ installed' = TRUE
  /\ steady' = now
  /\ UNCHANGED <<now, manifest, override, others, registry, active, passVars, fired, decided, unknown, unchecked>>

\* The last other plugin goes, or a first one comes.
OthersChange ==
  /\ Interferes("operator")
  /\ others' = ~ others
  /\ steady' = now
  /\ UNCHANGED <<now, manifest, override, installed, registry, active, passVars, fired, decided,
                 unknown, unchecked>>

SchedulerNext(s) ==
  \/ \E cron \in Crons \cup {NoCron, BadCron} : Begin(s, cron)
  \/ ListFails(s)
  \/ Decide(s) \/ DecideBlind(s)
  \/ Check(s) \/ CheckFails(s)
  \/ Enqueue(s) \/ EnqueueFails(s)
  \/ Record(s) \/ RecordFails(s)
  \/ Refresh(s) \/ RefreshFails(s)
  \/ Forget(s) \/ ForgetFails(s)
  \/ Reap(s) \/ ReapFails(s)
  \/ Crash(s) \/ Restart(s)

OperatorNext ==
  \/ \E cron \in Crons \cup {NoCron} : SetSchedule(cron)
  \/ \E cron \in Crons \cup {NoCron, BadCron} : UpdateManifest(cron)
  \/ Uninstall \/ Install \/ OthersChange

Next ==
  \/ Tick
  \/ \E s \in Schedulers : SchedulerNext(s)
  \/ RunEnds
  \/ OperatorNext

Spec == Init /\ [][Next]_vars

-----------------------------------------------------------------------------
(* Properties *)

\* What comes up is dealt with by the end of the next pass.
ByNextPass == PollInterval + Jitter + Slack

\* The scheduler alone never has two runs of the plugin in flight, whatever
\* fails, dies or is changed ("the platform's contract is one in-flight run
\* per plugin at a time"), but for a check that fails open.
OneScheduled == active <= 1 + unchecked

\* No later pass fires a slot again, however often the row is cold: only an
\* enqueue the registry never learned of, or an interference, lets a slot be
\* fired once more.
FiredOnceUnlessForgotten == \A t \in Time : fired[t] <= 1 + unknown + faults

\* While the schedule stands and the scheduler lives, no slot goes by: the
\* next pass fires it, or skips it for an active run; if an enqueue of less
\* than a Window before it holds it back, then one pass later.  A cold row,
\* whose anchor moves with the clock, must not starve.  The Slack is for an
\* enqueue that catches up an earlier slot: the row keeps the time of its
\* record, and a slot that comes in between counts as fired.
NoSlotGoesBy ==
  LET cron == EffectiveCron IN
  installed /\ cron \in Crons /\ (\A s \in Schedulers : pc[s] # "down") =>
    \A t \in Time :
      t % Period[cron] = 0 /\ steady < t =>
        /\ t + ByNextPass < now => t <= decided + Slack + Window
        /\ t + ByNextPass + PollInterval + Jitter < now => t <= decided + Slack

\* Two passes after an uninstall no registry row is left, though a pass that
\* was under way may have put one back: a later pass reaps it.  But only if
\* another plugin is installed: the row of the last plugin is put back for
\* good.
UninstalledIsForgotten ==
  ~ installed /\ others /\ (\A s \in Schedulers : pc[s] # "down")
    /\ now > steady + 2 * ByNextPass => registry = NoRow
=============================================================================
