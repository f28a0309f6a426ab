-------------------------- MODULE PluginLifecycle --------------------------
(***************************************************************************)
(* Install, update and uninstall of one plugin by the API's workers        *)
(* (routes/plugins.py): its directories, its migrations and tables, the    *)
(* grants on them and its rows.  One action is one transaction, one rename *)
(* or one removal of a directory; a worker may die between any two, and    *)
(* whatever the handlers catch may fail.  A handler is `async` and blocks  *)
(* its event loop, so a worker runs one operation at a time, and gunicorn  *)
(* kills a worker that has blocked for 120 seconds (ecosystem.config.js).  *)
(*                                                                         *)
(* Version v of the plugin ships the migrations 1..v; migration i creates  *)
(* table i, and the manifest of v declares the tables 1..v.                *)
(***************************************************************************)
EXTENDS Integers, FiniteSets, FiniteSetsExt

CONSTANTS Workers,     \* the API's worker processes
          MaxVersion,  \* bound: versions ever published
          MaxStamp,    \* bound: seconds the clock distinguishes
          MaxFaults,   \* bound: failures and deaths
          MaxAtOnce,   \* operations in progress at once
          Kinds,       \* the operations that are used
          Partial,     \* a directory without a manifest
          None         \* nothing there

ASSUME BoundsAssumption ==
  /\ MaxVersion \in Nat \ {0}
  /\ MaxStamp \in Nat
  /\ MaxFaults \in Nat
  /\ MaxAtOnce \in Nat
  /\ IsFiniteSet(Workers)
  /\ Kinds \subseteq {"install", "update", "uninstall", "settings"}
ASSUME MarkersAssumption == /\ None \notin 0..MaxVersion
                            /\ Partial \notin 0..MaxVersion
                            /\ None # Partial

Versions == 1..MaxVersion
Stamps == 0..MaxStamp
Dirs == Versions \cup {None, Partial}

VARIABLES
  latest,    \* the newest version of the source
  now,       \* int(time.time())
  live,      \* what plugins/installed/<id> holds
  staging,   \* <id>.staging.<ts>
  backup,    \* <id>.backup.<ts>
  applied,   \* migrations recorded in schema_migrations
  tables,    \* tables that exist
  granted,   \* tables the nousviz_plugin role may use
  row,       \* the version whose SHA plugin_registry records; 0 is a row without one
  settings,  \* whether the plugin has settings or credentials
  saving,    \* a request to save them has found the plugin
  pc,        \* each worker's place in its handler
  mem,       \* each worker's locals
  answer,    \* what each worker answered last, until the next operation begins
  faults,    \* failures so far
  owned,     \* history: installed and not uninstalled since
  harmed,    \* history: something failed that no handler undoes
  strays     \* history: settings were saved for a plugin that is not there

vars == <<latest, now, live, staging, backup, applied, tables, granted, row,
          settings, saving, pc, mem, answer, faults, owned, harmed, strays>>
files == <<live, staging, backup>>
schema == <<applied, tables, granted>>
rows == <<row, settings, strays>>
world == <<latest, now, saving>>

Places == {"idle", "stage", "aside", "promote", "unswap", "clone", "cloning",
           "validate", "register", "list", "check", "run", "grant", "record",
           "regrant", "rollback", "restore", "cleanup", "revoke", "down",
           "unrecord", "drop", "purgeMigrations", "remove", "purge"}
Locals == [kind : {"install", "update", "uninstall"}, stamp : Stamps,
           pre : Versions \cup {None}, post : Versions, todo : SUBSET Versions,
           declared : SUBSET Versions, data : BOOLEAN, slip : BOOLEAN]
Answers == {"none", "installed", "updated", "failed", "uninstalled"}

Idle(w) == pc[w] = "idle"
Quiet == \A w \in Workers : Idle(w)
InProgress == Cardinality({w \in Workers : ~Idle(w)})

DeclaresFromZero(d) == IF d \in Versions THEN 0..d ELSE {}

(* The tables the manifest of a directory declares.                         *)
Declares(d) == IF d \in Versions THEN 1..d ELSE {}

(* _verify_plugin_integrity: the loader takes a directory whose HEAD is the *)
(* recorded one, or of which nothing is recorded.                           *)
Loadable == row \in {None, 0} \/ row = live

TypeOK ==
  /\ latest \in Versions /\ now \in Stamps
  /\ live \in Dirs
  /\ staging \in [Stamps -> Versions \cup {None}]
  /\ backup \in [Stamps -> Dirs]
  /\ applied \subseteq Versions /\ tables \subseteq Versions /\ granted \subseteq Versions
  /\ row \in {None} \cup 0..MaxVersion
  /\ settings \in BOOLEAN /\ saving \in BOOLEAN
  /\ pc \in [Workers -> Places]
  /\ mem \in [Workers -> Locals]
  /\ answer \in [Workers -> Answers]
  /\ faults \in 0..MaxFaults
  /\ owned \in BOOLEAN /\ harmed \in BOOLEAN /\ strays \in BOOLEAN

NoLocals == [kind |-> "install", stamp |-> 0, pre |-> None, post |-> 1, todo |-> {},
             declared |-> {}, data |-> FALSE, slip |-> FALSE]

Init ==
  /\ latest = 1 /\ now = 0
  /\ live = None
  /\ staging = [s \in Stamps |-> None]
  /\ backup = [s \in Stamps |-> None]
  /\ applied = {} /\ tables = {} /\ granted = {}
  /\ row = None /\ settings = FALSE /\ saving = FALSE
  /\ pc = [w \in Workers |-> "idle"]
  /\ mem = [w \in Workers |-> NoLocals]
  /\ answer = [w \in Workers |-> "none"]
  /\ faults = 0 /\ owned = FALSE /\ harmed = FALSE /\ strays = FALSE

----------------------------------------------------------------------------
(* Steps of a handler.                                                      *)

Goto(w, place) == pc' = [pc EXCEPT ![w] = place] /\ UNCHANGED answer
Return(w, what) == /\ pc' = [pc EXCEPT ![w] = "idle"]
                   /\ answer' = [answer EXCEPT ![w] = what]
Slips(w) == mem' = [mem EXCEPT ![w].slip = TRUE]
Todo(w, left) == mem' = [mem EXCEPT ![w].todo = left]

Fault == faults < MaxFaults /\ faults' = faults + 1
NoFault == UNCHANGED faults
Harmless == UNCHANGED harmed
Harm == harmed' = TRUE

(* A failure that is logged and passed over: the handler goes on.           *)
Swallow(w, place) == /\ Fault
                     /\ Harm
                     /\ Slips(w)
                     /\ Goto(w, place)

Begin(w, kind, place, locals) ==
  /\ kind \in Kinds
  /\ Idle(w)
  /\ InProgress < MaxAtOnce
  /\ mem' = [mem EXCEPT ![w] = locals]
  /\ pc' = [pc EXCEPT ![w] = place]
  /\ answer' = [v \in Workers |-> "none"]
  /\ UNCHANGED <<world, files, schema, rows, faults, owned, harmed>>

----------------------------------------------------------------------------
(* update_plugin                                                            *)

UpdateBegins(w) ==
  /\ live \in Versions
  /\ Begin(w, "update", "stage",
           [NoLocals EXCEPT !.kind = "update", !.stamp = now, !.pre = live])

StagingOf(w) == staging[mem[w].stamp]
BackupOf(w) == backup[mem[w].stamp]
SetStaging(w, d) == staging' = [staging EXCEPT ![mem[w].stamp] = d]
SetBackup(w, d) == backup' = [backup EXCEPT ![mem[w].stamp] = d]

(* _stage_plugin_clone and _validate_staged_plugin.  The clone fails when   *)
(* the directory is there already, and the handler removes it all the same. *)
Stage(w) ==
  /\ pc[w] = "stage"
  /\ \/ /\ StagingOf(w) = None
        /\ SetStaging(w, latest)
        /\ mem' = [mem EXCEPT ![w].post = latest]
        /\ Goto(w, "aside")
        /\ NoFault
     \/ /\ SetStaging(w, None)
        /\ IF StagingOf(w) = None THEN Fault ELSE NoFault
        /\ Return(w, "failed")
        /\ UNCHANGED mem
  /\ Harmless
  /\ UNCHANGED <<world, live, backup, schema, rows, owned>>

(* plugin_dir.rename(backup_dir): needs the one and not the other.          *)
MoveAside(w) ==
  /\ pc[w] = "aside"
  /\ LET possible == live # None /\ BackupOf(w) = None
     IN \/ /\ possible
           /\ SetBackup(w, live)
           /\ live' = None
           /\ Goto(w, "promote")
           /\ NoFault
           /\ UNCHANGED staging
        \/ /\ IF possible THEN Fault ELSE NoFault
           /\ SetStaging(w, None)
           /\ Return(w, "failed")
           /\ UNCHANGED <<live, backup>>
  /\ Harmless
  /\ UNCHANGED <<world, schema, rows, mem, owned>>

(* Mutant: the backup is removed as soon as the new version is in place.    *)
PromoteAndCleanUp(w) ==
  /\ pc[w] = "promote"
  /\ LET possible == live = None /\ StagingOf(w) # None
     IN \/ /\ possible
           /\ live' = StagingOf(w)
           /\ SetStaging(w, None)
           /\ SetBackup(w, None)
           /\ Goto(w, "list")
           /\ NoFault
        \/ /\ IF possible THEN Fault ELSE NoFault
           /\ Goto(w, "unswap")
           /\ UNCHANGED <<live, staging, backup>>
  /\ Harmless
  /\ UNCHANGED <<world, schema, rows, mem, owned>>

(* staging_dir.rename(plugin_dir)                                           *)
Promote(w) ==
  /\ pc[w] = "promote"
  /\ LET possible == live = None /\ StagingOf(w) # None
     IN \/ /\ possible
           /\ live' = StagingOf(w)
           /\ SetStaging(w, None)
           /\ Goto(w, "list")
           /\ NoFault
        \/ /\ IF possible THEN Fault ELSE NoFault
           /\ Goto(w, "unswap")
           /\ UNCHANGED <<live, staging>>
  /\ Harmless
  /\ UNCHANGED <<world, backup, schema, rows, mem, owned>>

(* The backup is renamed back, if that is possible.                         *)
Unswap(w) ==
  /\ pc[w] = "unswap"
  /\ IF live = None /\ BackupOf(w) # None
     THEN /\ live' = BackupOf(w)
          /\ SetBackup(w, None)
          /\ Harmless
          /\ UNCHANGED mem
     ELSE /\ Harm
          /\ Slips(w)
          /\ UNCHANGED <<live, backup>>
  /\ SetStaging(w, None)
  /\ Return(w, "failed")
  /\ NoFault
  /\ UNCHANGED <<world, schema, rows, owned>>

(* Mutant: a rollback that keeps the new version.                          *)
RollbackKeepsLive(w) ==
  /\ pc[w] = "rollback"
  /\ Goto(w, "restore")
  /\ NoFault
  /\ Harmless
  /\ UNCHANGED <<world, files, schema, rows, mem, owned>>

(* An error in the migrations or the first grant: shutil.rmtree of the live *)
(* directory, then the rename of the backup.                                *)
Rollback(w) ==
  /\ pc[w] = "rollback"
  /\ live' = None
  /\ Goto(w, "restore")
  /\ NoFault
  /\ Harmless
  /\ UNCHANGED <<world, staging, backup, schema, rows, mem, owned>>

Restore(w) ==
  /\ pc[w] = "restore"
  /\ LET possible == live = None /\ BackupOf(w) # None
     IN \/ /\ possible
           /\ live' = BackupOf(w)
           /\ SetBackup(w, None)
           /\ NoFault
           /\ Harmless
           /\ UNCHANGED mem
        \/ /\ IF possible THEN Fault ELSE NoFault
           /\ Harm
           /\ Slips(w)
           /\ UNCHANGED <<live, backup>>
  /\ Return(w, "failed")
  /\ UNCHANGED <<world, staging, schema, rows, owned>>

(* Mutant: the SHA recorded is the one read before the swap.                *)
RecordPrevious(w) ==
  /\ pc[w] = "record"
  /\ \/ /\ row' = IF row = None THEN row ELSE mem[w].pre
        /\ Goto(w, "regrant")
        /\ NoFault
        /\ Harmless
        /\ UNCHANGED mem
     \/ /\ Swallow(w, "regrant")
        /\ UNCHANGED row
  /\ UNCHANGED <<world, files, schema, settings, strays, owned>>

(* The registry's version and SHA; a failure is taken for informational.    *)
Record(w) ==
  /\ pc[w] = "record"
  /\ \/ /\ row' = IF row = None \/ live \notin Versions THEN row ELSE live
        /\ Goto(w, "regrant")
        /\ NoFault
        /\ Harmless
        /\ UNCHANGED mem
     \/ /\ Swallow(w, "regrant")
        /\ UNCHANGED row
  /\ UNCHANGED <<world, files, schema, settings, strays, owned>>

(* Mutant: the backup is left for later.                                    *)
CleanupKeepsBackup(w) ==
  /\ pc[w] = "cleanup"
  /\ Return(w, "updated")
  /\ NoFault
  /\ Harmless
  /\ UNCHANGED <<world, files, schema, rows, mem, owned>>

(* shutil.rmtree(backup_dir) and the answer.                                *)
Cleanup(w) ==
  /\ pc[w] = "cleanup"
  /\ SetBackup(w, None)
  /\ Return(w, "updated")
  /\ NoFault
  /\ Harmless
  /\ UNCHANGED <<world, live, staging, schema, rows, mem, owned>>

----------------------------------------------------------------------------
(* _run_plugin_migrations and grant_plugin_tables, of both handlers.        *)

(* Mutant: an update logs the failure of a migration and goes on.           *)
RaiseLogs(w) == IF mem[w].kind = "update"
                THEN Goto(w, "grant") /\ Harmless /\ UNCHANGED mem
                ELSE Goto(w, "grant") /\ Harm /\ Slips(w)

Raise(w) == IF mem[w].kind = "update"
            THEN Goto(w, "rollback") /\ Harmless /\ UNCHANGED mem
            ELSE Goto(w, "grant") /\ Harm /\ Slips(w)

(* The files, and the tables the manifest declares, are listed once.        *)
ListMigrations(w) ==
  /\ pc[w] = "list"
  /\ mem' = [mem EXCEPT ![w].todo = Declares(live), ![w].declared = Declares(live)]
  /\ Goto(w, IF live \in Versions THEN "check" ELSE "grant")
  /\ NoFault
  /\ Harmless
  /\ UNCHANGED <<world, files, schema, rows, owned>>

NextFile(w) == Min(mem[w].todo)

(* _migration_skip_is_safe                                                  *)
SkipIsSafe(w) == mem[w].declared \subseteq tables

(* A recorded migration is skipped, or its record is deleted.               *)
CheckMigration(w) ==
  /\ pc[w] = "check"
  /\ \/ /\ mem[w].todo = {}
        /\ Goto(w, "grant")
        /\ UNCHANGED <<mem, applied>>
     \/ /\ mem[w].todo # {}
        /\ NextFile(w) \in applied
        /\ SkipIsSafe(w)
        /\ Todo(w, mem[w].todo \ {NextFile(w)})
        /\ UNCHANGED <<pc, answer, applied>>
     \/ /\ mem[w].todo # {}
        /\ NextFile(w) \in applied
        /\ ~SkipIsSafe(w)
        /\ applied' = applied \ {NextFile(w)}
        /\ Goto(w, "run")
        /\ UNCHANGED mem
     \/ /\ mem[w].todo # {}
        /\ NextFile(w) \notin applied
        /\ Goto(w, "run")
        /\ UNCHANGED <<mem, applied>>
  /\ NoFault
  /\ Harmless
  /\ UNCHANGED <<world, files, tables, granted, rows, owned>>

(* The file and its record are one transaction.  It fails if the file is    *)
(* gone or another worker has recorded it meanwhile.                        *)
RunMigration(w) ==
  /\ pc[w] = "run"
  /\ LET i == NextFile(w)
         possible == i \in Declares(live) /\ i \notin applied
     IN \/ /\ possible
           /\ applied' = applied \cup {i}
           /\ tables' = tables \cup {i}
           /\ Todo(w, mem[w].todo \ {i})
           /\ Goto(w, "check")
           /\ NoFault
           /\ Harmless
        \/ /\ IF possible THEN Fault ELSE NoFault
           /\ Raise(w)
           /\ UNCHANGED <<applied, tables>>
  /\ UNCHANGED <<world, files, granted, rows, owned>>

(* grant_plugin_tables grants what is declared and exists.                  *)
Grant(w) ==
  /\ pc[w] = "grant"
  /\ \/ /\ granted' = granted \cup (Declares(mem[w].post) \cap tables)
        /\ Goto(w, IF mem[w].kind = "update" THEN "record" ELSE "regrant")
        /\ NoFault
        /\ Harmless
        /\ UNCHANGED mem
     \/ /\ Fault
        /\ IF mem[w].kind = "update"
           THEN Goto(w, "rollback") /\ Harmless /\ UNCHANGED mem
           ELSE Goto(w, "regrant") /\ UNCHANGED <<mem, harmed>>
        /\ UNCHANGED granted
  /\ UNCHANGED <<world, files, applied, tables, rows, owned>>

(* The second pass, whose failure is logged.  An install then loads the     *)
(* routes and answers.                                                      *)
Regrant(w) ==
  /\ pc[w] = "regrant"
  /\ \/ /\ granted' = granted \cup (Declares(mem[w].post) \cap tables)
        /\ NoFault
        /\ Harmless
        /\ UNCHANGED mem
     \/ /\ Fault
        /\ Harm
        /\ Slips(w)
        /\ UNCHANGED granted
  /\ IF mem[w].kind = "update" THEN Goto(w, "cleanup") ELSE Return(w, "installed")
  /\ UNCHANGED <<world, files, applied, tables, rows, owned>>

----------------------------------------------------------------------------
(* install_plugin                                                           *)

InstallBegins(w) ==
  /\ live \notin Versions
  /\ Begin(w, "install", "clone", [NoLocals EXCEPT !.post = latest])

(* git clone straight into plugins/installed/<id>, which must not be there. *)
CloneStarts(w) ==
  /\ pc[w] = "clone"
  /\ IF live = None
     THEN live' = Partial /\ Goto(w, "cloning")
     ELSE Return(w, "failed") /\ UNCHANGED live
  /\ NoFault
  /\ Harmless
  /\ UNCHANGED <<world, staging, backup, schema, rows, mem, owned>>

(* A failed clone removes what it has made.                                 *)
CloneEnds(w) ==
  /\ pc[w] = "cloning"
  /\ \/ /\ live = Partial
        /\ live' = mem[w].post
        /\ owned' = TRUE
        /\ Goto(w, "validate")
        /\ NoFault
     \/ /\ IF live = Partial
           THEN Fault /\ live' = None
           ELSE NoFault /\ UNCHANGED live
        /\ Return(w, "failed")
        /\ UNCHANGED owned
  /\ Harmless
  /\ UNCHANGED <<world, staging, backup, schema, rows, mem>>

(* A missing or invalid manifest: the directory is removed.                 *)
Validate(w) ==
  /\ pc[w] = "validate"
  /\ \/ /\ live \in Versions
        /\ Goto(w, "register")
        /\ NoFault
        /\ UNCHANGED <<live, owned, strays>>
     \/ /\ IF live \in Versions THEN Fault ELSE NoFault
        /\ live' = None
        /\ owned' = FALSE
        /\ strays' = (strays \/ settings)
        /\ Return(w, "failed")
  /\ Harmless
  /\ UNCHANGED <<world, staging, backup, schema, row, settings, mem>>

(* The upsert of the registry row.                                          *)
Register(w) ==
  /\ pc[w] = "register"
  /\ \/ /\ row' = IF live \in Versions THEN live ELSE 0
        /\ Goto(w, "list")
        /\ NoFault
        /\ Harmless
        /\ UNCHANGED mem
     \/ /\ Swallow(w, "list")
        /\ UNCHANGED row
  /\ UNCHANGED <<world, files, schema, settings, strays, owned>>

----------------------------------------------------------------------------
(* uninstall_plugin                                                         *)

UninstallBegins(w, removeData) ==
  /\ live # None
  /\ Begin(w, "uninstall", "revoke",
           [NoLocals EXCEPT !.kind = "uninstall", !.data = removeData,
                            !.pre = IF live \in Versions THEN live ELSE None,
                            !.declared = Declares(live)])

Revoke(w) ==
  /\ pc[w] = "revoke"
  /\ LET next == IF mem[w].data THEN "down" ELSE "remove"
     IN \/ /\ granted' = granted \ mem[w].declared
           /\ mem' = [mem EXCEPT ![w].todo = Declares(live)]
           /\ Goto(w, next)
           /\ NoFault
           /\ Harmless
        \/ /\ Fault
           /\ Harm
           /\ mem' = [mem EXCEPT ![w].slip = TRUE, ![w].todo = Declares(live)]
           /\ Goto(w, next)
           /\ UNCHANGED granted
  /\ UNCHANGED <<world, files, applied, tables, rows, owned>>

(* A table takes its grants with it.                                        *)
Drop(gone) == tables' = tables \ gone /\ granted' = granted \ gone

(* _run_down_migrations, the newest first: the file, then its record.  An   *)
(* error is not caught.                                                     *)
Down(w) ==
  /\ pc[w] = "down"
  /\ IF mem[w].todo = {}
     THEN /\ Goto(w, "drop")
          /\ NoFault
          /\ Harmless
          /\ UNCHANGED <<tables, granted>>
     ELSE LET i == Max(mem[w].todo)
              possible == i \in Declares(live)
          IN \/ /\ possible
                /\ Drop({i})
                /\ Goto(w, "unrecord")
                /\ NoFault
                /\ Harmless
             \/ /\ IF possible THEN Fault ELSE NoFault
                /\ Return(w, "failed")
                /\ Harm
                /\ UNCHANGED <<tables, granted>>
  /\ UNCHANGED <<world, files, applied, rows, mem, owned>>

Unrecord(w) ==
  /\ pc[w] = "unrecord"
  /\ applied' = applied \ {Max(mem[w].todo)}
  /\ Todo(w, mem[w].todo \ {Max(mem[w].todo)})
  /\ Goto(w, "down")
  /\ NoFault
  /\ Harmless
  /\ UNCHANGED <<world, files, tables, granted, rows, owned>>

(* _drop_declared_tables; one that fails is noted and left.                 *)
DropTables(w) ==
  /\ pc[w] = "drop"
  /\ \/ /\ Drop(mem[w].declared)
        /\ Goto(w, "purgeMigrations")
        /\ NoFault
        /\ Harmless
        /\ UNCHANGED mem
     \/ /\ \E kept \in mem[w].declared : Drop(mem[w].declared \ {kept})
        /\ Swallow(w, "purgeMigrations")
  /\ UNCHANGED <<world, files, applied, rows, owned>>

PurgeMigrations(w) ==
  /\ pc[w] = "purgeMigrations"
  /\ \/ /\ applied' = {}
        /\ Goto(w, "remove")
        /\ NoFault
        /\ Harmless
        /\ UNCHANGED mem
     \/ /\ Swallow(w, "remove")
        /\ UNCHANGED applied
  /\ UNCHANGED <<world, files, tables, granted, rows, owned>>

(* shutil.rmtree(installed_dest) raises if it is not there.                 *)
RemoveDirectory(w) ==
  /\ pc[w] = "remove"
  /\ IF live = None
     THEN /\ Return(w, "failed")
          /\ Harm
          /\ UNCHANGED <<live, owned>>
     ELSE /\ live' = None
          /\ owned' = FALSE
          /\ Goto(w, "purge")
          /\ Harmless
  /\ NoFault
  /\ UNCHANGED <<world, staging, backup, schema, rows, mem>>

(* Mutant: the settings and credentials are left out.                       *)
PurgeRegistry(w) ==
  /\ pc[w] = "purge"
  /\ \/ /\ row' = None
        /\ NoFault
        /\ Harmless
        /\ UNCHANGED mem
     \/ /\ Fault
        /\ Harm
        /\ Slips(w)
        /\ UNCHANGED row
  /\ Return(w, "uninstalled")
  /\ UNCHANGED <<world, files, schema, settings, owned, strays>>

(* _purge_plugin_db_rows                                                    *)
PurgeRows(w) ==
  /\ pc[w] = "purge"
  /\ \/ /\ row' = None
        /\ settings' = FALSE
        /\ NoFault
        /\ Harmless
        /\ UNCHANGED mem
     \/ /\ Fault
        /\ Harm
        /\ Slips(w)
        /\ UNCHANGED <<row, settings>>
  /\ Return(w, "uninstalled")
  /\ UNCHANGED <<world, files, schema, owned, strays>>

----------------------------------------------------------------------------
(* Around them.                                                             *)

(* save_plugin_settings and the routes that store credentials: the manifest *)
(* is read, then the rows are written.                                      *)
SettingsRead ==
  /\ "settings" \in Kinds
  /\ live \in Versions
  /\ ~saving
  /\ saving' = TRUE
  /\ UNCHANGED <<latest, now, files, schema, rows, pc, mem, answer, faults, owned, harmed>>

SettingsWrite ==
  /\ saving
  /\ saving' = FALSE
  /\ settings' = TRUE
  /\ strays' = (strays \/ live \notin Versions)
  /\ UNCHANGED <<latest, now, files, schema, row, pc, mem, answer, faults, owned, harmed>>

Publish ==
  /\ latest < MaxVersion
  /\ latest' = latest + 1
  /\ UNCHANGED <<now, saving, files, schema, rows, pc, mem, answer, faults, owned, harmed>>

Tick ==
  /\ now < MaxStamp
  /\ now' = now + 1
  /\ UNCHANGED <<latest, saving, files, schema, rows, pc, mem, answer, faults, owned, harmed>>

(* The worker dies.  A clone it had started is a process of its own and may *)
(* still finish.                                                            *)
Crash(w) ==
  /\ ~Idle(w)
  /\ Fault
  /\ Harm
  /\ Return(w, "none")
  /\ \/ UNCHANGED <<live, owned>>
     \/ /\ pc[w] = "cloning"
        /\ live = Partial
        /\ live' = mem[w].post
        /\ owned' = TRUE
  /\ UNCHANGED <<world, staging, backup, schema, rows, mem>>

Update(w) == \/ UpdateBegins(w) \/ Stage(w) \/ MoveAside(w) \/ Promote(w) \/ Unswap(w)
             \/ Rollback(w) \/ Restore(w) \/ Record(w) \/ Cleanup(w)
Migrate(w) == \/ ListMigrations(w) \/ CheckMigration(w) \/ RunMigration(w)
              \/ Grant(w) \/ Regrant(w)
Install(w) == \/ InstallBegins(w) \/ CloneStarts(w) \/ CloneEnds(w) \/ Validate(w)
              \/ Register(w)
Uninstall(w) == \/ \E removeData \in BOOLEAN : UninstallBegins(w, removeData)
                \/ Revoke(w) \/ Down(w) \/ Unrecord(w) \/ DropTables(w)
                \/ PurgeMigrations(w) \/ RemoveDirectory(w) \/ PurgeRows(w)

Next == \/ \E w \in Workers : \/ Update(w) \/ Migrate(w) \/ Install(w)
                              \/ Uninstall(w) \/ Crash(w)
        \/ SettingsRead \/ SettingsWrite \/ Publish \/ Tick

Spec == Init /\ [][Next]_vars

----------------------------------------------------------------------------
(* Safety.                                                                  *)

(* An update that answers 200, whatever earlier operations left behind, has *)
(* put in place the version it staged, with all its migrations, tables and  *)
(* grants, and the loader accepts it; unless one of its own steps failed    *)
(* and was passed over.                                                     *)
UpdatedIsWhole ==
  \A w \in Workers : answer[w] = "updated" /\ ~mem[w].slip =>
    /\ live = mem[w].post
    /\ 1..mem[w].post \subseteq applied \cap tables \cap granted
    /\ Loadable

(* An update that answers an error leaves the version it found, at whichever *)
(* step it failed, and no staged directory.                                 *)
FailedUpdateRestores ==
  \A w \in Workers : answer[w] = "failed" /\ mem[w].kind = "update" /\ ~mem[w].slip =>
    live = mem[w].pre /\ staging[mem[w].stamp] = None

(* An update does what it answers, at whichever step it ends.               *)
UpdateKeepsItsWord == UpdatedIsWhole /\ FailedUpdateRestores

(* An uninstall that answers 200 leaves neither directory nor rows nor      *)
(* grants, and with remove_data none of its tables and no record of its     *)
(* migrations.                                                              *)
UninstalledIsGone ==
  \A w \in Workers : answer[w] = "uninstalled" /\ ~mem[w].slip =>
    /\ live = None /\ row = None /\ (settings => strays)
    /\ mem[w].declared \cap granted = {}
    /\ mem[w].data => mem[w].declared \cap tables = {} /\ applied = {}

(* Through rollbacks of updates that had already migrated, the code that is *)
(* live has its tables and passes the loader's integrity check.             *)
SettledHasTables ==
  Quiet /\ live \in Versions /\ ~harmed => 1..live \subseteq tables /\ Loadable

(* When nothing has failed that no handler undoes, nothing is left behind:  *)
(* of an absent plugin no rows for a reinstall to inherit, and of an update *)
(* no staged or backup directory, which the loader would take for plugins.  *)
NothingLeftBehind ==
  Quiet /\ ~harmed =>
    /\ live = None => row = None /\ (settings => strays)
    /\ \A s \in Stamps : staging[s] = None /\ backup[s] = None

(* Between the renames of however many updates, at whichever step one fails *)
(* or dies, a complete copy of an installed plugin is on disk.              *)
SwapKeepsACopy ==
  owned => live \in Versions \/ \E s \in Stamps : backup[s] \in Versions

(* A migration that is recorded and whose table exists is not run again:    *)
(* installs and updates keep the records of migrations when no table of a   *)
(* recorded migration is missing.                                           *)
RecordedStaysRecorded ==
  [][ (\A w \in Workers : mem[w].kind # "uninstall") /\ applied \subseteq tables
        => applied \subseteq applied' ]_vars

----------------------------------------------------------------------------
(* Implementation of PluginPresence, for operations one at a time.  Between *)
(* two renames the version is still the one an update found.                *)

Replacing(w) == mem[w].kind = "update"
                /\ pc[w] \in {"list", "check", "run", "grant", "record", "regrant",
                              "rollback", "cleanup"}
Between(w) == pc[w] \in {"promote", "unswap", "restore"}

PresentVersion ==
  IF \E w \in Workers : Between(w)
  THEN mem[CHOOSE w \in Workers : Between(w)].pre
  ELSE IF live \in Versions THEN live ELSE None

PreviousVersion ==
  IF \E w \in Workers : Replacing(w)
  THEN mem[CHOOSE w \in Workers : Replacing(w)].pre ELSE None

Presence == INSTANCE PluginPresence
              WITH version <- PresentVersion, previous <- PreviousVersion

(* The version of a plugin changes as PluginPresence says: replaced by an   *)
(* update, and brought back by its rollback and by nothing else.            *)
ImplementsPresence == Presence!Spec
=============================================================================
