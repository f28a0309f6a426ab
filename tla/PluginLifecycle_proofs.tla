----------------------- MODULE PluginLifecycle_proofs -----------------------
(***************************************************************************)
(* What is proved about PluginLifecycle, for any workers, versions, seconds *)
(* and failures: its types; what every answer promises, what a settled      *)
(* plugin has and what is left behind, and PluginPresence, for operations   *)
(* one at a time; and that a copy of the plugin survives, for any number of *)
(* installs and updates at once.                                            *)
(***************************************************************************)
EXTENDS PluginLifecycle, FiniteSetTheorems, WellFoundedInduction, TLAPS

-----------------------------------------------------------------------------
(* Types.                                                                   *)

LEMMA LocalsType ==
  /\ NoLocals \in Locals
  /\ \A m \in Locals : /\ m.kind \in {"install", "update", "uninstall"} /\ m.stamp \in Stamps
                       /\ m.pre \in Versions \cup {None} /\ m.post \in Versions
                       /\ m.todo \subseteq Versions /\ m.declared \subseteq Versions
                       /\ m.data \in BOOLEAN /\ m.slip \in BOOLEAN
<1>1. 1 \in Versions /\ 0 \in Stamps
  BY BoundsAssumption DEF Versions, Stamps
<1> QED  BY <1>1 DEF NoLocals, Locals

LEMMA DeclaresType ==
  ASSUME NEW d
  PROVE  Declares(d) \subseteq Versions /\ (d \in Versions => Declares(d) = 1..d)
BY BoundsAssumption DEF Declares, Versions

LEMMA TypeInit == Init => TypeOK
<1>1. 1 \in Versions /\ 0 \in Stamps /\ 0 \in 0..MaxFaults
  BY BoundsAssumption DEF Versions, Stamps
<1> QED  BY <1>1, LocalsType DEF Init, TypeOK, Dirs, Places, Answers

\* The steps of a handler that change its place and its locals only in the ways named.
LEMMA HandlerTypes ==
  ASSUME TypeOK, NEW w \in Workers
  PROVE  /\ \A place \in Places : Goto(w, place) => pc' \in [Workers -> Places]
                                                 /\ answer' \in [Workers -> Answers]
         /\ \A what \in Answers : Return(w, what) => pc' \in [Workers -> Places]
                                                  /\ answer' \in [Workers -> Answers]
         /\ Slips(w) => mem' \in [Workers -> Locals]
         /\ \A left \in SUBSET Versions : Todo(w, left) => mem' \in [Workers -> Locals]
         /\ Fault \/ NoFault => faults' \in 0..MaxFaults
         /\ Harm \/ Harmless => harmed' \in BOOLEAN
         /\ StagingOf(w) \in Versions \cup {None} /\ BackupOf(w) \in Dirs
         /\ \A d \in Versions \cup {None} : SetStaging(w, d) => staging' \in [Stamps -> Versions \cup {None}]
         /\ \A d \in Dirs : SetBackup(w, d) => backup' \in [Stamps -> Dirs]
<1>1. "idle" \in Places
  BY DEF Places
<1>2. mem[w] \in Locals /\ mem[w].stamp \in Stamps
  BY LocalsType DEF TypeOK
<1>3. /\ [mem[w] EXCEPT !.slip = TRUE] \in Locals
      /\ \A left \in SUBSET Versions : [mem[w] EXCEPT !.todo = left] \in Locals
  BY <1>2 DEF Locals
<1>4. Fault \/ NoFault => faults' \in 0..MaxFaults
  BY BoundsAssumption DEF TypeOK, Fault, NoFault
<1> QED  BY <1>1, <1>2, <1>3, <1>4 DEF TypeOK, Goto, Return, Slips, Todo, Harm, Harmless,
           StagingOf, BackupOf, SetStaging, SetBackup

LEMMA TypeStep == TypeOK /\ [Next]_vars => TypeOK'
<1> SUFFICES ASSUME TypeOK, [Next]_vars PROVE TypeOK'
  OBVIOUS
<1> USE DEF TypeOK, world, files, schema, rows
<1>h. \A w \in Workers : /\ mem[w] \in Locals /\ mem[w].pre \in Versions \cup {None}
                         /\ mem[w].post \in Versions /\ mem[w].kind \in {"install", "update", "uninstall"}
                         /\ mem[w].todo \subseteq Versions /\ mem[w].declared \subseteq Versions
  BY LocalsType
<1>d. \A d : Declares(d) \subseteq Versions
  BY DeclaresType
<1>v. \A v \in Versions : v \in Dirs /\ v \in 0..MaxVersion
  BY BoundsAssumption DEF Versions, Dirs
<1>n. None \in Dirs /\ Partial \in Dirs
  BY DEF Dirs
<1>1. ASSUME NEW w \in Workers, UpdateBegins(w) PROVE TypeOK'
  <2>1. live \in Versions /\ Begin(w, "update", "stage", [NoLocals EXCEPT !.kind = "update", !.stamp = now, !.pre = live])
    BY <1>1 DEF UpdateBegins
  <2>2. [NoLocals EXCEPT !.kind = "update", !.stamp = now, !.pre = live] \in Locals
    BY <2>1, LocalsType DEF Locals, NoLocals
  <2> QED  BY <2>1, <2>2 DEF Begin, Places, Answers
<1>2. ASSUME NEW w \in Workers, Stage(w) PROVE TypeOK'
  <2>1. [mem[w] EXCEPT !.post = latest] \in Locals
    BY <1>h DEF Locals
  <2> QED  BY <1>2, <2>1, HandlerTypes DEF Stage, Places, Answers
<1>3. ASSUME NEW w \in Workers, MoveAside(w) PROVE TypeOK'
  BY <1>3, <1>n, HandlerTypes DEF MoveAside, Places, Answers
<1>4. ASSUME NEW w \in Workers, Promote(w) PROVE TypeOK'
  BY <1>4, <1>n, <1>v, HandlerTypes DEF Promote, Places
<1>5. ASSUME NEW w \in Workers, Unswap(w) PROVE TypeOK'
  BY <1>5, <1>n, HandlerTypes DEF Unswap, Answers
<1>6. ASSUME NEW w \in Workers, Rollback(w) PROVE TypeOK'
  BY <1>6, <1>n, HandlerTypes DEF Rollback, Places
<1>7. ASSUME NEW w \in Workers, Restore(w) PROVE TypeOK'
  BY <1>7, <1>n, HandlerTypes DEF Restore, Answers
<1>8. ASSUME NEW w \in Workers, Record(w) PROVE TypeOK'
  BY <1>8, <1>v, HandlerTypes DEF Record, Swallow, Places
<1>9. ASSUME NEW w \in Workers, Cleanup(w) PROVE TypeOK'
  BY <1>9, <1>n, HandlerTypes DEF Cleanup, Answers
<1>10. ASSUME NEW w \in Workers, ListMigrations(w) PROVE TypeOK'
  <2>1. [mem[w] EXCEPT !.todo = Declares(live), !.declared = Declares(live)] \in Locals
    BY <1>h, <1>d DEF Locals
  <2> QED  BY <1>10, <2>1, HandlerTypes DEF ListMigrations, Places
<1>11. ASSUME NEW w \in Workers, CheckMigration(w) PROVE TypeOK'
  BY <1>11, <1>h, HandlerTypes DEF CheckMigration, Places
<1>12. ASSUME NEW w \in Workers, RunMigration(w) PROVE TypeOK'
  <2>1. Raise(w) => /\ pc' \in [Workers -> Places] /\ answer' \in [Workers -> Answers]
                    /\ mem' \in [Workers -> Locals] /\ harmed' \in BOOLEAN
    BY HandlerTypes DEF Raise, Places
  <2> QED  BY <1>12, <2>1, <1>h, <1>d, HandlerTypes DEF RunMigration, Places
<1>13. ASSUME NEW w \in Workers, Grant(w) PROVE TypeOK'
  BY <1>13, <1>d, HandlerTypes DEF Grant, Places
<1>14. ASSUME NEW w \in Workers, Regrant(w) PROVE TypeOK'
  BY <1>14, <1>d, HandlerTypes DEF Regrant, Places, Answers
<1>15. ASSUME NEW w \in Workers, InstallBegins(w) PROVE TypeOK'
  <2>1. [NoLocals EXCEPT !.post = latest] \in Locals
    BY LocalsType DEF Locals, NoLocals
  <2> QED  BY <1>15, <2>1 DEF InstallBegins, Begin, Places, Answers
<1>16. ASSUME NEW w \in Workers, CloneStarts(w) PROVE TypeOK'
  BY <1>16, <1>n, HandlerTypes DEF CloneStarts, Places, Answers
<1>17. ASSUME NEW w \in Workers, CloneEnds(w) PROVE TypeOK'
  BY <1>17, <1>n, <1>h, <1>v, HandlerTypes DEF CloneEnds, Places, Answers
<1>18. ASSUME NEW w \in Workers, Validate(w) PROVE TypeOK'
  BY <1>18, <1>n, HandlerTypes DEF Validate, Places, Answers
<1>19. ASSUME NEW w \in Workers, Register(w) PROVE TypeOK'
  <2>1. 0 \in 0..MaxVersion
    BY BoundsAssumption
  <2> QED  BY <1>19, <2>1, <1>v, HandlerTypes DEF Register, Swallow, Places
<1>20. ASSUME NEW w \in Workers, NEW removeData \in BOOLEAN, UninstallBegins(w, removeData) PROVE TypeOK'
  <2> DEFINE m == [NoLocals EXCEPT !.kind = "uninstall", !.data = removeData,
                       !.pre = IF live \in Versions THEN live ELSE None, !.declared = Declares(live)]
  <2>1. m \in Locals
    BY <1>d, LocalsType DEF Locals, NoLocals
  <2>2. Begin(w, "uninstall", "revoke", m)
    BY <1>20 DEF UninstallBegins
  <2> HIDE DEF m
  <2> QED  BY <2>1, <2>2 DEF Begin, Places, Answers
<1>21. ASSUME NEW w \in Workers, Revoke(w) PROVE TypeOK'
  <2>1. /\ [mem[w] EXCEPT !.todo = Declares(live)] \in Locals
        /\ [mem[w] EXCEPT !.slip = TRUE, !.todo = Declares(live)] \in Locals
    BY <1>h, <1>d DEF Locals
  <2> QED  BY <1>21, <2>1, HandlerTypes DEF Revoke, Places
<1>22. ASSUME NEW w \in Workers, Down(w) PROVE TypeOK'
  BY <1>22, HandlerTypes DEF Down, Drop, Places, Answers
<1>23. ASSUME NEW w \in Workers, Unrecord(w) PROVE TypeOK'
  BY <1>23, <1>h, HandlerTypes DEF Unrecord, Places
<1>24. ASSUME NEW w \in Workers, DropTables(w) PROVE TypeOK'
  BY <1>24, HandlerTypes DEF DropTables, Drop, Swallow, Places
<1>25. ASSUME NEW w \in Workers, PurgeMigrations(w) PROVE TypeOK'
  BY <1>25, HandlerTypes DEF PurgeMigrations, Swallow, Places
<1>26. ASSUME NEW w \in Workers, RemoveDirectory(w) PROVE TypeOK'
  BY <1>26, <1>n, HandlerTypes DEF RemoveDirectory, Places, Answers
<1>27. ASSUME NEW w \in Workers, PurgeRows(w) PROVE TypeOK'
  BY <1>27, HandlerTypes DEF PurgeRows, Answers
<1>28. ASSUME NEW w \in Workers, Crash(w) PROVE TypeOK'
  BY <1>28, <1>h, <1>v, HandlerTypes DEF Crash, Answers
<1>29. CASE SettingsRead \/ SettingsWrite
  BY <1>29 DEF SettingsRead, SettingsWrite
<1>30. CASE Publish \/ Tick
  <2>1. Publish => latest' \in Versions
    BY BoundsAssumption DEF Publish, Versions
  <2>2. Tick => now' \in Stamps
    BY BoundsAssumption DEF Tick, Stamps
  <2> QED  BY <1>30, <2>1, <2>2 DEF Publish, Tick
<1>31. CASE UNCHANGED vars
  BY <1>31 DEF vars
<1> QED
  BY <1>1, <1>2, <1>3, <1>4, <1>5, <1>6, <1>7, <1>8, <1>9, <1>10, <1>11, <1>12, <1>13, <1>14,
     <1>15, <1>16, <1>17, <1>18, <1>19, <1>20, <1>21, <1>22, <1>23, <1>24, <1>25, <1>26, <1>27,
     <1>28, <1>29, <1>30, <1>31 DEF Next, Update, Migrate, Install, Uninstall

\* The world, the directories, the schema, the rows and every handler keep
\* their types, whichever operations run at once and fail.
THEOREM TypeCorrect == Spec => []TypeOK
BY TypeInit, TypeStep, PTL DEF Spec
-----------------------------------------------------------------------------
(* Operations one at a time.                                                *)

UpdatePlaces == {"stage", "aside", "promote", "unswap", "record", "rollback",
                 "restore", "cleanup"}
MigrationPlaces == {"list", "check", "run", "grant", "regrant"}
InstallPlaces == {"clone", "cloning", "validate", "register"}
UninstallPlaces == {"revoke", "down", "unrecord", "drop", "purgeMigrations", "remove", "purge"}

Updating(w) == mem[w].kind = "update" /\ pc[w] \in UpdatePlaces \cup MigrationPlaces

\* One worker at most is in an operation, and then nothing is answered.
Alone == /\ \A v, w \in Workers : ~Idle(v) /\ ~Idle(w) => v = w
         /\ \A v, w \in Workers : ~Idle(v) => answer[w] = "none"

\* Each place belongs to an operation.
PlaceOK(w) ==
  /\ pc[w] \in UpdatePlaces => mem[w].kind = "update"
  /\ pc[w] \in InstallPlaces => mem[w].kind = "install"
  /\ pc[w] \in UninstallPlaces => mem[w].kind = "uninstall"
  /\ pc[w] \in MigrationPlaces => mem[w].kind \in {"update", "install"}

\* Where the versions are that an operation is about.
FilesOK(w) ==
  /\ Updating(w) => mem[w].pre \in Versions
  /\ pc[w] \in {"stage", "aside"} => live = mem[w].pre
  /\ pc[w] = "aside" => StagingOf(w) = mem[w].post
  /\ pc[w] \in {"promote", "unswap", "restore"} => live = None /\ BackupOf(w) = mem[w].pre
  /\ pc[w] = "promote" => StagingOf(w) = mem[w].post
  /\ Replacing(w) => live = mem[w].post /\ BackupOf(w) = mem[w].pre
  /\ Replacing(w) \/ pc[w] = "restore" => StagingOf(w) = None
  /\ pc[w] = "clone" => live \notin Versions
  /\ pc[w] = "cloning" => live = Partial
  /\ pc[w] \in {"validate", "register"} \cup MigrationPlaces => live = mem[w].post
  /\ pc[w] \in UninstallPlaces => (live = None <=> pc[w] = "purge")

\* How far the migrations and grants of an operation are.
SchemaOK(w) ==
  LET m == mem[w]
  IN /\ pc[w] \in {"check", "run"} =>
          /\ m.declared = 1..m.post
          /\ (1..m.post) \ m.todo \subseteq applied \cap tables
     /\ pc[w] \in {"grant", "record", "regrant", "cleanup"} /\ ~m.slip =>
          1..m.post \subseteq applied \cap tables
     /\ m.kind = "update" /\ pc[w] \in {"record", "regrant", "cleanup"} /\ ~m.slip =>
          1..m.post \subseteq granted
     /\ m.kind = "update" /\ pc[w] \in {"regrant", "cleanup"} /\ ~m.slip => Loadable

\* How far an uninstall is.
RemovalOK(w) ==
  LET m == mem[w]
  IN /\ pc[w] \in UninstallPlaces \ {"revoke"} /\ ~m.slip => m.declared \cap granted = {}
     /\ pc[w] \in {"purgeMigrations", "remove", "purge"} /\ m.data /\ ~m.slip =>
          m.declared \cap tables = {}
     /\ pc[w] \in {"remove", "purge"} /\ m.data /\ ~m.slip => applied = {}

\* What an operation finds and keeps as long as nothing was harmed.
HealthOK(w) ==
  /\ Updating(w) => 1..mem[w].pre \subseteq tables
  /\ Updating(w) /\ pc[w] \notin {"regrant", "cleanup"} => row \in {None, 0, mem[w].pre}
  /\ pc[w] = "stage" => StagingOf(w) = None
  /\ pc[w] \in {"stage", "aside"} => BackupOf(w) = None
  /\ (pc[w] = "clone" /\ live = None) \/ pc[w] = "cloning" => row = None /\ (settings => strays)
  /\ pc[w] = "validate" => row = None
  /\ mem[w].kind = "install" /\ pc[w] \in MigrationPlaces => row = live
  /\ ~mem[w].slip

\* Staged and backup directories are those of the update in progress.
NoneLeft == \A s \in Stamps : \/ staging[s] = None /\ backup[s] = None
                              \/ \E w \in Workers : Updating(w) /\ mem[w].stamp = s

Healthy == ~harmed => NoneLeft /\ \A w \in Workers : HealthOK(w)
Promises == UpdateKeepsItsWord /\ UninstalledIsGone /\ SettledHasTables /\ NothingLeftBehind

\* The strengthening of what is promised: where everything is at each place.
Orderly == /\ TypeOK /\ Alone /\ Healthy /\ Promises
           /\ \A w \in Workers : PlaceOK(w) /\ FilesOK(w) /\ SchemaOK(w) /\ RemovalOK(w)

LEMMA OrderlyInit == Init => Orderly
<1> SUFFICES ASSUME Init PROVE Orderly
  OBVIOUS
<1>1. TypeOK
  BY TypeInit
<1>2. \A w \in Workers : pc[w] = "idle" /\ answer[w] = "none" /\ ~mem[w].slip
  BY DEF Init, NoLocals
<1>3. Alone /\ \A w \in Workers : PlaceOK(w) /\ FilesOK(w) /\ SchemaOK(w) /\ RemovalOK(w)
  BY <1>2 DEF Alone, Idle, PlaceOK, FilesOK, SchemaOK, RemovalOK, Updating, Replacing,
    UpdatePlaces, MigrationPlaces, InstallPlaces, UninstallPlaces
<1>4. Healthy
  BY <1>2 DEF Healthy, NoneLeft, HealthOK, Updating, Init, UpdatePlaces, MigrationPlaces
<1>5. Promises
  BY <1>2, MarkersAssumption DEF Promises, UpdateKeepsItsWord, UpdatedIsWhole, FailedUpdateRestores,
    UninstalledIsGone, SettledHasTables, NothingLeftBehind, Init, Versions
<1> QED  BY <1>1, <1>3, <1>4, <1>5 DEF Orderly

\* The others are idle while one worker is at it.
LEMMA OthersIdle ==
  ASSUME Orderly, NEW w \in Workers, pc[w] # "idle"
  PROVE  \A v \in Workers \ {w} : pc[v] = "idle" /\ answer[v] = "none"
BY DEF Orderly, Alone, Idle

\* A worker at rest is held to nothing.
LEMMA IdleOK ==
  ASSUME NEW v \in Workers, pc'[v] = "idle"
  PROVE  /\ PlaceOK(v)' /\ FilesOK(v)' /\ SchemaOK(v)' /\ RemovalOK(v)'
         /\ ~mem'[v].slip => HealthOK(v)'
BY DEF PlaceOK, FilesOK, SchemaOK, RemovalOK, HealthOK, Updating, Replacing,
  UpdatePlaces, MigrationPlaces, InstallPlaces, UninstallPlaces

\* What a step owes that leaves its worker in the operation.
LEMMA Continues ==
  ASSUME Orderly, TypeOK', NEW w \in Workers, pc[w] # "idle",
         NEW place, place # "idle", pc' = [pc EXCEPT ![w] = place], answer' = answer,
         \A v \in Workers \ {w} : mem'[v] = mem[v],
         harmed => harmed',
         PlaceOK(w)', FilesOK(w)', SchemaOK(w)', RemovalOK(w)',
         ~harmed' => NoneLeft' /\ HealthOK(w)'
  PROVE  Orderly'
<1>1. /\ \A v \in Workers \ {w} : pc'[v] = "idle"
      /\ \A v \in Workers : answer'[v] = "none"
      /\ pc'[w] = place
  BY OthersIdle DEF Orderly, Alone, Idle, TypeOK
<1>2. Alone'
  BY <1>1 DEF Alone, Idle
<1>3. \A v \in Workers : PlaceOK(v)' /\ FilesOK(v)' /\ SchemaOK(v)' /\ RemovalOK(v)'
  BY <1>1, IdleOK
<1>4. ~harmed' => \A v \in Workers \ {w} : ~mem'[v].slip
  BY DEF Orderly, Healthy, HealthOK
<1>5. Healthy'
  BY <1>1, <1>4, IdleOK DEF Healthy
<1>6. Promises'
  BY <1>1 DEF Promises, UpdateKeepsItsWord, UpdatedIsWhole, FailedUpdateRestores,
    UninstalledIsGone, SettledHasTables, NothingLeftBehind, Quiet, Idle
<1> QED  BY <1>2, <1>3, <1>5, <1>6 DEF Orderly

\* What an answer owes.
Answered(w, what) ==
  /\ answer' = [answer EXCEPT ![w] = what]
  /\ what = "updated" /\ ~mem'[w].slip =>
       /\ live' = mem'[w].post
       /\ 1..mem'[w].post \subseteq applied' \cap tables' \cap granted'
       /\ Loadable'
  /\ what = "failed" /\ mem'[w].kind = "update" /\ ~mem'[w].slip =>
       live' = mem'[w].pre /\ staging'[mem'[w].stamp] = None
  /\ what = "uninstalled" /\ ~mem'[w].slip =>
       /\ live' = None /\ row' = None /\ (settings' => strays')
       /\ mem'[w].declared \cap granted' = {}
       /\ mem'[w].data => mem'[w].declared \cap tables' = {} /\ applied' = {}
  /\ ~harmed' =>
       /\ live' \in Versions => 1..live' \subseteq tables' /\ Loadable'
       /\ live' = None => row' = None /\ (settings' => strays')
       /\ \A s \in Stamps : staging'[s] = None /\ backup'[s] = None
       /\ ~mem'[w].slip

LEMMA Finishes ==
  ASSUME Orderly, TypeOK', NEW w \in Workers, pc[w] # "idle",
         pc' = [pc EXCEPT ![w] = "idle"], NEW what, Answered(w, what),
         \A v \in Workers \ {w} : mem'[v] = mem[v],
         harmed => harmed'
  PROVE  Orderly'
<1>1. /\ \A v \in Workers : pc'[v] = "idle"
      /\ \A v \in Workers \ {w} : answer'[v] = "none"
      /\ answer'[w] = what
  BY OthersIdle DEF Orderly, TypeOK, Answered
<1>2. Alone'
  BY <1>1 DEF Alone, Idle
<1>3. \A v \in Workers : PlaceOK(v)' /\ FilesOK(v)' /\ SchemaOK(v)' /\ RemovalOK(v)'
  BY <1>1, IdleOK
<1>4. ~harmed' => \A v \in Workers : ~mem'[v].slip
  BY DEF Orderly, Healthy, HealthOK, Answered
<1>5. Healthy'
  BY <1>1, <1>4, IdleOK DEF Healthy, NoneLeft, Answered
<1>6. SettledHasTables' /\ NothingLeftBehind'
  BY DEF SettledHasTables, NothingLeftBehind, Answered
<1>7. UpdateKeepsItsWord' /\ UninstalledIsGone'
  <2>1. ASSUME NEW v \in Workers, answer'[v] # "none" PROVE v = w
    BY <1>1, <2>1
  <2> QED  BY <1>1, <2>1 DEF UpdateKeepsItsWord, UpdatedIsWhole, FailedUpdateRestores,
             UninstalledIsGone, Answered
<1> QED  BY <1>2, <1>3, <1>5, <1>6, <1>7 DEF Orderly, Promises

\* An operation begins where none is in progress.
LEMMA BeginsAlone ==
  ASSUME MaxAtOnce = 1, Orderly, InProgress < MaxAtOnce
  PROVE  \A v \in Workers : pc[v] = "idle"
<1> DEFINE busy == {v \in Workers : ~Idle(v)}
<1>1. SUFFICES ASSUME NEW v \in Workers, ~Idle(v) PROVE FALSE
  BY DEF Idle
<1>2. busy = {v}
  BY <1>1 DEF Orderly, Alone
<1>3. Cardinality(busy) = 1
  BY <1>2, FS_Singleton
<1> QED  BY <1>3 DEF InProgress

LEMMA Begins ==
  ASSUME MaxAtOnce = 1, Orderly, TypeOK', NEW w \in Workers, NEW kind, NEW place, place # "idle",
         NEW m, ~m.slip, Begin(w, kind, place, m),
         PlaceOK(w)', FilesOK(w)', SchemaOK(w)', RemovalOK(w)',
         ~harmed => HealthOK(w)'
  PROVE  Orderly'
<1>1. \A v \in Workers : pc[v] = "idle"
  BY BeginsAlone DEF Begin
<1>2. /\ \A v \in Workers \ {w} : pc'[v] = "idle" /\ mem'[v] = mem[v]
      /\ \A v \in Workers : answer'[v] = "none"
      /\ pc'[w] = place /\ mem'[w] = m
  BY <1>1 DEF Begin, Orderly, TypeOK
<1>3. Alone'
  BY <1>2 DEF Alone, Idle
<1>4. \A v \in Workers : PlaceOK(v)' /\ FilesOK(v)' /\ SchemaOK(v)' /\ RemovalOK(v)'
  BY <1>2, IdleOK
<1>5. harmed' = harmed /\ staging' = staging /\ backup' = backup
  BY DEF Begin, files
<1>6. Healthy'
  <2> SUFFICES ASSUME ~harmed PROVE NoneLeft' /\ \A v \in Workers : HealthOK(v)'
    BY <1>5 DEF Healthy
  <2>1. \A s \in Stamps : staging[s] = None /\ backup[s] = None
    BY <1>1 DEF Orderly, Promises, NothingLeftBehind, Quiet, Idle
  <2>2. \A v \in Workers \ {w} : ~mem'[v].slip
    BY <1>2 DEF Orderly, Healthy, HealthOK
  <2> QED  BY <1>2, <1>5, <2>1, <2>2, IdleOK DEF NoneLeft
<1>7. Promises'
  BY <1>2 DEF Promises, UpdateKeepsItsWord, UpdatedIsWhole, FailedUpdateRestores,
    UninstalledIsGone, SettledHasTables, NothingLeftBehind, Quiet, Idle
<1> QED  BY <1>3, <1>4, <1>6, <1>7 DEF Orderly

\* What is known of a plugin nobody is at work on.
LEMMA AtRest ==
  ASSUME Orderly, \A v \in Workers : pc[v] = "idle", ~harmed
  PROVE  /\ live \in Versions => 1..live \subseteq tables /\ Loadable
         /\ live = None => row = None /\ (settings => strays)
         /\ \A s \in Stamps : staging[s] = None /\ backup[s] = None
BY DEF Orderly, Promises, SettledHasTables, NothingLeftBehind, Quiet, Idle

LEMMA BeginSteps ==
  ASSUME MaxAtOnce = 1, Orderly, TypeOK', NEW w \in Workers
  PROVE  /\ UpdateBegins(w) => Orderly'
         /\ InstallBegins(w) => Orderly'
         /\ \A removeData \in BOOLEAN : UninstallBegins(w, removeData) => Orderly'
<1> USE DEF UpdatePlaces, MigrationPlaces, InstallPlaces, UninstallPlaces
<1>1. ASSUME UpdateBegins(w) PROVE Orderly'
  <2> DEFINE m == [NoLocals EXCEPT !.kind = "update", !.stamp = now, !.pre = live]
  <2>1. m.kind = "update" /\ m.pre = live /\ m.stamp = now /\ ~m.slip
    BY DEF NoLocals
  <2>2. live \in Versions /\ Begin(w, "update", "stage", m)
    BY <1>1 DEF UpdateBegins
  <2> HIDE DEF m
  <2>3. pc'[w] = "stage" /\ mem'[w] = m /\ now \in Stamps
    BY <2>2 DEF Begin, Orderly, TypeOK
  <2>4. UNCHANGED <<live, staging, backup, tables, row>>
    BY <2>2 DEF Begin, files, schema, rows
  <2>5. PlaceOK(w)' /\ FilesOK(w)' /\ SchemaOK(w)' /\ RemovalOK(w)'
    BY <2>1, <2>2, <2>3, <2>4 DEF PlaceOK, FilesOK, SchemaOK, RemovalOK, Updating, Replacing
  <2>6. ASSUME ~harmed PROVE HealthOK(w)'
    <3>1. 1..live \subseteq tables /\ row \in {None, 0, live} /\ staging[now] = None /\ backup[now] = None
      BY <2>2, <2>3, <2>6, AtRest, BeginsAlone DEF Begin, Loadable
    <3> QED  BY <2>1, <2>2, <2>3, <2>4, <3>1 DEF HealthOK, Updating, StagingOf, BackupOf
  <2> QED  BY <2>1, <2>2, <2>5, <2>6, Begins
<1>2. ASSUME InstallBegins(w) PROVE Orderly'
  <2> DEFINE m == [NoLocals EXCEPT !.post = latest]
  <2>1. m.kind = "install" /\ ~m.slip
    BY DEF NoLocals
  <2>2. live \notin Versions /\ Begin(w, "install", "clone", m)
    BY <1>2 DEF InstallBegins
  <2> HIDE DEF m
  <2>3. pc'[w] = "clone" /\ mem'[w] = m
    BY <2>2 DEF Begin, Orderly, TypeOK
  <2>4. UNCHANGED <<live, row, settings, strays>>
    BY <2>2 DEF Begin, files, rows
  <2>5. PlaceOK(w)' /\ FilesOK(w)' /\ SchemaOK(w)' /\ RemovalOK(w)'
    BY <2>1, <2>2, <2>3, <2>4 DEF PlaceOK, FilesOK, SchemaOK, RemovalOK, Updating, Replacing
  <2>6. ASSUME ~harmed PROVE HealthOK(w)'
    <3>1. live = None => row = None /\ (settings => strays)
      BY <2>2, <2>6, AtRest, BeginsAlone DEF Begin
    <3> QED  BY <2>1, <2>2, <2>3, <2>4, <3>1 DEF HealthOK, Updating
  <2> QED  BY <2>1, <2>2, <2>5, <2>6, Begins
<1>3. ASSUME NEW removeData \in BOOLEAN, UninstallBegins(w, removeData) PROVE Orderly'
  <2> DEFINE m == [NoLocals EXCEPT !.kind = "uninstall", !.data = removeData,
                       !.pre = IF live \in Versions THEN live ELSE None, !.declared = Declares(live)]
  <2>1. m.kind = "uninstall" /\ ~m.slip
    BY DEF NoLocals
  <2>2. live # None /\ Begin(w, "uninstall", "revoke", m)
    BY <1>3 DEF UninstallBegins
  <2> HIDE DEF m
  <2>3. pc'[w] = "revoke" /\ mem'[w] = m
    BY <2>2 DEF Begin, Orderly, TypeOK
  <2>4. UNCHANGED live
    BY <2>2 DEF Begin, files
  <2>5. PlaceOK(w)' /\ FilesOK(w)' /\ SchemaOK(w)' /\ RemovalOK(w)' /\ HealthOK(w)'
    BY <2>1, <2>2, <2>3, <2>4 DEF PlaceOK, FilesOK, SchemaOK, RemovalOK, HealthOK, Updating, Replacing
  <2> QED  BY <2>1, <2>2, <2>5, Begins
<1> QED  BY <1>1, <1>2, <1>3

\* The places of an operation, as the proofs below read them.
LEMMA PlaceNames ==
  /\ UpdatePlaces = {"stage", "aside", "promote", "unswap", "record", "rollback", "restore", "cleanup"}
  /\ MigrationPlaces = {"list", "check", "run", "grant", "regrant"}
  /\ InstallPlaces = {"clone", "cloning", "validate", "register"}
  /\ UninstallPlaces = {"revoke", "down", "unrecord", "drop", "purgeMigrations", "remove", "purge"}
BY DEF UpdatePlaces, MigrationPlaces, InstallPlaces, UninstallPlaces

\* Whose directories those are that are there.
LEMMA OnlyItsOwn ==
  ASSUME Orderly, NEW w \in Workers, Updating(w), ~harmed
  PROVE  \A s \in Stamps \ {mem[w].stamp} : staging[s] = None /\ backup[s] = None
<1>1. \A v \in Workers : Updating(v) => v = w
  BY DEF Orderly, Alone, Idle, Updating, UpdatePlaces, MigrationPlaces
<1> QED  BY <1>1 DEF Orderly, Healthy, NoneLeft

LEMMA KeepsToItsOwn ==
  ASSUME NEW w \in Workers, Updating(w)',
         \A t \in Stamps \ {mem'[w].stamp} : staging'[t] = None /\ backup'[t] = None
  PROVE  NoneLeft'
BY DEF NoneLeft

LEMMA StageStep ==
  ASSUME Orderly, TypeOK', NEW w \in Workers, Stage(w)
  PROVE  Orderly'
<1> DEFINE s == mem[w].stamp
<1>1. /\ pc[w] = "stage" /\ mem[w].kind = "update" /\ live = mem[w].pre /\ mem[w].pre \in Versions
      /\ Updating(w) /\ s \in Stamps /\ mem[w] \in Locals
  BY PlaceNames, LocalsType DEF Orderly, Stage, PlaceOK, FilesOK, Updating, TypeOK
<1>2. UNCHANGED <<live, backup, applied, tables, granted, row, settings, strays, harmed>>
  BY DEF Stage, schema, rows, Harmless
<1>3. ~harmed => /\ 1..mem[w].pre \subseteq tables /\ row \in {None, 0, mem[w].pre}
                 /\ staging[s] = None /\ backup[s] = None /\ ~mem[w].slip
                 /\ \A t \in Stamps \ {s} : staging[t] = None /\ backup[t] = None
  BY <1>1, OnlyItsOwn DEF Orderly, Healthy, HealthOK, StagingOf, BackupOf
<1>4. CASE Goto(w, "aside")
  <2>1. /\ pc' = [pc EXCEPT ![w] = "aside"] /\ answer' = answer
        /\ staging' = [staging EXCEPT ![s] = latest]
        /\ mem' = [mem EXCEPT ![w].post = latest]
    BY <1>4, <1>1 DEF Stage, Goto, Return, SetStaging, Orderly, TypeOK
  <2>2. /\ pc'[w] = "aside" /\ mem'[w] = [mem[w] EXCEPT !.post = latest]
        /\ staging'[s] = latest /\ \A t \in Stamps \ {s} : staging'[t] = staging[t]
        /\ \A v \in Workers \ {w} : mem'[v] = mem[v]
    BY <1>1, <2>1 DEF Orderly, TypeOK
  <2>3. /\ mem'[w].kind = "update" /\ mem'[w].pre = mem[w].pre /\ mem'[w].post = latest
        /\ mem'[w].stamp = s /\ mem'[w].slip = mem[w].slip
    BY <1>1, <2>2 DEF Locals
  <2>4. PlaceOK(w)' /\ FilesOK(w)' /\ SchemaOK(w)' /\ RemovalOK(w)'
    BY <1>1, <1>2, <2>2, <2>3, PlaceNames DEF PlaceOK, FilesOK, SchemaOK, RemovalOK, Updating,
      Replacing, StagingOf, BackupOf
  <2>5. Updating(w)'
    BY <2>2, <2>3, PlaceNames DEF Updating
  <2>6. ~harmed => NoneLeft'
    BY <1>2, <1>3, <2>2, <2>3, <2>5, KeepsToItsOwn
  <2>7. ~harmed => HealthOK(w)'
    BY <1>1, <1>2, <1>3, <2>2, <2>3, <2>5, PlaceNames DEF HealthOK, StagingOf, BackupOf
  <2> QED  BY <1>1, <1>2, <2>1, <2>2, <2>4, <2>6, <2>7, Continues
<1>5. CASE Return(w, "failed")
  <2>1. /\ pc' = [pc EXCEPT ![w] = "idle"] /\ answer' = [answer EXCEPT ![w] = "failed"]
        /\ staging' = [staging EXCEPT ![s] = None] /\ mem' = mem
    BY <1>5, <1>1 DEF Stage, Goto, Return, SetStaging, Orderly, TypeOK
  <2>2. staging'[s] = None /\ \A t \in Stamps \ {s} : staging'[t] = staging[t]
    BY <1>1, <2>1 DEF Orderly, TypeOK
  <2>3. Answered(w, "failed")
    BY <1>1, <1>2, <1>3, <2>1, <2>2, MarkersAssumption DEF Answered, Loadable, Versions
  <2> QED  BY <1>1, <1>2, <2>1, <2>3, Finishes
<1> QED  BY <1>4, <1>5 DEF Stage

\* What stays of a worker's locals through the steps of an operation.
Constant(w) == /\ mem'[w].kind = mem[w].kind /\ mem'[w].stamp = mem[w].stamp
               /\ mem'[w].pre = mem[w].pre /\ mem'[w].post = mem[w].post
               /\ mem'[w].data = mem[w].data
               /\ \A v \in Workers \ {w} : mem'[v] = mem[v]

LEMMA LocalSteps ==
  ASSUME TypeOK, NEW w \in Workers
  PROVE  /\ UNCHANGED mem => Constant(w) /\ mem'[w] = mem[w]
         /\ Slips(w) => /\ Constant(w) /\ mem'[w].slip = TRUE
                        /\ mem'[w].todo = mem[w].todo /\ mem'[w].declared = mem[w].declared
         /\ \A left : Todo(w, left) => /\ Constant(w) /\ mem'[w].slip = mem[w].slip
                                       /\ mem'[w].todo = left /\ mem'[w].declared = mem[w].declared
<1>1. mem[w] \in Locals
  BY DEF TypeOK
<1>2. ASSUME Slips(w)
      PROVE  mem'[w] = [mem[w] EXCEPT !.slip = TRUE] /\ \A v \in Workers \ {w} : mem'[v] = mem[v]
  BY <1>2 DEF Slips, TypeOK
<1>3. ASSUME NEW left, Todo(w, left)
      PROVE  mem'[w] = [mem[w] EXCEPT !.todo = left] /\ \A v \in Workers \ {w} : mem'[v] = mem[v]
  BY <1>3 DEF Todo, TypeOK
<1> QED  BY <1>1, <1>2, <1>3 DEF Constant, Locals

LEMMA PlaceSteps ==
  ASSUME TypeOK, NEW w \in Workers
  PROVE  /\ \A place : Goto(w, place) => /\ pc' = [pc EXCEPT ![w] = place] /\ pc'[w] = place
                                         /\ answer' = answer
         /\ \A what : Return(w, what) => /\ pc' = [pc EXCEPT ![w] = "idle"]
                                         /\ answer' = [answer EXCEPT ![w] = what]
BY DEF TypeOK, Goto, Return

LEMMA DirectorySteps ==
  ASSUME TypeOK, NEW w \in Workers
  PROVE  /\ mem[w].stamp \in Stamps
         /\ \A d : SetStaging(w, d) => /\ staging'[mem[w].stamp] = d
                                       /\ \A t \in Stamps \ {mem[w].stamp} : staging'[t] = staging[t]
         /\ \A d : SetBackup(w, d) => /\ backup'[mem[w].stamp] = d
                                      /\ \A t \in Stamps \ {mem[w].stamp} : backup'[t] = backup[t]
BY LocalsType DEF TypeOK, SetStaging, SetBackup

\* An update that moves on keeps what it found, where nothing is harmed.
LEMMA Found ==
  ASSUME Orderly, NEW w \in Workers, Updating(w), ~harmed
  PROVE  /\ 1..mem[w].pre \subseteq tables /\ ~mem[w].slip
         /\ pc[w] \notin {"regrant", "cleanup"} => row \in {None, 0, mem[w].pre}
         /\ pc[w] \in {"stage", "aside"} => BackupOf(w) = None
         /\ pc[w] = "stage" => StagingOf(w) = None
         /\ \A t \in Stamps \ {mem[w].stamp} : staging[t] = None /\ backup[t] = None
BY OnlyItsOwn DEF Orderly, Healthy, HealthOK

LEMMA SwapSteps ==
  ASSUME Orderly, TypeOK', NEW w \in Workers
  PROVE  /\ MoveAside(w) => Orderly'
         /\ Promote(w) => Orderly'
         /\ Unswap(w) => Orderly'
<1> USE PlaceNames
<1>t. TypeOK /\ PlaceOK(w) /\ FilesOK(w)
  BY DEF Orderly
<1>n. None \notin Versions
  BY MarkersAssumption DEF Versions
<1> DEFINE s == mem[w].stamp
<1>1. ASSUME MoveAside(w) PROVE Orderly'
  <2>1. /\ pc[w] = "aside" /\ Updating(w) /\ mem[w].kind = "update" /\ live = mem[w].pre
        /\ mem[w].pre \in Versions /\ staging[s] = mem[w].post
    BY <1>1, <1>t DEF MoveAside, PlaceOK, FilesOK, Updating, StagingOf
  <2>2. UNCHANGED <<applied, tables, granted, row, settings, strays, harmed, mem>>
    BY <1>1 DEF MoveAside, schema, rows, Harmless
  <2>3. CASE SetBackup(w, live) /\ live' = None /\ Goto(w, "promote") /\ UNCHANGED staging
    <3>1. pc'[w] = "promote" /\ pc' = [pc EXCEPT ![w] = "promote"] /\ answer' = answer
      BY <2>3, <1>t, PlaceSteps
    <3>2. backup'[s] = mem[w].pre /\ \A t \in Stamps \ {s} : backup'[t] = backup[t]
      BY <2>1, <2>3, <1>t, DirectorySteps
    <3>3. Updating(w)' /\ PlaceOK(w)' /\ FilesOK(w)' /\ SchemaOK(w)' /\ RemovalOK(w)'
      BY <2>1, <2>2, <2>3, <3>1, <3>2 DEF PlaceOK, FilesOK, SchemaOK, RemovalOK, Updating,
        Replacing, StagingOf, BackupOf
    <3>4. ~harmed => NoneLeft' /\ HealthOK(w)'
      <4>1. ~harmed => NoneLeft'
        BY <2>1, <2>2, <2>3, <3>2, <3>3, Found, KeepsToItsOwn
      <4> QED  BY <2>1, <2>2, <3>1, <4>1, Found DEF HealthOK, Updating
    <3> QED  BY <2>1, <2>2, <3>1, <3>3, <3>4, Continues
  <2>4. CASE SetStaging(w, None) /\ Return(w, "failed") /\ UNCHANGED <<live, backup>>
    <3>1. staging'[s] = None /\ \A t \in Stamps \ {s} : staging'[t] = staging[t]
      BY <2>4, <1>t, DirectorySteps
    <3>2. Answered(w, "failed")
      BY <2>1, <2>2, <2>4, <3>1, <1>t, <1>n, PlaceSteps, Found DEF Answered, Loadable, BackupOf
    <3> QED  BY <2>1, <2>2, <2>4, <3>2, <1>t, PlaceSteps, Finishes
  <2> QED  BY <1>1, <2>3, <2>4 DEF MoveAside
<1>2. ASSUME Promote(w) PROVE Orderly'
  <2>1. /\ pc[w] = "promote" /\ Updating(w) /\ mem[w].kind = "update" /\ live = None
        /\ mem[w].pre \in Versions /\ staging[s] = mem[w].post /\ backup[s] = mem[w].pre
    BY <1>2, <1>t DEF Promote, PlaceOK, FilesOK, Updating, StagingOf, BackupOf
  <2>2. UNCHANGED <<backup, applied, tables, granted, row, settings, strays, harmed, mem>>
    BY <1>2 DEF Promote, schema, rows, Harmless
  <2>3. CASE live' = StagingOf(w) /\ SetStaging(w, None) /\ Goto(w, "list")
    <3>1. pc'[w] = "list" /\ pc' = [pc EXCEPT ![w] = "list"] /\ answer' = answer
      BY <2>3, <1>t, PlaceSteps
    <3>2. staging'[s] = None /\ \A t \in Stamps \ {s} : staging'[t] = staging[t]
      BY <2>3, <1>t, DirectorySteps
    <3>3. Updating(w)' /\ PlaceOK(w)' /\ FilesOK(w)' /\ SchemaOK(w)' /\ RemovalOK(w)'
      BY <2>1, <2>2, <2>3, <3>1, <3>2 DEF PlaceOK, FilesOK, SchemaOK, RemovalOK, Updating,
        Replacing, StagingOf, BackupOf
    <3>4. ~harmed => NoneLeft' /\ HealthOK(w)'
      <4>1. ~harmed => NoneLeft'
        BY <2>1, <2>2, <3>2, <3>3, Found, KeepsToItsOwn
      <4> QED  BY <2>1, <2>2, <3>1, <4>1, Found DEF HealthOK, Updating
    <3> QED  BY <2>1, <2>2, <3>1, <3>3, <3>4, Continues
  <2>4. CASE Goto(w, "unswap") /\ UNCHANGED <<live, staging>>
    <3>1. pc'[w] = "unswap" /\ pc' = [pc EXCEPT ![w] = "unswap"] /\ answer' = answer
      BY <2>4, <1>t, PlaceSteps
    <3>2. Updating(w)' /\ PlaceOK(w)' /\ FilesOK(w)' /\ SchemaOK(w)' /\ RemovalOK(w)'
      BY <2>1, <2>2, <2>4, <3>1 DEF PlaceOK, FilesOK, SchemaOK, RemovalOK, Updating,
        Replacing, StagingOf, BackupOf
    <3>3. ~harmed => NoneLeft' /\ HealthOK(w)'
      <4>1. ~harmed => NoneLeft'
        BY <2>1, <2>2, <2>4, <3>2, Found, KeepsToItsOwn
      <4> QED  BY <2>1, <2>2, <3>1, <4>1, Found DEF HealthOK, Updating
    <3> QED  BY <2>1, <2>2, <3>1, <3>2, <3>3, Continues
  <2> QED  BY <1>2, <2>3, <2>4 DEF Promote
<1>3. ASSUME Unswap(w) PROVE Orderly'
  <2>1. /\ pc[w] = "unswap" /\ Updating(w) /\ mem[w].kind = "update" /\ live = None
        /\ mem[w].pre \in Versions /\ backup[s] = mem[w].pre
    BY <1>3, <1>t DEF Unswap, PlaceOK, FilesOK, Updating, BackupOf
  <2>2. UNCHANGED <<applied, tables, granted, row, settings, strays>>
    BY <1>3 DEF Unswap, schema, rows
  <2>3. live' = mem[w].pre /\ SetBackup(w, None) /\ SetStaging(w, None) /\ UNCHANGED <<mem, harmed>>
    BY <1>3, <2>1, <1>n DEF Unswap, BackupOf, Harmless
  <2>4. /\ staging'[s] = None /\ \A t \in Stamps \ {s} : staging'[t] = staging[t]
        /\ backup'[s] = None /\ \A t \in Stamps \ {s} : backup'[t] = backup[t]
    BY <2>3, <1>t, DirectorySteps
  <2>5. Answered(w, "failed")
    BY <1>3, <2>1, <2>2, <2>3, <2>4, <1>t, <1>n, PlaceSteps, Found DEF Unswap, Answered, Loadable
  <2> QED  BY <1>3, <2>1, <2>3, <2>5, <1>t, PlaceSteps, Finishes DEF Unswap
<1> QED  BY <1>1, <1>2, <1>3

LEMMA RollbackSteps ==
  ASSUME Orderly, TypeOK', NEW w \in Workers
  PROVE  /\ Rollback(w) => Orderly'
         /\ Restore(w) => Orderly'
         /\ Record(w) => Orderly'
         /\ Cleanup(w) => Orderly'
<1> USE PlaceNames
<1>t. TypeOK /\ PlaceOK(w) /\ FilesOK(w) /\ SchemaOK(w)
  BY DEF Orderly
<1>n. None \notin Versions
  BY MarkersAssumption DEF Versions
<1> DEFINE s == mem[w].stamp
<1>1. ASSUME Rollback(w) PROVE Orderly'
  <2>1. /\ pc[w] = "rollback" /\ Updating(w) /\ mem[w].kind = "update"
        /\ mem[w].pre \in Versions /\ staging[s] = None /\ backup[s] = mem[w].pre
    BY <1>1, <1>t DEF Rollback, PlaceOK, FilesOK, Updating, Replacing, StagingOf, BackupOf
  <2>2. /\ UNCHANGED <<staging, backup, applied, tables, granted, row, settings, strays, harmed, mem>>
        /\ live' = None
    BY <1>1 DEF Rollback, schema, rows, Harmless
  <2>3. pc'[w] = "restore" /\ pc' = [pc EXCEPT ![w] = "restore"] /\ answer' = answer
    BY <1>1, <1>t, PlaceSteps DEF Rollback
  <2>4. Updating(w)' /\ PlaceOK(w)' /\ FilesOK(w)' /\ SchemaOK(w)' /\ RemovalOK(w)'
    BY <2>1, <2>2, <2>3 DEF PlaceOK, FilesOK, SchemaOK, RemovalOK, Updating, Replacing,
      StagingOf, BackupOf
  <2>5. ~harmed => NoneLeft'
    BY <2>1, <2>2, <2>4, Found, KeepsToItsOwn
  <2>6. ~harmed => HealthOK(w)'
    BY <2>1, <2>2, <2>3, Found DEF HealthOK, Updating
  <2> QED  BY <2>1, <2>2, <2>3, <2>4, <2>5, <2>6, Continues
<1>2. ASSUME Restore(w) PROVE Orderly'
  <2>1. /\ pc[w] = "restore" /\ Updating(w) /\ mem[w].kind = "update" /\ live = None
        /\ mem[w].pre \in Versions /\ staging[s] = None /\ backup[s] = mem[w].pre
    BY <1>2, <1>t DEF Restore, PlaceOK, FilesOK, Updating, StagingOf, BackupOf
  <2>2. UNCHANGED <<staging, applied, tables, granted, row, settings, strays>>
    BY <1>2 DEF Restore, schema, rows
  <2>3. pc' = [pc EXCEPT ![w] = "idle"] /\ answer' = [answer EXCEPT ![w] = "failed"]
    BY <1>2, <1>t, PlaceSteps DEF Restore
  <2>4. CASE live' = BackupOf(w) /\ SetBackup(w, None) /\ Harmless /\ UNCHANGED mem
    <3>1. backup'[s] = None /\ \A t \in Stamps \ {s} : backup'[t] = backup[t]
      BY <2>4, <1>t, DirectorySteps
    <3>2. Answered(w, "failed")
      BY <2>1, <2>2, <2>3, <2>4, <3>1, <1>n, Found DEF Answered, Loadable, BackupOf, Harmless
    <3> QED  BY <2>1, <2>3, <2>4, <3>2, Finishes DEF Harmless
  <2>5. CASE Harm /\ Slips(w)
    <3>1. Answered(w, "failed") /\ Constant(w)
      BY <2>3, <2>5, <1>t, LocalSteps DEF Answered, Harm
    <3> QED  BY <2>1, <2>3, <2>5, <3>1, Finishes DEF Harm, Constant
  <2> QED  BY <1>2, <2>4, <2>5 DEF Restore
<1>3. ASSUME Record(w) PROVE Orderly'
  <2>1. /\ pc[w] = "record" /\ Updating(w) /\ Replacing(w) /\ mem[w].kind = "update"
        /\ mem[w].pre \in Versions /\ staging[s] = None /\ backup[s] = mem[w].pre
        /\ live = mem[w].post /\ mem[w].post \in Versions
        /\ ~mem[w].slip => /\ 1..mem[w].post \subseteq applied \cap tables
                           /\ 1..mem[w].post \subseteq granted
    BY <1>3, <1>t, LocalsType DEF Record, PlaceOK, FilesOK, SchemaOK, Updating, Replacing,
      StagingOf, BackupOf, TypeOK
  <2>2. /\ UNCHANGED <<live, staging, backup, applied, tables, granted, settings, strays>>
        /\ Goto(w, "regrant")
    BY <1>3 DEF Record, files, schema, rows, Swallow
  <2>3. pc'[w] = "regrant" /\ pc' = [pc EXCEPT ![w] = "regrant"] /\ answer' = answer
    BY <2>2, <1>t, PlaceSteps
  <2>4. \/ /\ row' = IF row = None THEN row ELSE live
           /\ UNCHANGED <<mem, harmed>>
        \/ harmed' /\ Slips(w)
    BY <1>3, <2>1 DEF Record, Swallow, Harm, Harmless
  <2>5. Constant(w) /\ (mem[w].slip => mem'[w].slip) /\ (mem'[w].slip => mem[w].slip \/ harmed')
    BY <2>4, <1>t, LocalSteps
  <2>6. Updating(w)' /\ PlaceOK(w)' /\ FilesOK(w)' /\ RemovalOK(w)'
    BY <2>1, <2>2, <2>3, <2>5 DEF PlaceOK, FilesOK, RemovalOK, Updating, Replacing,
      StagingOf, BackupOf, Constant
  <2>7. SchemaOK(w)'
    <3>1. ~mem'[w].slip => ~mem[w].slip /\ row' \in {None, live}
      BY <2>4, <2>5, <1>t, LocalSteps
    <3> QED  BY <2>1, <2>2, <2>3, <2>5, <3>1 DEF SchemaOK, Loadable, Constant
  <2>8. ~harmed' => ~harmed /\ UNCHANGED mem
    BY <2>4, <1>3 DEF Record, Harmless, Harm, Swallow
  <2>9. ~harmed' => NoneLeft'
    BY <2>1, <2>2, <2>6, <2>8, Found, KeepsToItsOwn
  <2>10. ~harmed' => HealthOK(w)'
    BY <2>1, <2>2, <2>3, <2>8, Found DEF HealthOK, Updating
  <2>11. harmed => harmed'
    BY <2>4
  <2> QED  BY <2>1, <2>3, <2>5, <2>6, <2>7, <2>9, <2>10, <2>11, Continues DEF Constant
<1>4. ASSUME Cleanup(w) PROVE Orderly'
  <2>1. /\ pc[w] = "cleanup" /\ Updating(w) /\ mem[w].kind = "update"
        /\ mem[w].pre \in Versions /\ staging[s] = None /\ live = mem[w].post
        /\ mem[w].post \in Versions
        /\ ~mem[w].slip => /\ 1..mem[w].post \subseteq applied \cap tables
                           /\ 1..mem[w].post \subseteq granted
                           /\ Loadable
    BY <1>4, <1>t, LocalsType DEF Cleanup, PlaceOK, FilesOK, SchemaOK, Updating, Replacing,
      StagingOf, BackupOf, TypeOK
  <2>2. UNCHANGED <<live, staging, applied, tables, granted, row, settings, strays, mem, harmed>>
    BY <1>4 DEF Cleanup, schema, rows, Harmless
  <2>3. backup'[s] = None /\ \A t \in Stamps \ {s} : backup'[t] = backup[t]
    BY <1>4, <1>t, DirectorySteps DEF Cleanup
  <2>4. pc' = [pc EXCEPT ![w] = "idle"] /\ answer' = [answer EXCEPT ![w] = "updated"]
    BY <1>4, <1>t, PlaceSteps DEF Cleanup
  <2>5. Answered(w, "updated")
    BY <2>1, <2>2, <2>3, <2>4, <1>n, Found DEF Answered, Loadable
  <2> QED  BY <2>1, <2>2, <2>4, <2>5, Finishes
<1> QED  BY <1>1, <1>2, <1>3, <1>4

\* The library's induction is over operators, which no prover here takes; its order
\* on finite sets is not.
LEMMA LeastNatural ==
  ASSUME NEW S, S \subseteq Nat, S # {}
  PROVE  \E m \in S : \A n \in S : m =< n
<1> DEFINE T == {0..n : n \in S}
<1>1. T # {} /\ T \subseteq FiniteSubsetsOf(Nat)
  <2>1. ASSUME NEW n \in S PROVE 0..n \in SUBSET Nat /\ IsFiniteSet(0..n)
    <3>1. 0 \in Int /\ n \in Int
      OBVIOUS
    <3> QED  BY <3>1, FS_Interval
  <2> QED  BY <2>1 DEF FiniteSubsetsOf
<1>2. PICK X \in T : \A Y \in T : <<Y, X>> \notin StrictSubsetOrdering(Nat)
  BY <1>1, FS_StrictSubsetOrderingWellFounded, WFMin
<1>3. PICK m \in S : X = 0..m
  OBVIOUS
<1>4. ASSUME NEW n \in S, n < m PROVE FALSE
  <2>1. 0..n \subseteq 0..m /\ m \in 0..m /\ m \notin 0..n
    BY <1>4
  <2>2. <<0..n, X>> \in StrictSubsetOrdering(Nat)
    BY <1>3, <2>1, <1>1 DEF StrictSubsetOrdering
  <2> QED  BY <1>2, <2>2
<1> QED  BY <1>4

LEMMA MinIsMember ==
  ASSUME NEW S, S \subseteq Nat, S # {}
  PROVE  Min(S) \in S
BY LeastNatural DEF Min

\* An install or an uninstall finds no directory of an update.
LEMMA NoUpdate ==
  ASSUME Orderly, NEW w \in Workers, pc[w] # "idle", mem[w].kind # "update", ~harmed
  PROVE  \A s \in Stamps : staging[s] = None /\ backup[s] = None
<1>1. \A v \in Workers : ~Updating(v)
  BY DEF Orderly, Alone, Idle, Updating, UpdatePlaces, MigrationPlaces
<1> QED  BY <1>1 DEF Orderly, Healthy, NoneLeft

\* What a step owes that stays among the migrations and grants or leaves them for
\* the update's last steps.
LEMMA Migrates ==
  ASSUME Orderly, TypeOK', NEW w \in Workers, pc[w] \in MigrationPlaces,
         NEW place, pc' = [pc EXCEPT ![w] = place], answer' = answer,
         \/ place \in {"check", "run", "grant"} /\ pc[w] \in {"list", "check", "run"}
         \/ place = "regrant" /\ mem[w].kind = "install"
         \/ place = "record" /\ mem[w].kind = "update" /\ pc[w] = "grant"
         \/ place = "rollback" /\ mem[w].kind = "update" /\ pc[w] # "regrant"
         \/ place = "cleanup" /\ mem[w].kind = "update" /\ pc[w] = "regrant",
         UNCHANGED <<files, rows>>, tables \subseteq tables',
         Constant(w), harmed => harmed', ~harmed' => ~harmed /\ mem'[w].slip = mem[w].slip,
         SchemaOK(w)'
  PROVE  Orderly'
<1> USE PlaceNames
<1>t. TypeOK /\ PlaceOK(w) /\ FilesOK(w)
  BY DEF Orderly
<1>1. pc'[w] = place /\ place # "idle" /\ UNCHANGED <<live, staging, backup, row, settings, strays>>
  BY <1>t DEF TypeOK, files, rows
<1>2. mem[w].kind \in {"update", "install"} /\ live = mem[w].post
  BY <1>t DEF PlaceOK, FilesOK
<1>3. PlaceOK(w)' /\ RemovalOK(w)'
  BY <1>1, <1>2 DEF PlaceOK, RemovalOK, Constant
<1>4. CASE mem[w].kind = "update"
  <2>1. /\ Updating(w) /\ Updating(w)' /\ place \in {"check", "run", "grant", "record", "rollback", "cleanup"}
        /\ mem[w].pre \in Versions /\ BackupOf(w) = mem[w].pre /\ StagingOf(w) = None
    BY <1>t, <1>1, <1>4 DEF Updating, FilesOK, Replacing, Constant
  <2>2. FilesOK(w)'
    BY <1>1, <1>2, <2>1, <1>4 DEF FilesOK, Updating, Replacing, StagingOf, BackupOf, Constant
  <2>3. ASSUME ~harmed' PROVE NoneLeft' /\ HealthOK(w)'
    <3>1. ~harmed /\ mem'[w].slip = mem[w].slip
      BY <2>3
    <3>2. NoneLeft'
      BY <1>1, <2>1, <3>1, Found, KeepsToItsOwn DEF Constant
    <3>3. place # "cleanup" => row \in {None, 0, mem[w].pre}
      BY <1>4, <2>1, <3>1, Found
    <3>4. 1..mem[w].pre \subseteq tables' /\ ~mem'[w].slip
      BY <2>1, <3>1, Found
    <3> QED  BY <1>1, <1>4, <2>1, <3>2, <3>3, <3>4 DEF HealthOK, Updating, Constant
  <2> QED  BY <1>1, <1>3, <2>2, <2>3, Continues DEF Constant
<1>5. CASE mem[w].kind = "install"
  <2>1. place \in MigrationPlaces
    BY <1>5
  <2>2. FilesOK(w)'
    BY <1>1, <1>2, <2>1, <1>5 DEF FilesOK, Updating, Replacing, StagingOf, BackupOf, Constant
  <2>3. ASSUME ~harmed' PROVE NoneLeft' /\ HealthOK(w)'
    <3>1. ~harmed /\ mem'[w].slip = mem[w].slip
      BY <2>3
    <3>2. row = live /\ ~mem[w].slip
      BY <1>5, <3>1 DEF Orderly, Healthy, HealthOK
    <3>3. NoneLeft'
      BY <1>1, <1>5, <3>1, NoUpdate DEF NoneLeft
    <3> QED  BY <1>1, <1>5, <2>1, <3>1, <3>2, <3>3 DEF HealthOK, Updating, Constant
  <2> QED  BY <1>1, <1>3, <2>2, <2>3, Continues DEF Constant
<1> QED  BY <1>2, <1>4, <1>5

LEMMA MigrationSteps ==
  ASSUME Orderly, TypeOK', NEW w \in Workers
  PROVE  /\ ListMigrations(w) => Orderly'
         /\ CheckMigration(w) => Orderly'
         /\ RunMigration(w) => Orderly'
         /\ Grant(w) => Orderly'
         /\ Regrant(w) => Orderly'
<1> USE PlaceNames
<1>t. TypeOK /\ PlaceOK(w) /\ FilesOK(w) /\ SchemaOK(w) /\ mem[w] \in Locals
  BY DEF Orderly, TypeOK
<1>m. mem[w].todo \subseteq Versions /\ mem[w].post \in Versions
  BY <1>t, LocalsType
<1>d. \A d \in Versions : Declares(d) = 1..d
  BY DEF Declares
<1>k. ASSUME pc[w] \in MigrationPlaces
      PROVE  live = mem[w].post /\ mem[w].kind \in {"update", "install"}
  BY <1>t, <1>k DEF PlaceOK, FilesOK
<1>1. ASSUME ListMigrations(w) PROVE Orderly'
  <2>1. /\ pc[w] = "list" /\ Goto(w, "check")
        /\ mem' = [mem EXCEPT ![w].todo = 1..mem[w].post, ![w].declared = 1..mem[w].post]
    BY <1>1, <1>k, <1>m, <1>d DEF ListMigrations
  <2>2. UNCHANGED <<files, rows, tables, harmed>>
    BY <1>1 DEF ListMigrations, schema, Harmless
  <2>3. pc'[w] = "check" /\ pc' = [pc EXCEPT ![w] = "check"] /\ answer' = answer
    BY <2>1, <1>t, PlaceSteps
  <2>4. /\ mem'[w] = [mem[w] EXCEPT !.todo = 1..mem[w].post, !.declared = 1..mem[w].post]
        /\ \A v \in Workers \ {w} : mem'[v] = mem[v]
    BY <2>1, <1>t DEF TypeOK
  <2>5. Constant(w) /\ mem'[w].slip = mem[w].slip /\ mem'[w].todo = 1..mem[w].post
        /\ mem'[w].declared = 1..mem[w].post
    BY <2>4, <1>t DEF Constant, Locals
  <2>6. SchemaOK(w)'
    BY <2>3, <2>5 DEF SchemaOK, Constant
  <2> QED  BY <2>1, <2>2, <2>3, <2>5, <2>6, Migrates
<1>2. ASSUME CheckMigration(w) PROVE Orderly'
  <2> DEFINE n == NextFile(w)
  <2>1. /\ pc[w] = "check" /\ mem[w].declared = 1..mem[w].post
        /\ (1..mem[w].post) \ mem[w].todo \subseteq applied \cap tables
    BY <1>2, <1>t DEF CheckMigration, SchemaOK
  <2>2. UNCHANGED <<files, rows, tables, granted, harmed>>
    BY <1>2 DEF CheckMigration, Harmless
  <2>3. CASE mem[w].todo = {} /\ Goto(w, "grant") /\ UNCHANGED <<mem, applied>>
    <3>1. pc'[w] = "grant" /\ pc' = [pc EXCEPT ![w] = "grant"] /\ answer' = answer
      BY <2>3, <1>t, PlaceSteps
    <3>2. Constant(w) /\ mem'[w] = mem[w]
      BY <2>3, <1>t, LocalSteps
    <3>3. SchemaOK(w)'
      BY <2>1, <2>2, <2>3, <3>1, <3>2 DEF SchemaOK
    <3> QED  BY <2>1, <2>2, <3>1, <3>2, <3>3, Migrates
  <2>4. CASE /\ n \in applied /\ SkipIsSafe(w) /\ Todo(w, mem[w].todo \ {n})
             /\ UNCHANGED <<pc, answer, applied>>
    <3>1. pc'[w] = "check" /\ pc' = [pc EXCEPT ![w] = "check"] /\ answer' = answer
      BY <2>1, <2>4, <1>t DEF TypeOK
    <3>2. /\ Constant(w) /\ mem'[w].slip = mem[w].slip /\ mem'[w].declared = mem[w].declared
          /\ mem'[w].todo = mem[w].todo \ {n}
      BY <2>4, <1>t, LocalSteps
    <3>3. 1..mem[w].post \subseteq tables
      BY <2>1, <2>4 DEF SkipIsSafe
    <3>4. (1..mem[w].post) \ (mem[w].todo \ {n}) \subseteq applied \cap tables
      BY <2>1, <2>4, <3>3
    <3>5. SchemaOK(w)'
      BY <2>1, <2>2, <2>4, <3>1, <3>2, <3>4 DEF SchemaOK, Constant
    <3> QED  BY <2>1, <2>2, <3>1, <3>2, <3>5, Migrates
  <2>5. CASE /\ mem[w].todo # {} /\ applied' \in {applied, applied \ {n}} /\ Goto(w, "run")
             /\ UNCHANGED mem
    <3>1. pc'[w] = "run" /\ pc' = [pc EXCEPT ![w] = "run"] /\ answer' = answer
      BY <2>5, <1>t, PlaceSteps
    <3>2. Constant(w) /\ mem'[w] = mem[w]
      BY <2>5, <1>t, LocalSteps
    <3>3. n \in mem[w].todo
      <4>1. mem[w].todo \subseteq Nat
        BY <1>m DEF Versions
      <4> QED  BY <2>5, <4>1, MinIsMember DEF NextFile
    <3>4. (1..mem[w].post) \ mem[w].todo \subseteq applied' \cap tables
      BY <2>1, <2>5, <3>3
    <3>5. SchemaOK(w)'
      BY <2>1, <2>2, <3>1, <3>2, <3>4 DEF SchemaOK
    <3> QED  BY <2>1, <2>2, <3>1, <3>2, <3>5, Migrates
  <2> QED  BY <1>2, <2>3, <2>4, <2>5 DEF CheckMigration
<1>3. ASSUME RunMigration(w) PROVE Orderly'
  <2> DEFINE n == NextFile(w)
  <2>1. /\ pc[w] = "run" /\ mem[w].declared = 1..mem[w].post
        /\ (1..mem[w].post) \ mem[w].todo \subseteq applied \cap tables
    BY <1>3, <1>t DEF RunMigration, SchemaOK
  <2>2. UNCHANGED <<files, rows, granted>>
    BY <1>3 DEF RunMigration
  <2>3. CASE /\ applied' = applied \cup {n} /\ tables' = tables \cup {n}
             /\ Todo(w, mem[w].todo \ {n}) /\ Goto(w, "check") /\ Harmless
    <3>1. pc'[w] = "check" /\ pc' = [pc EXCEPT ![w] = "check"] /\ answer' = answer
      BY <2>3, <1>t, PlaceSteps
    <3>2. /\ Constant(w) /\ mem'[w].slip = mem[w].slip /\ mem'[w].declared = mem[w].declared
          /\ mem'[w].todo = mem[w].todo \ {n}
      BY <2>3, <1>t, LocalSteps
    <3>3. (1..mem[w].post) \ (mem[w].todo \ {n}) \subseteq applied' \cap tables'
      BY <2>1, <2>3
    <3>4. SchemaOK(w)'
      BY <2>1, <3>1, <3>2, <3>3 DEF SchemaOK, Constant
    <3> QED  BY <2>1, <2>2, <2>3, <3>1, <3>2, <3>4, Migrates DEF Harmless
  <2>4. CASE Raise(w) /\ UNCHANGED <<applied, tables>>
    <3>1. CASE mem[w].kind = "update"
      <4>1. Goto(w, "rollback") /\ Harmless /\ UNCHANGED mem
        BY <2>4, <3>1 DEF Raise
      <4>2. pc'[w] = "rollback" /\ pc' = [pc EXCEPT ![w] = "rollback"] /\ answer' = answer
        BY <4>1, <1>t, PlaceSteps
      <4>3. Constant(w) /\ mem'[w] = mem[w]
        BY <4>1, <1>t, LocalSteps
      <4>4. SchemaOK(w)'
        BY <4>2 DEF SchemaOK
      <4> QED  BY <2>1, <2>2, <2>4, <3>1, <4>1, <4>2, <4>3, <4>4, Migrates DEF Harmless
    <3>2. CASE mem[w].kind = "install"
      <4>1. Goto(w, "grant") /\ Harm /\ Slips(w)
        BY <2>4, <3>2 DEF Raise
      <4>2. pc'[w] = "grant" /\ pc' = [pc EXCEPT ![w] = "grant"] /\ answer' = answer
        BY <4>1, <1>t, PlaceSteps
      <4>3. Constant(w) /\ mem'[w].slip
        BY <4>1, <1>t, LocalSteps
      <4>4. SchemaOK(w)'
        BY <4>2, <4>3 DEF SchemaOK
      <4> QED  BY <2>1, <2>2, <2>4, <4>1, <4>2, <4>3, <4>4, Migrates DEF Harm
    <3> QED  BY <2>1, <1>k, <3>1, <3>2
  <2> QED  BY <1>3, <2>3, <2>4 DEF RunMigration
<1>4. ASSUME Grant(w) PROVE Orderly'
  <2>1. pc[w] = "grant" /\ (~mem[w].slip => 1..mem[w].post \subseteq applied \cap tables)
    BY <1>4, <1>t DEF Grant, SchemaOK
  <2>2. UNCHANGED <<files, rows, applied, tables>>
    BY <1>4 DEF Grant
  <2>3. CASE /\ granted' = granted \cup (Declares(mem[w].post) \cap tables)
             /\ Goto(w, IF mem[w].kind = "update" THEN "record" ELSE "regrant")
             /\ Harmless /\ UNCHANGED mem
    <3> DEFINE place == IF mem[w].kind = "update" THEN "record" ELSE "regrant"
    <3>1. pc'[w] = place /\ pc' = [pc EXCEPT ![w] = place] /\ answer' = answer
      BY <2>3, <1>t, PlaceSteps
    <3>2. Constant(w) /\ mem'[w] = mem[w]
      BY <2>3, <1>t, LocalSteps
    <3>3. ~mem[w].slip => 1..mem[w].post \subseteq granted'
      BY <2>1, <2>3, <1>m, <1>d
    <3>4. SchemaOK(w)'
      BY <2>1, <2>2, <3>1, <3>2, <3>3 DEF SchemaOK
    <3>5. mem[w].kind \in {"update", "install"}
      BY <2>1, <1>k
    <3> QED  BY <2>1, <2>2, <2>3, <3>1, <3>2, <3>4, <3>5, Migrates DEF Harmless
  <2>4. CASE /\ mem[w].kind = "update" /\ Goto(w, "rollback") /\ Harmless /\ UNCHANGED <<mem, granted>>
    <3>1. pc'[w] = "rollback" /\ pc' = [pc EXCEPT ![w] = "rollback"] /\ answer' = answer
      BY <2>4, <1>t, PlaceSteps
    <3>2. Constant(w) /\ mem'[w] = mem[w]
      BY <2>4, <1>t, LocalSteps
    <3>3. SchemaOK(w)'
      BY <3>1 DEF SchemaOK
    <3> QED  BY <2>1, <2>2, <2>4, <3>1, <3>2, <3>3, Migrates DEF Harmless
  <2>5. CASE mem[w].kind # "update" /\ Goto(w, "regrant") /\ UNCHANGED <<mem, harmed, granted>>
    <3>1. pc'[w] = "regrant" /\ pc' = [pc EXCEPT ![w] = "regrant"] /\ answer' = answer
      BY <2>5, <1>t, PlaceSteps
    <3>2. Constant(w) /\ mem'[w] = mem[w] /\ mem[w].kind = "install"
      BY <2>1, <2>5, <1>t, <1>k, LocalSteps
    <3>3. SchemaOK(w)'
      BY <2>1, <2>2, <3>1, <3>2 DEF SchemaOK
    <3> QED  BY <2>1, <2>2, <2>5, <3>1, <3>2, <3>3, Migrates
  <2> QED  BY <1>4, <2>3, <2>4, <2>5 DEF Grant
<1>5. ASSUME Regrant(w) PROVE Orderly'
  <2>1. /\ pc[w] = "regrant" /\ live = mem[w].post
        /\ ~mem[w].slip => 1..mem[w].post \subseteq applied \cap tables
        /\ mem[w].kind = "update" /\ ~mem[w].slip => 1..mem[w].post \subseteq granted /\ Loadable
    BY <1>5, <1>t, <1>k DEF Regrant, SchemaOK
  <2>2. UNCHANGED <<live, staging, backup, row, settings, strays, applied, tables>>
    BY <1>5 DEF Regrant, files, rows
  <2>3. /\ granted \subseteq granted' /\ Constant(w) /\ (harmed => harmed')
        /\ ~harmed' => ~harmed /\ mem'[w].slip = mem[w].slip
        /\ ~mem'[w].slip => ~mem[w].slip
    <3>1. CASE granted \subseteq granted' /\ Harmless /\ UNCHANGED mem
      BY <3>1, <1>t, LocalSteps DEF Harmless
    <3>2. CASE granted' = granted /\ Harm /\ Slips(w)
      BY <3>2, <1>t, LocalSteps DEF Harm
    <3> QED  BY <1>5, <3>1, <3>2 DEF Regrant
  <2>4. CASE mem[w].kind = "update"
    <3>1. pc'[w] = "cleanup" /\ pc' = [pc EXCEPT ![w] = "cleanup"] /\ answer' = answer
      BY <1>5, <2>4, <1>t, PlaceSteps DEF Regrant
    <3>2. SchemaOK(w)'
      BY <2>1, <2>2, <2>3, <2>4, <3>1 DEF SchemaOK, Constant, Loadable
    <3> QED  BY <2>1, <2>2, <2>3, <2>4, <3>1, <3>2, Migrates DEF files, rows
  <2>5. CASE mem[w].kind = "install"
    <3>1. pc' = [pc EXCEPT ![w] = "idle"] /\ answer' = [answer EXCEPT ![w] = "installed"]
      BY <1>5, <2>5, <1>t, PlaceSteps DEF Regrant
    <3>2. ASSUME ~harmed'
          PROVE  /\ 1..live \subseteq tables /\ row = live /\ ~mem'[w].slip
                 /\ \A s \in Stamps : staging[s] = None /\ backup[s] = None
      <4>1. ~harmed /\ row = live /\ ~mem[w].slip
        BY <2>1, <2>3, <2>5, <3>2 DEF Orderly, Healthy, HealthOK
      <4>2. mem[w].kind # "update" /\ pc[w] # "idle"
        BY <2>1, <2>5
      <4> QED  BY <2>1, <2>3, <3>2, <4>1, <4>2, NoUpdate
    <3>3. live \in Versions /\ live # None
      BY <2>1, <1>m, MarkersAssumption DEF Versions
    <3>4. Answered(w, "installed")
      BY <2>2, <3>1, <3>2, <3>3 DEF Answered, Loadable
    <3> QED  BY <2>1, <2>3, <3>1, <3>4, Finishes DEF Constant
  <2> QED  BY <2>1, <1>k, <2>4, <2>5
<1> QED  BY <1>1, <1>2, <1>3, <1>4, <1>5

LEMMA InstallSteps ==
  ASSUME Orderly, TypeOK', NEW w \in Workers
  PROVE  /\ CloneStarts(w) => Orderly'
         /\ CloneEnds(w) => Orderly'
         /\ Validate(w) => Orderly'
         /\ Register(w) => Orderly'
<1> USE PlaceNames
<1>t. TypeOK /\ PlaceOK(w) /\ FilesOK(w) /\ mem[w].post \in Versions
  BY LocalsType DEF Orderly, TypeOK
<1>n. None \notin Versions /\ Partial \notin Versions /\ Partial # None
  BY MarkersAssumption DEF Versions
<1>i. ASSUME pc[w] \in InstallPlaces
      PROVE  /\ mem[w].kind = "install" /\ pc[w] # "idle"
             /\ ~harmed => /\ ~mem[w].slip
                           /\ \A s \in Stamps : staging[s] = None /\ backup[s] = None
  BY <1>i, <1>t, NoUpdate DEF PlaceOK, Orderly, Healthy, HealthOK
<1>1. ASSUME CloneStarts(w) PROVE Orderly'
  <2>1. pc[w] = "clone" /\ live \notin Versions
    BY <1>1, <1>t DEF CloneStarts, FilesOK
  <2>2. UNCHANGED <<staging, backup, applied, tables, granted, row, settings, strays, mem, harmed>>
    BY <1>1 DEF CloneStarts, schema, rows, Harmless
  <2>3. CASE live = None /\ live' = Partial /\ Goto(w, "cloning")
    <3>1. pc'[w] = "cloning" /\ pc' = [pc EXCEPT ![w] = "cloning"] /\ answer' = answer
      BY <2>3, <1>t, PlaceSteps
    <3>2. PlaceOK(w)' /\ FilesOK(w)' /\ SchemaOK(w)' /\ RemovalOK(w)'
      BY <1>i, <2>1, <2>2, <2>3, <3>1 DEF PlaceOK, FilesOK, SchemaOK, RemovalOK, Updating, Replacing
    <3>3. ~harmed => row = None /\ (settings => strays)
      BY <2>1, <2>3 DEF Orderly, Healthy, HealthOK
    <3>4. ~harmed => NoneLeft' /\ HealthOK(w)'
      BY <1>i, <2>1, <2>2, <3>1, <3>3 DEF NoneLeft, HealthOK, Updating
    <3> QED  BY <2>1, <2>2, <3>1, <3>2, <3>4, Continues
  <2>4. CASE live # None /\ Return(w, "failed") /\ UNCHANGED live
    <3>1. Answered(w, "failed")
      BY <1>i, <1>t, <2>1, <2>2, <2>4, PlaceSteps DEF Answered
    <3> QED  BY <2>1, <2>2, <2>4, <3>1, <1>t, PlaceSteps, Finishes
  <2> QED  BY <1>1, <2>3, <2>4 DEF CloneStarts
<1>2. ASSUME CloneEnds(w) PROVE Orderly'
  <2>1. pc[w] = "cloning" /\ live = Partial
    BY <1>2, <1>t DEF CloneEnds, FilesOK
  <2>2. UNCHANGED <<staging, backup, applied, tables, granted, row, settings, strays, mem, harmed>>
    BY <1>2 DEF CloneEnds, schema, rows, Harmless
  <2>3. ~harmed => row = None /\ (settings => strays)
    BY <2>1 DEF Orderly, Healthy, HealthOK
  <2>4. CASE live' = mem[w].post /\ Goto(w, "validate")
    <3>1. pc'[w] = "validate" /\ pc' = [pc EXCEPT ![w] = "validate"] /\ answer' = answer
      BY <2>4, <1>t, PlaceSteps
    <3>2. PlaceOK(w)' /\ FilesOK(w)' /\ SchemaOK(w)' /\ RemovalOK(w)'
      BY <1>i, <2>1, <2>2, <2>4, <3>1 DEF PlaceOK, FilesOK, SchemaOK, RemovalOK, Updating, Replacing
    <3>3. ~harmed => NoneLeft' /\ HealthOK(w)'
      BY <1>i, <2>1, <2>2, <2>3, <3>1 DEF NoneLeft, HealthOK, Updating
    <3> QED  BY <2>1, <2>2, <3>1, <3>2, <3>3, Continues
  <2>5. CASE live' = None /\ Return(w, "failed")
    <3>1. Answered(w, "failed")
      BY <1>i, <1>n, <1>t, <2>1, <2>2, <2>3, <2>5, PlaceSteps DEF Answered
    <3> QED  BY <2>1, <2>2, <2>5, <3>1, <1>t, PlaceSteps, Finishes
  <2> QED  BY <1>2, <2>1, <2>4, <2>5 DEF CloneEnds
<1>3. ASSUME Validate(w) PROVE Orderly'
  <2>1. pc[w] = "validate" /\ live = mem[w].post
    BY <1>3, <1>t DEF Validate, FilesOK
  <2>2. UNCHANGED <<staging, backup, applied, tables, granted, row, settings, mem, harmed>>
    BY <1>3 DEF Validate, schema, Harmless
  <2>3. CASE Goto(w, "register") /\ UNCHANGED <<live, strays>>
    <3>1. pc'[w] = "register" /\ pc' = [pc EXCEPT ![w] = "register"] /\ answer' = answer
      BY <2>3, <1>t, PlaceSteps
    <3>2. PlaceOK(w)' /\ FilesOK(w)' /\ SchemaOK(w)' /\ RemovalOK(w)'
      BY <1>i, <2>1, <2>2, <2>3, <3>1 DEF PlaceOK, FilesOK, SchemaOK, RemovalOK, Updating, Replacing
    <3>3. ~harmed => NoneLeft' /\ HealthOK(w)'
      BY <1>i, <2>1, <2>2, <3>1 DEF NoneLeft, HealthOK, Updating
    <3> QED  BY <2>1, <2>2, <3>1, <3>2, <3>3, Continues
  <2>4. CASE live' = None /\ strays' = (strays \/ settings) /\ Return(w, "failed")
    <3>1. ~harmed => row = None
      BY <2>1 DEF Orderly, Healthy, HealthOK
    <3>2. Answered(w, "failed")
      BY <1>i, <1>n, <1>t, <2>1, <2>2, <2>4, <3>1, PlaceSteps DEF Answered
    <3> QED  BY <2>1, <2>2, <2>4, <3>2, <1>t, PlaceSteps, Finishes
  <2> QED  BY <1>3, <2>3, <2>4 DEF Validate
<1>4. ASSUME Register(w) PROVE Orderly'
  <2>1. pc[w] = "register" /\ live = mem[w].post /\ live \in Versions
    BY <1>4, <1>t DEF Register, FilesOK
  <2>2. UNCHANGED <<live, staging, backup, applied, tables, granted, settings, strays>>
    BY <1>4 DEF Register, files, schema
  <2>3. pc'[w] = "list" /\ pc' = [pc EXCEPT ![w] = "list"] /\ answer' = answer
    BY <1>4, <1>t, PlaceSteps DEF Register, Swallow
  <2>4. /\ Constant(w) /\ (harmed => harmed')
        /\ ~harmed' => ~harmed /\ mem'[w].slip = mem[w].slip /\ row' = live
    <3>1. CASE row' = live /\ Harmless /\ UNCHANGED mem
      BY <3>1, <1>t, LocalSteps DEF Harmless
    <3>2. CASE Harm /\ Slips(w)
      BY <3>2, <1>t, LocalSteps DEF Harm
    <3> QED  BY <1>4, <2>1, <3>1, <3>2 DEF Register, Swallow
  <2>5. PlaceOK(w)' /\ FilesOK(w)' /\ SchemaOK(w)' /\ RemovalOK(w)'
    BY <1>i, <2>1, <2>2, <2>3, <2>4 DEF PlaceOK, FilesOK, SchemaOK, RemovalOK, Updating,
      Replacing, Constant
  <2>6. ~harmed' => NoneLeft' /\ HealthOK(w)'
    BY <1>i, <2>1, <2>2, <2>3, <2>4 DEF NoneLeft, HealthOK, Updating, Constant
  <2> QED  BY <2>1, <2>3, <2>4, <2>5, <2>6, Continues DEF Constant
<1> QED  BY <1>1, <1>2, <1>3, <1>4

\* What a step of an uninstall owes that leaves its worker in the uninstall.
LEMMA Removes ==
  ASSUME Orderly, TypeOK', NEW w \in Workers, pc[w] \in UninstallPlaces,
         NEW place \in UninstallPlaces, pc' = [pc EXCEPT ![w] = place], answer' = answer,
         UNCHANGED <<staging, backup>>, live' = None <=> place = "purge",
         Constant(w), harmed => harmed',
         ~harmed' => ~harmed /\ mem'[w].slip = mem[w].slip,
         RemovalOK(w)'
  PROVE  Orderly'
<1> USE PlaceNames
<1>1. mem[w].kind = "uninstall" /\ mem'[w].kind = "uninstall" /\ pc'[w] = place
  BY DEF Orderly, PlaceOK, Constant, TypeOK
<1>2. PlaceOK(w)' /\ FilesOK(w)' /\ SchemaOK(w)'
  BY <1>1 DEF PlaceOK, FilesOK, SchemaOK, Updating, Replacing
<1>3. ASSUME ~harmed' PROVE NoneLeft' /\ HealthOK(w)'
  <2>1. ~mem[w].slip /\ ~harmed
    BY <1>3 DEF Orderly, Healthy, HealthOK
  <2>2. \A s \in Stamps : staging[s] = None /\ backup[s] = None
    BY <1>1, <2>1, NoUpdate
  <2> QED  BY <1>1, <1>3, <2>1, <2>2 DEF NoneLeft, HealthOK, Updating
<1> QED  BY <1>1, <1>2, <1>3, Continues DEF Constant

LEMMA UninstallSteps ==
  ASSUME Orderly, TypeOK', NEW w \in Workers
  PROVE  /\ Revoke(w) => Orderly'
         /\ Down(w) => Orderly'
         /\ Unrecord(w) => Orderly'
         /\ DropTables(w) => Orderly'
         /\ PurgeMigrations(w) => Orderly'
         /\ RemoveDirectory(w) => Orderly'
         /\ PurgeRows(w) => Orderly'
<1> USE PlaceNames
<1>t. TypeOK /\ PlaceOK(w) /\ FilesOK(w) /\ RemovalOK(w) /\ mem[w] \in Locals
  BY DEF Orderly, TypeOK
<1>u. ASSUME pc[w] \in UninstallPlaces
      PROVE  mem[w].kind = "uninstall" /\ (live = None <=> pc[w] = "purge")
  BY <1>u, <1>t DEF PlaceOK, FilesOK
<1>1. ASSUME Revoke(w) PROVE Orderly'
  <2> DEFINE next == IF mem[w].data THEN "down" ELSE "remove"
  <2>1. pc[w] = "revoke" /\ Goto(w, next) /\ UNCHANGED <<live, staging, backup, applied, tables>>
    BY <1>1 DEF Revoke, files
  <2>2. pc'[w] = next /\ pc' = [pc EXCEPT ![w] = next] /\ answer' = answer
    BY <2>1, <1>t, PlaceSteps
  <2>3. CASE /\ granted' = granted \ mem[w].declared /\ Harmless
             /\ mem' = [mem EXCEPT ![w].todo = Declares(live)]
    <3>1. /\ mem'[w] = [mem[w] EXCEPT !.todo = Declares(live)]
          /\ \A v \in Workers \ {w} : mem'[v] = mem[v]
      BY <2>3, <1>t DEF TypeOK
    <3>2. Constant(w) /\ mem'[w].slip = mem[w].slip /\ mem'[w].declared = mem[w].declared
      BY <3>1, <1>t DEF Constant, Locals
    <3>3. RemovalOK(w)'
      BY <2>2, <2>3, <3>2 DEF RemovalOK, Constant
    <3> QED  BY <1>u, <2>1, <2>2, <2>3, <3>2, <3>3, Removes DEF Harmless
  <2>4. CASE /\ Harm
             /\ mem' = [mem EXCEPT ![w].slip = TRUE, ![w].todo = Declares(live)]
    <3>1. /\ mem'[w] = [mem[w] EXCEPT !.slip = TRUE, !.todo = Declares(live)]
          /\ \A v \in Workers \ {w} : mem'[v] = mem[v]
      BY <2>4, <1>t DEF TypeOK
    <3>2. Constant(w) /\ mem'[w].slip
      BY <3>1, <1>t DEF Constant, Locals
    <3>3. RemovalOK(w)'
      BY <2>2, <3>2 DEF RemovalOK, Constant
    <3> QED  BY <1>u, <2>1, <2>2, <2>4, <3>2, <3>3, Removes DEF Harm
  <2> QED  BY <1>1, <2>3, <2>4 DEF Revoke
<1>2. ASSUME Down(w) PROVE Orderly'
  <2>1. pc[w] = "down" /\ UNCHANGED <<live, staging, backup, applied, mem>>
    BY <1>2 DEF Down, files
  <2>2. Constant(w) /\ mem'[w] = mem[w]
    BY <2>1, <1>t, LocalSteps
  <2>3. ASSUME NEW place \in {"drop", "unrecord"}, Goto(w, place), Harmless, granted' \subseteq granted
        PROVE  Orderly'
    <3>1. pc'[w] = place /\ pc' = [pc EXCEPT ![w] = place] /\ answer' = answer
      BY <2>3, <1>t, PlaceSteps
    <3>2. RemovalOK(w)'
      BY <2>1, <2>2, <2>3, <3>1, <1>t DEF RemovalOK
    <3> QED  BY <1>u, <2>1, <2>2, <2>3, <3>1, <3>2, Removes DEF Harmless
  <2>4. ASSUME Return(w, "failed"), Harm PROVE Orderly'
    <3>1. Answered(w, "failed")
      BY <1>u, <1>t, <2>1, <2>2, <2>4, PlaceSteps DEF Answered, Harm
    <3> QED  BY <1>t, <2>1, <2>4, <3>1, PlaceSteps, Finishes DEF Harm
  <2>5. \/ Goto(w, "drop") /\ Harmless /\ granted' = granted
        \/ Goto(w, "unrecord") /\ Harmless /\ granted' \subseteq granted
        \/ Return(w, "failed") /\ Harm
    BY <1>2 DEF Down, Drop
  <2> QED  BY <2>3, <2>4, <2>5
<1>3. ASSUME Unrecord(w) PROVE Orderly'
  <2>1. /\ pc[w] = "unrecord" /\ Goto(w, "down") /\ Harmless
        /\ UNCHANGED <<live, staging, backup, granted, tables>>
    BY <1>3 DEF Unrecord, files
  <2>2. pc'[w] = "down" /\ pc' = [pc EXCEPT ![w] = "down"] /\ answer' = answer
    BY <2>1, <1>t, PlaceSteps
  <2>3. Constant(w) /\ mem'[w].slip = mem[w].slip /\ mem'[w].declared = mem[w].declared
    BY <1>3, <1>t, LocalSteps DEF Unrecord
  <2>4. RemovalOK(w)'
    BY <2>1, <2>2, <2>3, <1>t DEF RemovalOK, Constant
  <2> QED  BY <1>u, <2>1, <2>2, <2>3, <2>4, Removes DEF Harmless
<1>4. ASSUME DropTables(w) PROVE Orderly'
  <2>1. pc[w] = "drop" /\ Goto(w, "purgeMigrations") /\ UNCHANGED <<live, staging, backup, applied>>
    BY <1>4 DEF DropTables, Swallow, files
  <2>2. pc'[w] = "purgeMigrations" /\ pc' = [pc EXCEPT ![w] = "purgeMigrations"] /\ answer' = answer
    BY <2>1, <1>t, PlaceSteps
  <2>3. CASE Drop(mem[w].declared) /\ Harmless /\ UNCHANGED mem
    <3>1. Constant(w) /\ mem'[w] = mem[w]
      BY <2>3, <1>t, LocalSteps
    <3>2. RemovalOK(w)'
      BY <2>1, <2>2, <2>3, <3>1 DEF RemovalOK, Drop
    <3> QED  BY <1>u, <2>1, <2>2, <2>3, <3>1, <3>2, Removes DEF Harmless
  <2>4. CASE Harm /\ Slips(w)
    <3>1. Constant(w) /\ mem'[w].slip
      BY <2>4, <1>t, LocalSteps
    <3>2. RemovalOK(w)'
      BY <2>2, <3>1 DEF RemovalOK
    <3> QED  BY <1>u, <2>1, <2>2, <2>4, <3>1, <3>2, Removes DEF Harm
  <2> QED  BY <1>4, <2>3, <2>4 DEF DropTables, Swallow
<1>5. ASSUME PurgeMigrations(w) PROVE Orderly'
  <2>1. /\ pc[w] = "purgeMigrations" /\ Goto(w, "remove")
        /\ UNCHANGED <<live, staging, backup, granted, tables>>
    BY <1>5 DEF PurgeMigrations, Swallow, files
  <2>2. pc'[w] = "remove" /\ pc' = [pc EXCEPT ![w] = "remove"] /\ answer' = answer
    BY <2>1, <1>t, PlaceSteps
  <2>3. CASE applied' = {} /\ Harmless /\ UNCHANGED mem
    <3>1. Constant(w) /\ mem'[w] = mem[w]
      BY <2>3, <1>t, LocalSteps
    <3>2. RemovalOK(w)'
      BY <2>1, <2>2, <2>3, <3>1, <1>t DEF RemovalOK
    <3> QED  BY <1>u, <2>1, <2>2, <2>3, <3>1, <3>2, Removes DEF Harmless
  <2>4. CASE Harm /\ Slips(w)
    <3>1. Constant(w) /\ mem'[w].slip
      BY <2>4, <1>t, LocalSteps
    <3>2. RemovalOK(w)'
      BY <2>2, <3>1 DEF RemovalOK
    <3> QED  BY <1>u, <2>1, <2>2, <2>4, <3>1, <3>2, Removes DEF Harm
  <2> QED  BY <1>5, <2>3, <2>4 DEF PurgeMigrations, Swallow
<1>6. ASSUME RemoveDirectory(w) PROVE Orderly'
  <2>1. /\ pc[w] = "remove" /\ live # None /\ live' = None /\ Goto(w, "purge") /\ Harmless
        /\ UNCHANGED <<staging, backup, applied, tables, granted, mem>>
    BY <1>6, <1>u DEF RemoveDirectory, schema
  <2>2. pc'[w] = "purge" /\ pc' = [pc EXCEPT ![w] = "purge"] /\ answer' = answer
    BY <2>1, <1>t, PlaceSteps
  <2>3. Constant(w) /\ mem'[w] = mem[w]
    BY <2>1, <1>t, LocalSteps
  <2>4. RemovalOK(w)'
    BY <2>1, <2>2, <2>3, <1>t DEF RemovalOK
  <2> QED  BY <1>u, <2>1, <2>2, <2>3, <2>4, Removes DEF Harmless
<1>7. ASSUME PurgeRows(w) PROVE Orderly'
  <2>1. /\ pc[w] = "purge" /\ live = None /\ mem[w].kind = "uninstall" /\ Return(w, "uninstalled")
        /\ UNCHANGED <<live, staging, backup, applied, tables, granted, strays>>
    BY <1>7, <1>u DEF PurgeRows, files, schema
  <2>2. CASE row' = None /\ settings' = FALSE /\ Harmless /\ UNCHANGED mem
    <3>1. ~mem[w].slip => /\ mem[w].declared \cap granted = {}
                          /\ mem[w].data => mem[w].declared \cap tables = {} /\ applied = {}
      BY <2>1, <1>t DEF RemovalOK
    <3>2. ~harmed => /\ ~mem[w].slip
                     /\ \A s \in Stamps : staging[s] = None /\ backup[s] = None
      BY <2>1, NoUpdate DEF Orderly, Healthy, HealthOK
    <3>3. None \notin Versions
      BY MarkersAssumption DEF Versions
    <3>4. Answered(w, "uninstalled")
      BY <1>t, <2>1, <2>2, <3>1, <3>2, <3>3, PlaceSteps DEF Answered, Harmless
    <3> QED  BY <1>t, <2>1, <2>2, <3>4, PlaceSteps, Finishes DEF Harmless
  <2>3. CASE Harm /\ Slips(w)
    <3>1. Constant(w) /\ mem'[w].slip
      BY <2>3, <1>t, LocalSteps
    <3>2. Answered(w, "uninstalled")
      BY <1>t, <2>1, <2>3, <3>1, PlaceSteps DEF Answered, Harm
    <3> QED  BY <1>t, <2>1, <2>3, <3>1, <3>2, PlaceSteps, Finishes DEF Harm, Constant
  <2> QED  BY <1>7, <2>2, <2>3 DEF PurgeRows
<1> QED  BY <1>1, <1>2, <1>3, <1>4, <1>5, <1>6, <1>7

\* A worker that dies promises nothing.
LEMMA CrashStep ==
  ASSUME Orderly, TypeOK', NEW w \in Workers, Crash(w)
  PROVE  Orderly'
<1>1. pc[w] # "idle" /\ Harm /\ UNCHANGED mem
  BY DEF Crash, Idle
<1>2. pc' = [pc EXCEPT ![w] = "idle"] /\ answer' = [answer EXCEPT ![w] = "none"]
  BY PlaceSteps DEF Crash, Orderly
<1>3. Answered(w, "none")
  BY <1>1, <1>2 DEF Answered, Harm
<1> QED  BY <1>1, <1>2, <1>3, Finishes DEF Harm

\* What goes on around the operations disturbs none of this.
LEMMA Around ==
  ASSUME Orderly, TypeOK',
         \/ SettingsRead \/ Publish \/ Tick \/ UNCHANGED vars
         \/ SettingsWrite
  PROVE  Orderly'
<1>1. /\ UNCHANGED <<live, staging, backup, applied, tables, granted, row, pc, mem, answer, harmed>>
      /\ (settings => strays) /\ live \notin Versions => (settings' => strays')
  <2>1. CASE SettingsWrite
    BY <2>1 DEF SettingsWrite, files, schema, Orderly, TypeOK
  <2>2. CASE SettingsRead \/ Publish \/ Tick \/ UNCHANGED vars
    BY <2>2 DEF SettingsRead, Publish, Tick, vars, files, schema, rows
  <2> QED  BY <2>1, <2>2
<1>2. None \notin Versions /\ Partial \notin Versions
  BY MarkersAssumption DEF Versions
<1>3. Alone' /\ \A w \in Workers : /\ PlaceOK(w)' <=> PlaceOK(w)
                                   /\ FilesOK(w)' <=> FilesOK(w)
                                   /\ SchemaOK(w)' <=> SchemaOK(w)
                                   /\ RemovalOK(w)' <=> RemovalOK(w)
                                   /\ Updating(w)' <=> Updating(w)
                                   /\ StagingOf(w)' = StagingOf(w) /\ BackupOf(w)' = BackupOf(w)
  BY <1>1 DEF Orderly, Alone, Idle, PlaceOK, FilesOK, SchemaOK, RemovalOK, Updating, Replacing,
    StagingOf, BackupOf, Loadable
<1>4. Healthy'
  <2> SUFFICES ASSUME ~harmed PROVE NoneLeft' /\ \A w \in Workers : HealthOK(w)'
    BY <1>1 DEF Healthy
  <2>1. NoneLeft'
    BY <1>1, <1>3 DEF Orderly, Healthy, NoneLeft
  <2>2. ASSUME NEW w \in Workers PROVE HealthOK(w)'
    <3>1. HealthOK(w) /\ (pc[w] = "cloning" => live = Partial)
      BY DEF Orderly, Healthy, FilesOK
    <3> QED  BY <1>1, <1>2, <1>3, <3>1 DEF HealthOK
  <2> QED  BY <2>1, <2>2
<1>5. Promises'
  BY <1>1, <1>2 DEF Orderly, Promises, UpdateKeepsItsWord, UpdatedIsWhole, FailedUpdateRestores,
    UninstalledIsGone, SettledHasTables, NothingLeftBehind, Quiet, Idle, Loadable
<1> QED  BY <1>3, <1>4, <1>5 DEF Orderly

LEMMA OrderlyStep == MaxAtOnce = 1 /\ Orderly /\ [Next]_vars => Orderly'
<1> SUFFICES ASSUME MaxAtOnce = 1, Orderly, [Next]_vars PROVE Orderly'
  OBVIOUS
<1>1. TypeOK'
  BY TypeStep DEF Orderly
<1>2. ASSUME NEW w \in Workers, Update(w) PROVE Orderly'
  BY <1>1, <1>2, BeginSteps, StageStep, SwapSteps, RollbackSteps DEF Update
<1>3. ASSUME NEW w \in Workers, Migrate(w) PROVE Orderly'
  BY <1>1, <1>3, MigrationSteps DEF Migrate
<1>4. ASSUME NEW w \in Workers, Install(w) PROVE Orderly'
  BY <1>1, <1>4, BeginSteps, InstallSteps DEF Install
<1>5. ASSUME NEW w \in Workers, Uninstall(w) PROVE Orderly'
  BY <1>1, <1>5, BeginSteps, UninstallSteps DEF Uninstall
<1> QED  BY <1>1, <1>2, <1>3, <1>4, <1>5, CrashStep, Around DEF Next

\* What every operation finds and leaves, for operations one at a time.
THEOREM OneAtATime == ASSUME MaxAtOnce = 1 PROVE Spec => []Orderly
BY OrderlyInit, OrderlyStep, PTL DEF Spec

\* An update that answers 200 has put the version it staged in place, whole; one
\* that answers an error has left the version it found: at whichever step it ends.
THEOREM UpdatesKeepTheirWord == ASSUME MaxAtOnce = 1 PROVE Spec => []UpdateKeepsItsWord
<1>1. Orderly => UpdateKeepsItsWord
  BY DEF Orderly, Promises
<1> QED  BY <1>1, OneAtATime, PTL

\* An uninstall that answers 200 has removed the directory, the rows, the grants
\* and, with remove_data, the tables and the records of the migrations.
THEOREM UninstallsRemove == ASSUME MaxAtOnce = 1 PROVE Spec => []UninstalledIsGone
<1>1. Orderly => UninstalledIsGone
  BY DEF Orderly, Promises
<1> QED  BY <1>1, OneAtATime, PTL

\* Through rollbacks of updates that had migrated, the live version has its tables
\* and the loader takes it.
THEOREM SettledPluginsWork == ASSUME MaxAtOnce = 1 PROVE Spec => []SettledHasTables
<1>1. Orderly => SettledHasTables
  BY DEF Orderly, Promises
<1> QED  BY <1>1, OneAtATime, PTL

\* Without a failure that no handler undoes, no rows outlive a plugin and no staged
\* or backup directory an update.
THEOREM OperationsCleanUp == ASSUME MaxAtOnce = 1 PROVE Spec => []NothingLeftBehind
<1>1. Orderly => NothingLeftBehind
  BY DEF Orderly, Promises
<1> QED  BY <1>1, OneAtATime, PTL
-----------------------------------------------------------------------------
(* PluginPresence.                                                          *)

\* The version and the one remembered, as the only worker at work sees them.
VersionOf(w) == IF Between(w) THEN mem[w].pre ELSE IF live \in Versions THEN live ELSE None
OldOf(w) == IF Replacing(w) THEN mem[w].pre ELSE None

LEMMA View ==
  ASSUME Orderly, NEW w \in Workers, \A v \in Workers \ {w} : pc[v] = "idle"
  PROVE  PresentVersion = VersionOf(w) /\ PreviousVersion = OldOf(w)
<1>1. \A v \in Workers \ {w} : ~Between(v) /\ ~Replacing(v)
  BY DEF Between, Replacing
<1> QED  BY <1>1 DEF PresentVersion, PreviousVersion, VersionOf, OldOf

LEMMA ViewAfter ==
  ASSUME Orderly', NEW w \in Workers, \A v \in Workers \ {w} : pc'[v] = "idle"
  PROVE  PresentVersion' = VersionOf(w)' /\ PreviousVersion' = OldOf(w)'
<1>1. \A v \in Workers \ {w} : ~Between(v)' /\ ~Replacing(v)'
  BY DEF Between, Replacing
<1> QED  BY <1>1 DEF PresentVersion, PreviousVersion, VersionOf, OldOf

\* What a step is to PluginPresence.
Presents(w) ==
  LET new == VersionOf(w)'
      old == OldOf(w)'
  IN \/ new = VersionOf(w) /\ old = OldOf(w)
     \/ VersionOf(w) = None /\ OldOf(w) = None /\ new \in Versions /\ old = None
     \/ VersionOf(w) # None /\ OldOf(w) = None /\ new \in Versions /\ old = VersionOf(w)
     \/ OldOf(w) # None /\ new \in {VersionOf(w), OldOf(w)} /\ old = None
     \/ new = None /\ old = None

LEMMA Presented ==
  ASSUME Orderly, Orderly', NEW w \in Workers, Presents(w),
         \A v \in Workers \ {w} : pc[v] = "idle" /\ pc'[v] = "idle"
  PROVE  [Presence!Next]_Presence!vars
<1>1. /\ PresentVersion = VersionOf(w) /\ PreviousVersion = OldOf(w)
      /\ PresentVersion' = VersionOf(w)' /\ PreviousVersion' = OldOf(w)'
  BY View, ViewAfter
<1> QED
  BY <1>1 DEF Presents, Presence!Next, Presence!vars, Presence!Install, Presence!Replace,
    Presence!Commit, Presence!Revert, Presence!Vanish

\* A step that leaves the directory alone, and its worker in the same phase.
LEMMA SamePhase ==
  ASSUME NEW w \in Workers, live' = live, Constant(w),
         Between(w)' <=> Between(w), Replacing(w)' <=> Replacing(w)
  PROVE  Presents(w)
BY DEF Presents, VersionOf, OldOf, Constant

LEMMA PresenceInit == Init => Presence!Init
<1> SUFFICES ASSUME Init PROVE Presence!Init
  OBVIOUS
<1>1. \A w \in Workers : ~Between(w) /\ ~Replacing(w)
  BY DEF Init, Between, Replacing
<1>2. live = None /\ None \notin Versions
  BY MarkersAssumption DEF Init, Versions
<1> QED  BY <1>1, <1>2 DEF Presence!Init, PresentVersion, PreviousVersion

LEMMA BeginPresents ==
  ASSUME Orderly, NEW w \in Workers, NEW kind, NEW place, NEW m,
         place \in {"stage", "clone", "revoke"}, Begin(w, kind, place, m)
  PROVE  Presents(w)
<1>1. pc[w] = "idle" /\ pc'[w] = place /\ live' = live
  BY DEF Begin, Idle, Orderly, TypeOK, files
<1>2. ~Between(w) /\ ~Between(w)' /\ ~Replacing(w) /\ ~Replacing(w)'
  BY <1>1 DEF Between, Replacing
<1> QED  BY <1>1, <1>2 DEF Presents, VersionOf, OldOf

LEMMA UpdatePresents ==
  ASSUME Orderly, NEW w \in Workers,
         \/ Stage(w) \/ MoveAside(w) \/ Promote(w) \/ Unswap(w) \/ Rollback(w)
         \/ Restore(w) \/ Record(w) \/ Cleanup(w)
  PROVE  Presents(w)
<1> USE PlaceNames
<1>t. TypeOK /\ PlaceOK(w) /\ FilesOK(w) /\ mem[w] \in Locals /\ mem[w].post \in Versions
  BY LocalsType DEF Orderly, TypeOK
<1>n. None \notin Versions
  BY MarkersAssumption DEF Versions
<1>u. ASSUME pc[w] \in UpdatePlaces PROVE mem[w].kind = "update" /\ mem[w].pre \in Versions
  BY <1>t, <1>u DEF PlaceOK, FilesOK, Updating
<1>1. CASE Stage(w)
  <2>1. pc[w] = "stage" /\ live' = live /\ pc'[w] \in {"aside", "idle"}
    BY <1>1, <1>t DEF Stage, Goto, Return, TypeOK
  <2> QED  BY <2>1 DEF Presents, VersionOf, OldOf, Between, Replacing
<1>2. CASE MoveAside(w)
  <2>1. pc[w] = "aside" /\ live = mem[w].pre /\ mem' = mem
    BY <1>2, <1>t DEF MoveAside, FilesOK
  <2>2. \/ live' = None /\ pc'[w] = "promote"
        \/ live' = live /\ pc'[w] = "idle"
    BY <1>2, <1>t DEF MoveAside, Goto, Return, TypeOK
  <2> QED  BY <1>u, <2>1, <2>2 DEF Presents, VersionOf, OldOf, Between, Replacing
<1>3. CASE Promote(w)
  <2>1. pc[w] = "promote" /\ live = None /\ mem' = mem /\ StagingOf(w) = mem[w].post
    BY <1>3, <1>t DEF Promote, FilesOK
  <2>2. \/ live' = mem[w].post /\ pc'[w] = "list"
        \/ live' = live /\ pc'[w] = "unswap"
    BY <1>3, <1>t, <2>1 DEF Promote, Goto, TypeOK
  <2> QED  BY <1>t, <1>n, <1>u, <2>1, <2>2 DEF Presents, VersionOf, OldOf, Between, Replacing
<1>4. CASE Unswap(w)
  <2>1. pc[w] = "unswap" /\ live = None /\ BackupOf(w) = mem[w].pre
    BY <1>4, <1>t DEF Unswap, FilesOK
  <2>2. live' = mem[w].pre /\ pc'[w] = "idle"
    BY <1>4, <1>t, <1>n, <1>u, <2>1 DEF Unswap, Return, TypeOK
  <2> QED  BY <1>u, <2>1, <2>2 DEF Presents, VersionOf, OldOf, Between, Replacing
<1>5. CASE Rollback(w)
  <2>1. pc[w] = "rollback" /\ live' = None /\ mem' = mem /\ pc'[w] = "restore"
    BY <1>5, <1>t DEF Rollback, Goto, TypeOK
  <2> QED  BY <1>n, <1>u, <2>1 DEF Presents, VersionOf, OldOf, Between, Replacing
<1>6. CASE Restore(w)
  <2>1. pc[w] = "restore" /\ live = None /\ BackupOf(w) = mem[w].pre
    BY <1>6, <1>t DEF Restore, FilesOK
  <2>2. live' \in {mem[w].pre, None} /\ pc'[w] = "idle"
    BY <1>6, <1>t, <2>1 DEF Restore, Return, TypeOK
  <2> QED  BY <1>u, <2>1, <2>2 DEF Presents, VersionOf, OldOf, Between, Replacing
<1>7. CASE Record(w)
  <2>1. pc[w] = "record" /\ live' = live /\ pc'[w] = "regrant" /\ Constant(w)
    BY <1>7, <1>t, LocalSteps, PlaceSteps DEF Record, Swallow, files
  <2> QED  BY <2>1, SamePhase DEF Between, Replacing, Constant
<1>8. CASE Cleanup(w)
  <2>1. pc[w] = "cleanup" /\ live' = live /\ pc'[w] = "idle"
    BY <1>8, <1>t DEF Cleanup, Return, TypeOK
  <2> QED  BY <1>n, <1>u, <2>1 DEF Presents, VersionOf, OldOf, Between, Replacing
<1> QED  BY <1>1, <1>2, <1>3, <1>4, <1>5, <1>6, <1>7, <1>8

LEMMA MigratePresents ==
  ASSUME Orderly, NEW w \in Workers, Migrate(w)
  PROVE  Presents(w)
<1> USE PlaceNames
<1>t. TypeOK /\ PlaceOK(w)
  BY DEF Orderly
<1>1. live' = live /\ pc[w] \in MigrationPlaces
  BY DEF Migrate, ListMigrations, CheckMigration, RunMigration, Grant, Regrant, files
<1>2. mem'[w].kind = mem[w].kind /\ mem'[w].pre = mem[w].pre
  <2>1. CASE ListMigrations(w)
    <3>1. mem'[w] = [mem[w] EXCEPT !.todo = Declares(live), !.declared = Declares(live)]
      BY <2>1, <1>t DEF ListMigrations, TypeOK
    <3> QED  BY <3>1, <1>t DEF TypeOK, Locals
  <2>2. CASE CheckMigration(w)
    BY <2>2, <1>t, LocalSteps DEF CheckMigration, Constant
  <2>3. CASE RunMigration(w)
    BY <2>3, <1>t, LocalSteps DEF RunMigration, Raise, Constant
  <2>4. CASE Grant(w)
    BY <2>4 DEF Grant
  <2>5. CASE Regrant(w)
    BY <2>5, <1>t, LocalSteps DEF Regrant, Constant
  <2> QED  BY <2>1, <2>2, <2>3, <2>4, <2>5 DEF Migrate
<1>3. \/ mem[w].kind = "update" /\ pc'[w] \in {"check", "run", "grant", "record", "rollback", "cleanup"}
      \/ mem[w].kind = "install" /\ pc'[w] \in {"check", "run", "grant", "regrant", "idle"}
  BY <1>1, <1>t DEF PlaceOK, TypeOK, Migrate, ListMigrations, CheckMigration, RunMigration, Raise,
    Grant, Regrant, Goto, Return
<1> QED  BY <1>1, <1>2, <1>3 DEF Presents, VersionOf, OldOf, Between, Replacing

LEMMA InstallPresents ==
  ASSUME Orderly, NEW w \in Workers,
         CloneStarts(w) \/ CloneEnds(w) \/ Validate(w) \/ Register(w)
  PROVE  Presents(w)
<1> USE PlaceNames
<1>t. TypeOK /\ PlaceOK(w) /\ FilesOK(w) /\ mem[w] \in Locals /\ mem[w].post \in Versions
  BY LocalsType DEF Orderly, TypeOK
<1>n. None \notin Versions /\ Partial \notin Versions
  BY MarkersAssumption DEF Versions
<1>1. pc[w] \in InstallPlaces /\ mem[w].kind = "install" /\ mem'[w].kind = "install"
      /\ pc'[w] \in {"cloning", "validate", "register", "list", "idle"}
  <2>1. UNCHANGED mem \/ Slips(w)
    BY DEF CloneStarts, CloneEnds, Validate, Register, Swallow
  <2>2. mem[w].kind = "install" /\ pc[w] \in InstallPlaces
    BY <1>t DEF CloneStarts, CloneEnds, Validate, Register, PlaceOK
  <2>3. pc'[w] \in {"cloning", "validate", "register", "list", "idle"}
    BY <1>t, PlaceSteps DEF CloneStarts, CloneEnds, Validate, Register, Swallow, Return, TypeOK
  <2> QED  BY <2>1, <2>2, <2>3, <1>t, LocalSteps DEF Constant
<1>2. \/ live' = live \/ live' = None
      \/ live \notin Versions /\ live' \in Versions \cup {Partial}
  BY <1>t, <1>n DEF CloneStarts, CloneEnds, Validate, Register, files
<1> QED  BY <1>1, <1>2, <1>n DEF Presents, VersionOf, OldOf, Between, Replacing

LEMMA UninstallPresents ==
  ASSUME Orderly, NEW w \in Workers,
         \/ Revoke(w) \/ Down(w) \/ Unrecord(w) \/ DropTables(w) \/ PurgeMigrations(w)
         \/ RemoveDirectory(w) \/ PurgeRows(w)
  PROVE  Presents(w)
<1>t. TypeOK /\ PlaceOK(w)
  BY DEF Orderly
<1>1. live' \in {live, None}
  BY DEF Revoke, Down, Unrecord, DropTables, PurgeMigrations, RemoveDirectory, PurgeRows, files
<1>2. pc[w] \in UninstallPlaces /\ pc'[w] \in UninstallPlaces \cup {"idle"}
  BY <1>t, PlaceNames, PlaceSteps DEF Revoke, Down, Unrecord, DropTables, PurgeMigrations,
    RemoveDirectory, PurgeRows, Swallow, Return, TypeOK
<1>3. ~Between(w) /\ ~Replacing(w) /\ ~Between(w)' /\ ~Replacing(w)'
  BY <1>2, PlaceNames DEF Between, Replacing
<1> QED  BY <1>1, <1>3 DEF Presents, VersionOf, OldOf

LEMMA CrashPresents ==
  ASSUME Orderly, NEW w \in Workers, Crash(w)
  PROVE  Presents(w)
<1> USE PlaceNames
<1>t. TypeOK /\ PlaceOK(w) /\ FilesOK(w) /\ mem[w].post \in Versions
  BY LocalsType DEF Orderly, TypeOK
<1>n. None \notin Versions /\ Partial \notin Versions
  BY MarkersAssumption DEF Versions
<1>1. pc[w] # "idle" /\ pc'[w] = "idle" /\ mem' = mem
  BY <1>t DEF Crash, Idle, Return, TypeOK
<1>2. ~Between(w)' /\ ~Replacing(w)'
  BY <1>1 DEF Between, Replacing
<1>3. CASE live' = live
  <2>1. Between(w) => live = None
    BY <1>t DEF Between, FilesOK
  <2>2. Replacing(w) => mem[w].pre \in Versions /\ ~Between(w)
    BY <1>t DEF Replacing, Between, FilesOK, Updating
  <2> QED  BY <1>2, <1>3, <1>n, <2>1, <2>2 DEF Presents, VersionOf, OldOf
<1>4. CASE pc[w] = "cloning" /\ live = Partial /\ live' = mem[w].post
  BY <1>2, <1>4, <1>n, <1>t DEF Presents, VersionOf, OldOf, Between, Replacing
<1> QED  BY <1>3, <1>4 DEF Crash

LEMMA PresenceStep ==
  ASSUME MaxAtOnce = 1, Orderly, Orderly', [Next]_vars
  PROVE  [Presence!Next]_Presence!vars
<1>1. ASSUME NEW w \in Workers, Presents(w),
             \/ pc[w] # "idle"
             \/ \E kind, place, m : Begin(w, kind, place, m),
             \A v \in Workers \ {w} : pc'[v] = pc[v]
      PROVE  [Presence!Next]_Presence!vars
  <2>1. \A v \in Workers \ {w} : pc[v] = "idle"
    BY <1>1, OthersIdle, BeginsAlone DEF Begin
  <2> QED  BY <1>1, <2>1, Presented
<1>t. TypeOK
  BY DEF Orderly
<1>2. ASSUME NEW w \in Workers, Update(w) \/ Migrate(w) \/ Install(w) \/ Uninstall(w) \/ Crash(w)
      PROVE  [Presence!Next]_Presence!vars
  <2>1. CASE UpdateBegins(w) \/ InstallBegins(w)
             \/ \E removeData \in BOOLEAN : UninstallBegins(w, removeData)
    <3>1. PICK kind, place, m : Begin(w, kind, place, m) /\ place \in {"stage", "clone", "revoke"}
      BY <2>1 DEF UpdateBegins, InstallBegins, UninstallBegins
    <3>2. \A v \in Workers \ {w} : pc'[v] = pc[v]
      BY <3>1, <1>t DEF Begin, TypeOK
    <3> QED  BY <3>1, <3>2, <1>1, BeginPresents
  <2>2. CASE \/ Stage(w) \/ MoveAside(w) \/ Promote(w) \/ Unswap(w) \/ Rollback(w)
             \/ Restore(w) \/ Record(w) \/ Cleanup(w)
    <3>1. pc[w] # "idle" /\ \A v \in Workers \ {w} : pc'[v] = pc[v]
      BY <2>2, <1>t DEF Stage, MoveAside, Promote, Unswap, Rollback, Restore, Record, Cleanup,
        Swallow, Goto, Return, TypeOK
    <3> QED  BY <2>2, <3>1, <1>1, UpdatePresents
  <2>3. CASE Migrate(w)
    <3>1. pc[w] # "idle" /\ \A v \in Workers \ {w} : pc'[v] = pc[v]
      BY <2>3, <1>t DEF Migrate, ListMigrations, CheckMigration, RunMigration, Raise, Grant,
        Regrant, Goto, Return, TypeOK
    <3> QED  BY <2>3, <3>1, <1>1, MigratePresents
  <2>4. CASE CloneStarts(w) \/ CloneEnds(w) \/ Validate(w) \/ Register(w)
    <3>1. pc[w] # "idle" /\ \A v \in Workers \ {w} : pc'[v] = pc[v]
      BY <2>4, <1>t DEF CloneStarts, CloneEnds, Validate, Register, Swallow, Goto, Return, TypeOK
    <3> QED  BY <2>4, <3>1, <1>1, InstallPresents
  <2>5. CASE \/ Revoke(w) \/ Down(w) \/ Unrecord(w) \/ DropTables(w) \/ PurgeMigrations(w)
             \/ RemoveDirectory(w) \/ PurgeRows(w)
    <3>1. pc[w] # "idle" /\ \A v \in Workers \ {w} : pc'[v] = pc[v]
      BY <2>5, <1>t DEF Revoke, Down, Unrecord, DropTables, PurgeMigrations, RemoveDirectory,
        PurgeRows, Swallow, Goto, Return, TypeOK
    <3> QED  BY <2>5, <3>1, <1>1, UninstallPresents
  <2>6. CASE Crash(w)
    <3>1. pc[w] # "idle" /\ \A v \in Workers \ {w} : pc'[v] = pc[v]
      BY <2>6, <1>t DEF Crash, Idle, Return, TypeOK
    <3> QED  BY <2>6, <3>1, <1>1, CrashPresents
  <2> QED  BY <1>2, <2>1, <2>2, <2>3, <2>4, <2>5, <2>6 DEF Update, Install, Uninstall
<1>3. CASE SettingsRead \/ SettingsWrite \/ Publish \/ Tick \/ UNCHANGED vars
  <2>1. UNCHANGED <<live, pc, mem>>
    BY <1>3 DEF SettingsRead, SettingsWrite, Publish, Tick, vars, files
  <2>2. PresentVersion' = PresentVersion /\ PreviousVersion' = PreviousVersion
    BY <2>1 DEF PresentVersion, PreviousVersion, Between, Replacing
  <2> QED  BY <2>2 DEF Presence!vars
<1> QED  BY <1>2, <1>3 DEF Next

\* Installing, updating and uninstalling implement PluginPresence: the version changes
\* only as it says, and a plugin goes back to no version but the one remembered.
THEOREM PresenceImplemented == ASSUME MaxAtOnce = 1 PROVE Spec => ImplementsPresence
<1>1. Orderly /\ Orderly' /\ [Next]_vars => [Presence!Next]_Presence!vars
  BY PresenceStep
<1> QED  BY <1>1, OneAtATime, PresenceInit, PTL DEF Spec, ImplementsPresence, Presence!Spec
-----------------------------------------------------------------------------
(* A copy of the plugin through any number of installs and updates at once. *)

Gap == {"promote", "unswap", "restore"}

\* The updates that have moved a directory aside and not yet back or away.
Holds(w) == /\ mem[w].kind = "update"
            /\ pc[w] \in Gap \cup {"list", "check", "run", "grant", "record", "regrant",
                                   "rollback", "cleanup"}

\* Each has a backup, of its own.
Apart == /\ \A w \in Workers : Holds(w) => BackupOf(w) # None
         /\ \A v, w \in Workers : Holds(v) /\ Holds(w) /\ v # w => mem[v].stamp # mem[w].stamp

\* A backup that nobody will touch again.
Kept == \E s \in Stamps : /\ backup[s] \in Versions
                          /\ \A w \in Workers : Holds(w) => mem[w].stamp # s

\* Those who hold a version back while nothing of theirs is live; those who have put
\* theirs in the place of none; those who may yet remove what they have installed.
Vouches(w) == Holds(w) /\ pc[w] \in Gap /\ BackupOf(w) \in Versions
Owes(w) == Holds(w) /\ pc[w] \notin Gap /\ BackupOf(w) \notin Versions
Checks(w) == pc[w] = "validate"
Vouching == {w \in Workers : Vouches(w)}
Owing == {w \in Workers : Owes(w)}
Checking == {w \in Workers : Checks(w)}
Missing == IF live \in Versions THEN 0 ELSE 1

\* Versions held back make up for the version that is not live, and for those that a
\* rollback would remove without having one to put back.
Covered ==
  Kept \/ Missing + Cardinality(Owing) + Cardinality(Checking) =< Cardinality(Vouching) + 1
OwnedCovered == owned => Kept \/ Missing + Cardinality(Owing) =< Cardinality(Vouching)

\* The strengthening of SwapKeepsACopy.
CopyKept == /\ TypeOK /\ Apart /\ Covered /\ OwnedCovered
            /\ \A w \in Workers : PlaceOK(w) /\ mem[w].kind # "uninstall"

LEMMA CopyKeptInit == Init => CopyKept
<1> SUFFICES ASSUME Init PROVE CopyKept
  OBVIOUS
<1>1. TypeOK
  BY TypeInit
<1>2. \A w \in Workers : pc[w] = "idle" /\ mem[w].kind = "install"
  BY DEF Init, NoLocals
<1>3. \A w \in Workers : ~Holds(w) /\ ~Vouches(w) /\ ~Owes(w) /\ ~Checks(w) /\ PlaceOK(w)
  BY <1>2, PlaceNames DEF Holds, Vouches, Owes, Checks, PlaceOK
<1>4. Vouching = {} /\ Owing = {} /\ Checking = {} /\ Missing = 1 /\ ~owned
  BY <1>3, MarkersAssumption DEF Vouching, Owing, Checking, Missing, Init, Versions
<1>5. Cardinality({}) = 0
  BY FS_EmptySet
<1> QED  BY <1>1, <1>2, <1>3, <1>4, <1>5 DEF CopyKept, Apart, Covered, OwnedCovered

\* A step of one worker, and what it may do to the backups.
Handles(w) ==
  /\ \A v \in Workers \ {w} : pc'[v] = pc[v] /\ mem'[v] = mem[v]
  /\ \A t \in Stamps : backup'[t] # backup[t] => t = mem[w].stamp /\ (Holds(w) \/ Holds(w)')
  /\ Holds(w)' => mem'[w].stamp = mem[w].stamp /\ BackupOf(w)' # None
  /\ Holds(w)' /\ ~Holds(w) => BackupOf(w) = None

LEMMA OthersApart ==
  ASSUME TypeOK, TypeOK', Apart, NEW w \in Workers, Handles(w)
  PROVE  /\ Apart'
         /\ Kept => Kept'
         /\ \A v \in Workers \ {w} : /\ Vouches(v)' <=> Vouches(v)
                                     /\ Owes(v)' <=> Owes(v)
                                     /\ Checks(v)' <=> Checks(v)
<1>1. \A v \in Workers : mem[v].stamp \in Stamps /\ mem'[v].stamp \in Stamps
  BY LocalsType DEF TypeOK
<1>2. \A v \in Workers \ {w} : /\ Holds(v)' <=> Holds(v)
                               /\ pc'[v] = pc[v] /\ mem'[v] = mem[v]
  BY DEF Handles, Holds
<1>3. ASSUME NEW v \in Workers \ {w}, Holds(v)
      PROVE  /\ BackupOf(v)' = BackupOf(v)
             /\ Holds(w)' => mem'[w].stamp # mem[v].stamp
  BY <1>1, <1>2, <1>3 DEF Handles, Apart, BackupOf
<1>4. Apart'
  <2>1. \A v \in Workers : Holds(v)' => BackupOf(v)' # None
    BY <1>2, <1>3 DEF Apart, Handles
  <2>2. \A u, v \in Workers : Holds(u)' /\ Holds(v)' /\ u # v => mem'[u].stamp # mem'[v].stamp
    <3>1. ASSUME NEW u \in Workers \ {w}, NEW v \in Workers \ {w}, Holds(u)', Holds(v)', u # v
          PROVE  mem'[u].stamp # mem'[v].stamp
      BY <1>2, <3>1 DEF Apart
    <3>2. ASSUME NEW v \in Workers \ {w}, Holds(w)', Holds(v)' PROVE mem'[w].stamp # mem'[v].stamp
      BY <1>2, <1>3, <3>2
    <3> QED  BY <3>1, <3>2
  <2> QED  BY <2>1, <2>2 DEF Apart
<1>5. ASSUME Kept PROVE Kept'
  <2>1. PICK s \in Stamps : backup[s] \in Versions /\ \A v \in Workers : Holds(v) => mem[v].stamp # s
    BY <1>5 DEF Kept
  <2>2. None \notin Versions
    BY MarkersAssumption DEF Versions
  <2>3. Holds(w)' => mem'[w].stamp # s
    BY <2>1, <2>2 DEF Handles, BackupOf
  <2>4. backup'[s] = backup[s]
    BY <2>1, <2>3 DEF Handles
  <2> QED  BY <1>2, <2>1, <2>3, <2>4 DEF Kept
<1> QED  BY <1>2, <1>3, <1>4, <1>5 DEF Vouches, Owes, Checks

One(P) == IF P THEN 1 ELSE 0

LEMMA CountWithout ==
  ASSUME NEW S, IsFiniteSet(S), NEW x
  PROVE  /\ Cardinality(S \ {x}) \in Nat
         /\ Cardinality(S) = Cardinality(S \ {x}) + One(x \in S)
<1>1. Cardinality(S) \in Nat /\ Cardinality(S \ {x}) \in Nat /\ IsFiniteSet(S \ {x})
  BY FS_CardinalityType, FS_RemoveElement
<1>2. Cardinality(S \ {x}) = IF x \in S THEN Cardinality(S) - 1 ELSE Cardinality(S)
  BY FS_RemoveElement
<1> QED  BY <1>1, <1>2 DEF One

\* What a step does to the balance.
Settles(w) ==
  \/ Kept'
  \/ /\ Missing' + One(Owes(w))' + One(Checks(w))' + One(Vouches(w))
          =< Missing + One(Owes(w)) + One(Checks(w)) + One(Vouches(w))'
     /\ owned' => \/ /\ owned
                     /\ Missing' + One(Owes(w))' + One(Vouches(w))
                          =< Missing + One(Owes(w)) + One(Vouches(w))'
                  \/ /\ Missing = 1 /\ Missing' = 0
                     /\ ~Owes(w) /\ ~Owes(w)' /\ ~Vouches(w) /\ ~Vouches(w)'

LEMMA BalanceKept ==
  ASSUME TypeOK, TypeOK', Apart, Covered, OwnedCovered,
         NEW w \in Workers, Handles(w), Settles(w)
  PROVE  Apart' /\ Covered' /\ OwnedCovered'
<1>1. /\ Apart' /\ (Kept => Kept')
      /\ \A v \in Workers \ {w} : /\ Vouches(v)' <=> Vouches(v)
                                  /\ Owes(v)' <=> Owes(v)
                                  /\ Checks(v)' <=> Checks(v)
  BY OthersApart
<1>2. /\ Vouching' \ {w} = Vouching \ {w}
      /\ Owing' \ {w} = Owing \ {w}
      /\ Checking' \ {w} = Checking \ {w}
  BY <1>1 DEF Vouching, Owing, Checking
<1>3. /\ IsFiniteSet(Vouching) /\ IsFiniteSet(Owing) /\ IsFiniteSet(Checking)
      /\ IsFiniteSet(Vouching') /\ IsFiniteSet(Owing') /\ IsFiniteSet(Checking')
  BY BoundsAssumption, FS_Subset DEF Vouching, Owing, Checking
<1>4. PICK g \in Nat : /\ Cardinality(Vouching) = g + One(Vouches(w))
                       /\ Cardinality(Vouching') = g + One(Vouches(w))'
  <2>1. (w \in Vouching <=> Vouches(w)) /\ (w \in Vouching' <=> Vouches(w)')
    BY DEF Vouching
  <2>2. /\ Cardinality(Vouching \ {w}) \in Nat
        /\ Cardinality(Vouching) = Cardinality(Vouching \ {w}) + One(w \in Vouching)
    BY <1>3, CountWithout
  <2>3. Cardinality(Vouching') = Cardinality(Vouching \ {w}) + One(w \in Vouching')
    BY <1>2, <1>3, CountWithout
  <2> QED  BY <2>1, <2>2, <2>3 DEF One
<1>5. PICK p \in Nat : /\ Cardinality(Owing) = p + One(Owes(w))
                       /\ Cardinality(Owing') = p + One(Owes(w))'
  <2>1. (w \in Owing <=> Owes(w)) /\ (w \in Owing' <=> Owes(w)')
    BY DEF Owing
  <2>2. /\ Cardinality(Owing \ {w}) \in Nat
        /\ Cardinality(Owing) = Cardinality(Owing \ {w}) + One(w \in Owing)
    BY <1>3, CountWithout
  <2>3. Cardinality(Owing') = Cardinality(Owing \ {w}) + One(w \in Owing')
    BY <1>2, <1>3, CountWithout
  <2> QED  BY <2>1, <2>2, <2>3 DEF One
<1>6. PICK c \in Nat : /\ Cardinality(Checking) = c + One(Checks(w))
                       /\ Cardinality(Checking') = c + One(Checks(w))'
  <2>1. (w \in Checking <=> Checks(w)) /\ (w \in Checking' <=> Checks(w)')
    BY DEF Checking
  <2>2. /\ Cardinality(Checking \ {w}) \in Nat
        /\ Cardinality(Checking) = Cardinality(Checking \ {w}) + One(w \in Checking)
    BY <1>3, CountWithout
  <2>3. Cardinality(Checking') = Cardinality(Checking \ {w}) + One(w \in Checking')
    BY <1>2, <1>3, CountWithout
  <2> QED  BY <2>1, <2>2, <2>3 DEF One
<1>7. CASE Kept'
  BY <1>1, <1>7 DEF Covered, OwnedCovered
<1>8. CASE ~Kept'
  <2>1. Missing + Cardinality(Owing) + Cardinality(Checking) =< Cardinality(Vouching) + 1
    BY <1>1, <1>8 DEF Covered
  <2>2. owned => Missing + Cardinality(Owing) =< Cardinality(Vouching)
    BY <1>1, <1>8 DEF OwnedCovered
  <2>3. Covered'
    BY <1>4, <1>5, <1>6, <1>8, <2>1 DEF Covered, Settles, Missing, One
  <2>4. OwnedCovered'
    BY <1>4, <1>5, <1>6, <1>8, <2>1, <2>2 DEF OwnedCovered, Settles, Missing, One
  <2> QED  BY <1>1, <2>3, <2>4
<1> QED  BY <1>7, <1>8

LEMMA BalancedStep ==
  ASSUME CopyKept, TypeOK', NEW w \in Workers, Handles(w), Settles(w),
         PlaceOK(w)', mem'[w].kind # "uninstall"
  PROVE  CopyKept'
<1>1. \A v \in Workers \ {w} : PlaceOK(v)' /\ mem'[v].kind # "uninstall"
  BY DEF CopyKept, Handles, PlaceOK
<1> QED  BY <1>1, BalanceKept DEF CopyKept

\* A step that swaps nothing.
LEMMA Bystands ==
  ASSUME CopyKept, TypeOK', NEW w \in Workers,
         \A v \in Workers \ {w} : pc'[v] = pc[v] /\ mem'[v] = mem[v],
         UNCHANGED <<live, backup, owned>>,
         Holds(w)' <=> Holds(w),
         Holds(w) => mem'[w].stamp = mem[w].stamp /\ (pc'[w] \in Gap <=> pc[w] \in Gap),
         Checks(w)' => Checks(w),
         PlaceOK(w)', mem'[w].kind # "uninstall"
  PROVE  CopyKept'
<1>1. Handles(w)
  BY DEF Handles, CopyKept, Apart, BackupOf
<1>2. /\ Vouches(w)' <=> Vouches(w)
      /\ Owes(w)' <=> Owes(w)
  BY DEF Vouches, Owes, BackupOf
<1>3. Settles(w)
  BY <1>2 DEF Settles, Missing, One
<1> QED  BY <1>1, <1>3, BalancedStep

\* The places and the kinds of the steps of a handler.
LEMMA StepPlaces ==
  ASSUME TypeOK, NEW w \in Workers
  PROVE  /\ \A place : Goto(w, place) => /\ pc'[w] = place
                                         /\ \A v \in Workers \ {w} : pc'[v] = pc[v]
         /\ \A what : Return(w, what) => /\ pc'[w] = "idle"
                                         /\ \A v \in Workers \ {w} : pc'[v] = pc[v]
BY DEF TypeOK, Goto, Return

LEMMA CopyMoveAside ==
  ASSUME CopyKept, TypeOK', NEW w \in Workers, MoveAside(w)
  PROVE  CopyKept'
<1> USE PlaceNames DEF Gap
<1>1. TypeOK /\ PlaceOK(w)
  BY DEF CopyKept
<1>2. /\ pc[w] = "aside" /\ mem[w].kind = "update" /\ mem' = mem /\ owned' = owned
      /\ ~Holds(w) /\ ~Checks(w) /\ ~Vouches(w) /\ ~Owes(w)
  BY <1>1 DEF MoveAside, PlaceOK, Holds, Checks, Vouches, Owes
<1>3. CASE Return(w, "failed") /\ UNCHANGED <<live, backup>>
  <2>1. pc'[w] = "idle" /\ \A v \in Workers \ {w} : pc'[v] = pc[v]
    BY <1>1, <1>3, StepPlaces
  <2>2. ~Holds(w)' /\ ~Checks(w)' /\ PlaceOK(w)'
    BY <2>1 DEF Holds, Checks, PlaceOK
  <2> QED  BY <1>2, <1>3, <2>1, <2>2, Bystands
<1>4. CASE /\ live # None /\ BackupOf(w) = None /\ SetBackup(w, live) /\ live' = None
           /\ Goto(w, "promote")
  <2>1. pc'[w] = "promote" /\ \A v \in Workers \ {w} : pc'[v] = pc[v]
    BY <1>1, <1>4, StepPlaces
  <2>2. /\ mem[w].stamp \in Stamps /\ backup'[mem[w].stamp] = live
        /\ \A t \in Stamps \ {mem[w].stamp} : backup'[t] = backup[t]
    BY <1>1, <1>4, DirectorySteps
  <2>3. Holds(w)' /\ ~Checks(w)' /\ PlaceOK(w)' /\ BackupOf(w)' = live /\ ~Owes(w)'
    BY <1>2, <2>1, <2>2 DEF Holds, Checks, PlaceOK, BackupOf, Owes
  <2>4. Handles(w)
    BY <1>2, <1>4, <2>1, <2>2, <2>3 DEF Handles
  <2>5. (Vouches(w)' <=> live \in Versions) /\ Missing' = 1
    BY <1>4, <2>1, <2>3, MarkersAssumption DEF Vouches, Missing, Versions
  <2>6. Settles(w)
    BY <1>2, <2>3, <2>5 DEF Settles, Missing, One
  <2> QED  BY <1>2, <2>3, <2>4, <2>6, BalancedStep
<1> QED  BY <1>3, <1>4 DEF MoveAside

LEMMA CopyPromote ==
  ASSUME CopyKept, TypeOK', NEW w \in Workers, Promote(w)
  PROVE  CopyKept'
<1> USE PlaceNames DEF Gap
<1>1. TypeOK /\ PlaceOK(w) /\ Apart
  BY DEF CopyKept
<1>2. /\ pc[w] = "promote" /\ mem[w].kind = "update" /\ UNCHANGED <<mem, owned, backup>>
      /\ Holds(w) /\ ~Checks(w) /\ ~Owes(w)
  BY <1>1 DEF Promote, PlaceOK, Holds, Checks, Owes
<1>3. CASE Goto(w, "unswap") /\ UNCHANGED live
  <2>1. pc'[w] = "unswap" /\ \A v \in Workers \ {w} : pc'[v] = pc[v]
    BY <1>1, <1>3, StepPlaces
  <2>2. Holds(w)' /\ ~Checks(w)' /\ PlaceOK(w)'
    BY <1>2, <2>1 DEF Holds, Checks, PlaceOK
  <2> QED  BY <1>2, <1>3, <2>1, <2>2, Bystands
<1>4. CASE /\ live = None /\ StagingOf(w) # None /\ live' = StagingOf(w)
           /\ Goto(w, "list")
  <2>1. pc'[w] = "list" /\ \A v \in Workers \ {w} : pc'[v] = pc[v]
    BY <1>1, <1>4, StepPlaces
  <2>2. StagingOf(w) \in Versions
    BY <1>1, <1>4, HandlerTypes
  <2>3. Holds(w)' /\ ~Checks(w)' /\ PlaceOK(w)' /\ BackupOf(w)' = BackupOf(w) /\ ~Vouches(w)'
    BY <1>2, <2>1 DEF Holds, Checks, PlaceOK, BackupOf, Vouches
  <2>4. Handles(w)
    BY <1>1, <1>2, <2>1, <2>3 DEF Handles, Apart
  <2>5. Missing = 1 /\ Missing' = 0
    BY <1>4, <2>2, MarkersAssumption DEF Missing, Versions
  <2>6. (Vouches(w) <=> BackupOf(w) \in Versions) /\ (Owes(w)' <=> BackupOf(w) \notin Versions)
    BY <1>2, <2>1, <2>3 DEF Vouches, Owes
  <2>7. Settles(w)
    BY <1>2, <2>3, <2>5, <2>6 DEF Settles, One
  <2> QED  BY <1>2, <2>3, <2>4, <2>7, BalancedStep
<1> QED  BY <1>3, <1>4 DEF Promote

\* Whoever leaves a version behind in its backup leaves it for good.
LEMMA LeftBehind ==
  ASSUME CopyKept, TypeOK', NEW w \in Workers, Handles(w), Holds(w), ~Holds(w)',
         backup' = backup, BackupOf(w) \in Versions
  PROVE  Kept'
<1>1. mem[w].stamp \in Stamps
  BY LocalsType DEF CopyKept, TypeOK
<1>2. \A v \in Workers : Holds(v)' => v # w /\ Holds(v) /\ mem'[v] = mem[v]
  BY DEF Handles, Holds
<1> QED  BY <1>1, <1>2 DEF Kept, BackupOf, CopyKept, Apart

\* A swap that is undone, or is not.
LEMMA CopyPutBack ==
  ASSUME CopyKept, TypeOK', NEW w \in Workers, Unswap(w) \/ Restore(w)
  PROVE  CopyKept'
<1> USE PlaceNames DEF Gap
<1>1. TypeOK /\ PlaceOK(w) /\ Apart
  BY DEF CopyKept
<1>2. /\ pc[w] \in {"unswap", "restore"} /\ mem[w].kind = "update" /\ owned' = owned
      /\ Holds(w) /\ ~Checks(w) /\ ~Owes(w)
  BY <1>1 DEF Unswap, Restore, PlaceOK, Holds, Checks, Owes
<1>3. pc'[w] = "idle" /\ \A v \in Workers \ {w} : pc'[v] = pc[v]
  BY <1>1, StepPlaces DEF Unswap, Restore
<1>4. ~Holds(w)' /\ ~Checks(w)' /\ ~Owes(w)' /\ ~Vouches(w)' /\ PlaceOK(w)'
  BY <1>3 DEF Holds, Checks, Owes, Vouches, PlaceOK
<1>5. Constant(w)
  BY <1>1, LocalSteps DEF Unswap, Restore
<1>6. CASE live = None /\ live' = BackupOf(w) /\ SetBackup(w, None)
  <2>1. Handles(w)
    BY <1>1, <1>2, <1>3, <1>4, <1>5, <1>6, DirectorySteps DEF Handles, Constant
  <2>2. (Vouches(w) <=> BackupOf(w) \in Versions) /\ Missing = 1
        /\ Missing' = IF BackupOf(w) \in Versions THEN 0 ELSE 1
    BY <1>2, <1>6, MarkersAssumption DEF Vouches, Missing, Versions
  <2>3. Settles(w)
    BY <1>2, <1>4, <2>2 DEF Settles, One
  <2> QED  BY <1>2, <1>4, <1>5, <2>1, <2>3, BalancedStep DEF Constant
<1>7. CASE UNCHANGED <<live, backup>>
  <2>1. Handles(w)
    BY <1>3, <1>4, <1>5, <1>7 DEF Handles, Constant
  <2>2. CASE BackupOf(w) \in Versions
    BY <1>2, <1>4, <1>5, <1>7, <2>1, <2>2, LeftBehind, BalancedStep DEF Settles, Constant
  <2>3. CASE BackupOf(w) \notin Versions
    <3>1. Settles(w)
      BY <1>2, <1>4, <1>7, <2>3 DEF Settles, Vouches, Missing, One
    <3> QED  BY <1>2, <1>4, <1>5, <2>1, <3>1, BalancedStep DEF Constant
  <2> QED  BY <2>2, <2>3
<1> QED  BY <1>6, <1>7 DEF Unswap, Restore

LEMMA CopyRollback ==
  ASSUME CopyKept, TypeOK', NEW w \in Workers, Rollback(w)
  PROVE  CopyKept'
<1> USE PlaceNames DEF Gap
<1>1. TypeOK /\ PlaceOK(w) /\ Apart
  BY DEF CopyKept
<1>2. /\ pc[w] = "rollback" /\ mem[w].kind = "update" /\ UNCHANGED <<mem, owned, backup>>
      /\ live' = None /\ Holds(w) /\ ~Checks(w) /\ ~Vouches(w)
  BY <1>1 DEF Rollback, PlaceOK, Holds, Checks, Vouches
<1>3. pc'[w] = "restore" /\ \A v \in Workers \ {w} : pc'[v] = pc[v]
  BY <1>1, StepPlaces DEF Rollback
<1>4. Holds(w)' /\ ~Checks(w)' /\ PlaceOK(w)' /\ BackupOf(w)' = BackupOf(w) /\ ~Owes(w)'
  BY <1>2, <1>3 DEF Holds, Checks, PlaceOK, BackupOf, Owes
<1>5. Handles(w)
  BY <1>1, <1>2, <1>3, <1>4 DEF Handles, Apart
<1>6. /\ Missing \in {0, 1} /\ Missing' = 1
      /\ Owes(w) <=> BackupOf(w) \notin Versions
      /\ Vouches(w)' <=> BackupOf(w) \in Versions
  BY <1>2, <1>3, <1>4, MarkersAssumption DEF Missing, Versions, Owes, Vouches
<1>7. Settles(w)
  BY <1>2, <1>4, <1>6 DEF Settles, One
<1> QED  BY <1>2, <1>4, <1>5, <1>7, BalancedStep

LEMMA CopyCleanup ==
  ASSUME CopyKept, TypeOK', NEW w \in Workers, Cleanup(w)
  PROVE  CopyKept'
<1> USE PlaceNames DEF Gap
<1>1. TypeOK /\ PlaceOK(w)
  BY DEF CopyKept
<1>2. /\ pc[w] = "cleanup" /\ mem[w].kind = "update" /\ UNCHANGED <<mem, owned, live>>
      /\ SetBackup(w, None) /\ Holds(w) /\ ~Checks(w) /\ ~Vouches(w)
  BY <1>1 DEF Cleanup, PlaceOK, Holds, Checks, Vouches
<1>3. pc'[w] = "idle" /\ \A v \in Workers \ {w} : pc'[v] = pc[v]
  BY <1>1, StepPlaces DEF Cleanup
<1>4. ~Holds(w)' /\ ~Checks(w)' /\ PlaceOK(w)' /\ ~Owes(w)' /\ ~Vouches(w)'
  BY <1>3 DEF Holds, Checks, PlaceOK, Owes, Vouches
<1>5. Handles(w)
  BY <1>1, <1>2, <1>3, <1>4, DirectorySteps DEF Handles
<1>6. Settles(w)
  BY <1>2, <1>4 DEF Settles, One, Missing
<1> QED  BY <1>2, <1>4, <1>5, <1>6, BalancedStep

LEMMA CopyInstall ==
  ASSUME CopyKept, TypeOK', NEW w \in Workers,
         CloneStarts(w) \/ CloneEnds(w) \/ Validate(w) \/ Register(w)
  PROVE  CopyKept'
<1> USE PlaceNames DEF Gap
<1>1. TypeOK /\ PlaceOK(w) /\ mem[w].post \in Versions
  BY LocalsType DEF CopyKept, TypeOK
<1>2. Constant(w) /\ backup' = backup /\ pc[w] \in InstallPlaces
  BY <1>1, LocalSteps DEF CloneStarts, CloneEnds, Validate, Register, Swallow, files
<1>3. /\ pc'[w] \in {"cloning", "validate", "register", "list", "idle"}
      /\ \A v \in Workers \ {w} : pc'[v] = pc[v]
  BY <1>1, StepPlaces DEF CloneStarts, CloneEnds, Validate, Register, Swallow
<1>4. mem[w].kind = "install" /\ mem'[w].kind = "install"
  BY <1>1, <1>2 DEF PlaceOK, Constant
<1>5. ~Holds(w) /\ ~Holds(w)' /\ ~Vouches(w) /\ ~Vouches(w)' /\ ~Owes(w) /\ ~Owes(w)' /\ PlaceOK(w)'
  BY <1>3, <1>4 DEF Holds, Vouches, Owes, PlaceOK
<1>6. Handles(w)
  BY <1>2, <1>3, <1>5 DEF Handles, Constant
<1>7. Missing \in {0, 1} /\ Missing' \in {0, 1}
  BY DEF Missing
<1>8. CASE CloneStarts(w)
  <2>1. ~Checks(w) /\ ~Checks(w)' /\ owned' = owned
    BY <1>1, <1>8, StepPlaces DEF CloneStarts, Checks
  <2>2. Missing' = Missing
    BY <1>8, MarkersAssumption DEF CloneStarts, Missing, Versions
  <2>3. Settles(w)
    BY <1>5, <1>7, <2>1, <2>2 DEF Settles, One
  <2> QED  BY <1>4, <1>5, <1>6, <2>3, BalancedStep
<1>9. CASE CloneEnds(w)
  <2>1. CASE live = Partial /\ live' = mem[w].post /\ owned' = TRUE /\ Goto(w, "validate")
    <3>1. ~Checks(w) /\ Checks(w)' /\ Missing = 1 /\ Missing' = 0
      BY <1>1, <1>9, <2>1, StepPlaces, MarkersAssumption DEF CloneEnds, Checks, Missing, Versions
    <3>2. Settles(w)
      BY <1>5, <3>1 DEF Settles, One
    <3> QED  BY <1>4, <1>5, <1>6, <3>2, BalancedStep
  <2>2. CASE /\ (live = Partial /\ live' = None) \/ live' = live
             /\ owned' = owned /\ Return(w, "failed")
    <3>1. ~Checks(w) /\ ~Checks(w)' /\ Missing' = Missing
      BY <1>1, <1>9, <2>2, StepPlaces, MarkersAssumption DEF CloneEnds, Checks, Missing, Versions
    <3>2. owned' = owned
      BY <2>2
    <3>3. Settles(w)
      BY <1>5, <1>7, <3>1, <3>2 DEF Settles, One
    <3> QED  BY <1>4, <1>5, <1>6, <3>3, BalancedStep
  <2> QED  BY <1>9, <2>1, <2>2 DEF CloneEnds
<1>10. CASE Validate(w)
  <2>1. Checks(w) /\ ~Checks(w)'
    BY <1>1, <1>10, StepPlaces DEF Validate, Checks
  <2>2. (live' = live /\ owned' = owned) \/ owned' = FALSE
    BY <1>10 DEF Validate
  <2>3. Settles(w)
    BY <1>5, <1>7, <2>1, <2>2 DEF Settles, One, Missing
  <2> QED  BY <1>4, <1>5, <1>6, <2>3, BalancedStep
<1>11. CASE Register(w)
  <2>1. ~Checks(w)' /\ live' = live /\ owned' = owned
    BY <1>1, <1>11, StepPlaces DEF Register, Swallow, Checks, files
  <2> QED  BY <1>2, <1>3, <1>4, <1>5, <2>1, Bystands DEF Constant
<1> QED  BY <1>8, <1>9, <1>10, <1>11

LEMMA CopyCrash ==
  ASSUME CopyKept, TypeOK', NEW w \in Workers, Crash(w)
  PROVE  CopyKept'
<1> USE PlaceNames DEF Gap
<1>1. TypeOK /\ PlaceOK(w) /\ mem[w].post \in Versions
  BY LocalsType DEF CopyKept, TypeOK
<1>2. /\ pc'[w] = "idle" /\ \A v \in Workers \ {w} : pc'[v] = pc[v]
      /\ mem' = mem /\ backup' = backup
  BY <1>1, StepPlaces DEF Crash
<1>3. ~Holds(w)' /\ ~Checks(w)' /\ PlaceOK(w)' /\ ~Owes(w)' /\ ~Vouches(w)'
  BY <1>2 DEF Holds, Checks, PlaceOK, Owes, Vouches
<1>4. Handles(w)
  BY <1>2, <1>3 DEF Handles
<1>5. Settles(w)
  <2>1. CASE Vouches(w)
    BY <1>2, <1>3, <1>4, <2>1, LeftBehind DEF Settles, Vouches
  <2>2. CASE ~Vouches(w) /\ UNCHANGED <<live, owned>>
    BY <1>3, <2>2 DEF Settles, Missing, One
  <2>3. CASE ~Vouches(w) /\ pc[w] = "cloning" /\ live = Partial /\ live' = mem[w].post
    <3>1. ~Owes(w) /\ ~Checks(w) /\ Missing = 1 /\ Missing' = 0
      BY <1>1, <2>3, MarkersAssumption DEF Owes, Holds, Checks, Missing, Versions
    <3> QED  BY <1>3, <2>3, <3>1 DEF Settles, One
  <2> QED  BY <2>1, <2>2, <2>3 DEF Crash
<1>6. mem'[w].kind # "uninstall"
  BY <1>2 DEF CopyKept
<1> QED  BY <1>3, <1>4, <1>5, <1>6, BalancedStep

LEMMA CopyBegin ==
  ASSUME CopyKept, TypeOK', NEW w \in Workers, UpdateBegins(w) \/ InstallBegins(w)
  PROVE  CopyKept'
<1> USE PlaceNames DEF Gap
<1>1. PICK kind, place, m : /\ Begin(w, kind, place, m)
                            /\ \/ place = "stage" /\ m.kind = "update"
                               \/ place = "clone" /\ m.kind = "install"
  <2>1. CASE UpdateBegins(w)
    <3> DEFINE m == [NoLocals EXCEPT !.kind = "update", !.stamp = now, !.pre = live]
    <3>1. m.kind = "update"
      BY DEF NoLocals
    <3>2. Begin(w, "update", "stage", m)
      BY <2>1 DEF UpdateBegins
    <3> HIDE DEF m
    <3> QED  BY <3>1, <3>2
  <2>2. CASE InstallBegins(w)
    <3> DEFINE m == [NoLocals EXCEPT !.post = latest]
    <3>1. m.kind = "install"
      BY DEF NoLocals
    <3>2. Begin(w, "install", "clone", m)
      BY <2>2 DEF InstallBegins
    <3> HIDE DEF m
    <3> QED  BY <3>1, <3>2
  <2> QED  BY <2>1, <2>2
<1>2. /\ pc[w] = "idle" /\ pc'[w] = place /\ mem'[w] = m /\ UNCHANGED <<live, backup, owned>>
      /\ \A v \in Workers \ {w} : pc'[v] = pc[v] /\ mem'[v] = mem[v]
  BY <1>1 DEF Begin, Idle, CopyKept, TypeOK, files
<1>3. ~Holds(w) /\ ~Holds(w)' /\ ~Checks(w)' /\ PlaceOK(w)' /\ mem'[w].kind # "uninstall"
  BY <1>1, <1>2 DEF Holds, Checks, PlaceOK
<1> QED  BY <1>2, <1>3, Bystands

LEMMA CopyElsewhere ==
  ASSUME CopyKept, TypeOK', NEW w \in Workers, Stage(w) \/ Record(w) \/ Migrate(w)
  PROVE  CopyKept'
<1> USE PlaceNames DEF Gap
<1>1. TypeOK /\ PlaceOK(w) /\ mem[w].kind # "uninstall" /\ mem[w] \in Locals
  BY DEF CopyKept, TypeOK
<1>2. UNCHANGED <<live, backup, owned>>
  BY DEF Stage, Record, Swallow, Migrate, ListMigrations, CheckMigration, RunMigration, Grant,
    Regrant, files
<1>3. \A v \in Workers \ {w} : pc'[v] = pc[v]
  BY <1>1, StepPlaces DEF Stage, Record, Swallow, Migrate, ListMigrations, CheckMigration,
    RunMigration, Raise, Grant, Regrant
<1>4. /\ mem'[w].kind = mem[w].kind /\ mem'[w].stamp = mem[w].stamp
      /\ \A v \in Workers \ {w} : mem'[v] = mem[v]
  <2>1. CASE Stage(w)
    <3>1. mem'[w] \in {mem[w], [mem[w] EXCEPT !.post = latest]}
          /\ \A v \in Workers \ {w} : mem'[v] = mem[v]
      BY <2>1, <1>1 DEF Stage, TypeOK
    <3>2. mem[w].kind = [mem[w] EXCEPT !.post = latest].kind
          /\ mem[w].stamp = [mem[w] EXCEPT !.post = latest].stamp
      BY <1>1 DEF Locals
    <3> QED  BY <3>1, <3>2
  <2>2. CASE ListMigrations(w)
    <3>1. mem'[w] = [mem[w] EXCEPT !.todo = Declares(live), !.declared = Declares(live)]
          /\ \A v \in Workers \ {w} : mem'[v] = mem[v]
      BY <2>2, <1>1 DEF ListMigrations, TypeOK
    <3> QED  BY <3>1, <1>1 DEF Locals
  <2>3. CASE Record(w)
    BY <2>3, <1>1, LocalSteps DEF Record, Swallow, Constant
  <2>4. CASE CheckMigration(w)
    BY <2>4, <1>1, LocalSteps DEF CheckMigration, Constant
  <2>5. CASE RunMigration(w)
    BY <2>5, <1>1, LocalSteps DEF RunMigration, Raise, Constant
  <2>6. CASE Grant(w)
    BY <2>6 DEF Grant
  <2>7. CASE Regrant(w)
    BY <2>7, <1>1, LocalSteps DEF Regrant, Constant
  <2> QED  BY <2>1, <2>2, <2>3, <2>4, <2>5, <2>6, <2>7 DEF Migrate
<1>5. \/ pc[w] = "stage" /\ pc'[w] \in {"aside", "idle"} /\ mem[w].kind = "update"
      \/ pc[w] = "record" /\ pc'[w] = "regrant" /\ mem[w].kind = "update"
      \/ /\ pc[w] \in MigrationPlaces /\ mem[w].kind = "update"
         /\ pc'[w] \in {"check", "run", "grant", "record", "rollback", "cleanup"}
      \/ /\ pc[w] \in MigrationPlaces /\ mem[w].kind = "install"
         /\ pc'[w] \in {"check", "run", "grant", "regrant", "idle"}
  <2>1. CASE Stage(w) \/ Record(w)
    BY <2>1, <1>1, StepPlaces DEF Stage, Record, Swallow, PlaceOK
  <2>2. CASE Migrate(w)
    BY <2>2, <1>1, StepPlaces DEF PlaceOK, Migrate, ListMigrations, CheckMigration, RunMigration,
      Raise, Grant, Regrant
  <2> QED  BY <2>1, <2>2
<1>6. (Holds(w)' <=> Holds(w)) /\ ~Checks(w)' /\ PlaceOK(w)' /\ pc'[w] \notin Gap /\ pc[w] \notin Gap
  BY <1>4, <1>5 DEF Holds, Checks, PlaceOK
<1> QED  BY <1>1, <1>2, <1>3, <1>4, <1>6, Bystands

LEMMA CopyKeptStep ==
  "uninstall" \notin Kinds /\ CopyKept /\ [Next]_vars => CopyKept'
<1> SUFFICES ASSUME "uninstall" \notin Kinds, CopyKept, [Next]_vars PROVE CopyKept'
  OBVIOUS
<1>1. TypeOK'
  BY TypeStep DEF CopyKept
<1>2. ASSUME NEW w \in Workers, Update(w) PROVE CopyKept'
  BY <1>1, <1>2, CopyBegin, CopyElsewhere, CopyMoveAside, CopyPromote, CopyPutBack, CopyRollback,
    CopyCleanup DEF Update
<1>3. ASSUME NEW w \in Workers, Install(w) PROVE CopyKept'
  BY <1>1, <1>3, CopyBegin, CopyInstall DEF Install
<1>4. ASSUME NEW w \in Workers, Uninstall(w) PROVE FALSE
  <2>1. pc[w] \notin UninstallPlaces
    BY DEF CopyKept, PlaceOK
  <2> QED
    BY <1>4, <2>1, PlaceNames DEF Uninstall, UninstallBegins, Begin, Revoke, Down, Unrecord,
      DropTables, PurgeMigrations, RemoveDirectory, PurgeRows
<1>5. CASE SettingsRead \/ SettingsWrite \/ Publish \/ Tick \/ UNCHANGED vars
  <2>1. UNCHANGED <<live, backup, owned, pc, mem>>
    BY <1>5 DEF SettingsRead, SettingsWrite, Publish, Tick, vars, files
  <2>2. \A w \in Workers : /\ Holds(w)' <=> Holds(w)
                           /\ Vouches(w)' <=> Vouches(w)
                           /\ Owes(w)' <=> Owes(w)
                           /\ Checks(w)' <=> Checks(w)
                           /\ PlaceOK(w)' <=> PlaceOK(w)
                           /\ BackupOf(w)' = BackupOf(w)
    BY <2>1 DEF Holds, Vouches, Owes, Checks, PlaceOK, BackupOf
  <2>3. Vouching' = Vouching /\ Owing' = Owing /\ Checking' = Checking /\ Missing' = Missing
        /\ (Kept' <=> Kept)
    BY <2>1, <2>2 DEF Vouching, Owing, Checking, Missing, Kept
  <2> QED  BY <1>1, <2>1, <2>2, <2>3 DEF CopyKept, Apart, Covered, OwnedCovered
<1> QED  BY <1>1, <1>2, <1>3, <1>4, <1>5, CopyElsewhere, CopyCrash DEF Next

\* Between the renames of however many updates, and whichever fail or die, a complete
\* copy of an installed plugin is on disk, as long as nobody uninstalls it.
THEOREM ACopySurvives == ASSUME "uninstall" \notin Kinds PROVE Spec => []SwapKeepsACopy
<1>1. CopyKept => SwapKeepsACopy
  <2> SUFFICES ASSUME CopyKept, owned, live \notin Versions
               PROVE  \E s \in Stamps : backup[s] \in Versions
    BY DEF SwapKeepsACopy
  <2>1. CASE Kept
    BY <2>1 DEF Kept
  <2>2. CASE ~Kept
    <3>1. IsFiniteSet(Owing) /\ IsFiniteSet(Vouching)
      BY BoundsAssumption, FS_Subset DEF Owing, Vouching
    <3>2. Cardinality(Owing) \in Nat /\ 1 + Cardinality(Owing) =< Cardinality(Vouching)
      BY <2>2, <3>1, FS_CardinalityType DEF CopyKept, OwnedCovered, Missing
    <3>3. PICK w \in Workers : Vouches(w)
      BY <3>2, FS_EmptySet DEF Vouching
    <3>4. mem[w].stamp \in Stamps
      BY LocalsType DEF CopyKept, TypeOK
    <3> QED  BY <3>3, <3>4 DEF Vouches, BackupOf
  <2> QED  BY <2>1, <2>2
<1> QED  BY <1>1, CopyKeptInit, CopyKeptStep, PTL DEF Spec
=============================================================================
