------------------------ MODULE SyncScheduler_proofs ------------------------
(***************************************************************************)
(* What the scheduler guarantees of its slots and its runs, for any crons, *)
(* intervals and number of interferences.  PM2 runs one scheduler; the     *)
(* theorems about slots and runs are about that one.                       *)
(***************************************************************************)
EXTENDS SyncScheduler, TLAPS

-----------------------------------------------------------------------------
(* Slots *)

\* Of a division by the period: the multiple at or before, and the next one.
LEMMA Multiples ==
  ASSUME NEW p \in Nat, p > 0, NEW t \in Nat
  PROVE  /\ t \div p \in Nat
         /\ (t \div p) * p \in Nat /\ (t \div p) * p <= t
         /\ ((t \div p) + 1) * p \in Nat /\ ((t \div p) + 1) * p > t
<1>1. t \div p \in Nat
  OBVIOUS
<1>2. (t \div p) * p \in Nat /\ ((t \div p) + 1) * p \in Nat
  BY <1>1
<1>3. (t \div p) * p <= t
  OBVIOUS
<1>4. ((t \div p) + 1) * p > t
  OBVIOUS
<1>. QED
  BY <1>1, <1>2, <1>3, <1>4

\* get_next is after the time it starts from.
LEMMA NextSlotIsLater ==
  ASSUME NEW c \in Crons, NEW t \in Nat
  PROVE  NextSlot(c, t) \in Nat /\ NextSlot(c, t) > t
<1>1. Period[c] \in Nat /\ Period[c] > 0
  BY CronsAssumption
<1>. QED
  BY <1>1, Multiples DEF NextSlot

\* get_prev is a slot in the past, or the beginning.
LEMMA PrevSlotIsEarlier ==
  ASSUME NEW c \in Crons, NEW t \in Nat, t > 0
  PROVE  PrevSlot(c, t) \in Nat /\ PrevSlot(c, t) < t
<1>1. Period[c] \in Nat /\ Period[c] > 0 /\ t - 1 \in Nat
  BY CronsAssumption
<1>2. PrevSlot(c, t) \in Nat /\ PrevSlot(c, t) <= t - 1
  BY <1>1, Multiples DEF PrevSlot
<1>. QED
  BY <1>2

\* A pass always finds a slot, and after a warm row a later one.
LEMMA FireTypes ==
  ASSUME NEW c \in Crons, NEW last \in Nat \cup {NoRow, Null}, NEW t \in Nat
  PROVE  NextFire(c, last, t) \in Nat /\ (last \in Nat => NextFire(c, last, t) > last)
<1>1. CASE last \in Nat
  BY <1>1, NextSlotIsLater DEF NextFire
<1>2. CASE last \notin Nat
  <2>1. HasPrev(t) => PrevSlot(c, t) \in Nat
    BY PrevSlotIsEarlier DEF HasPrev
  <2>. QED
    BY <1>2, <2>1, NextSlotIsLater DEF NextFire
<1>. QED
  BY <1>1, <1>2

-----------------------------------------------------------------------------
(* Types *)

\* A pass that has a slot to find has a cron to find it with.
Deciding == \A s \in Schedulers : pc[s] = "decide" => mem[s].cron \in Crons

\* Whatever interferes is counted, and bounded.
LEMMA FaultTypes ==
  ASSUME TypeOK, NEW kind, Interferes(kind) PROVE faults' = faults + 1 /\ faults' \in 0 .. MaxFaults
  BY TimesAssumption DEF TypeOK, Interferes

\* What a scheduler remembers of a pass stays well typed.
LEMMA MemTypes ==
  ASSUME TypeOK, NEW s \in Schedulers, NEW l \in {"yes", "no", "none"}
  PROVE  /\ [mem EXCEPT ![s] = Nothing] \in [Schedulers -> Mem]
         /\ [mem EXCEPT ![s].listed = l] \in [Schedulers -> Mem]
         /\ \A c \in Crons : [mem EXCEPT ![s].listed = l, ![s].cron = c] \in [Schedulers -> Mem]
         /\ \A n \in Nat : [mem EXCEPT ![s].fire = n] \in [Schedulers -> Mem]
<1>1. mem \in [Schedulers -> Mem]
  BY DEF TypeOK
<1>2. Nothing \in Mem
  BY DEF Nothing, Mem
<1>. QED
  BY <1>1, <1>2 DEF Mem

\* The steps of a pass that read.
LEMMA TypeReads ==
  ASSUME TypeOK, Deciding, NEW s \in Schedulers,
         \/ \E cron \in Crons \cup {NoCron, BadCron} : Begin(s, cron)
         \/ ListFails(s) \/ Decide(s) \/ DecideBlind(s)
  PROVE  TypeOK' /\ Deciding'
<1>0. /\ now \in Time /\ faults \in 0 .. MaxFaults /\ steady \in Time
      /\ pc \in [Schedulers -> PC] /\ started \in [Schedulers -> Time]
      /\ registry \in Time \cup {NoRow, Null} /\ mem \in [Schedulers -> Mem]
  BY DEF TypeOK
<1>1. UNCHANGED <<now, planVars, registry, active, fired, decided, unknown, unchecked>>
  BY DEF Begin, ListFails, Decide, DecideBlind, historyVars
<1>2. faults' \in 0 .. MaxFaults /\ steady' \in Time
  BY <1>0, FaultTypes DEF Begin, CronRead, ListFails, Decide, DecideBlind, historyVars
<1>3. started' \in [Schedulers -> Time]
  BY <1>0 DEF Begin, ListFails, Decide, DecideBlind
<1>4. pc' \in [Schedulers -> PC]
  BY <1>0 DEF Begin, ListFails, Decide, DecideBlind, DecideOn, Goes, PC
<1>5. mem' \in [Schedulers -> Mem]
  <2>1. ASSUME NEW cron \in Crons \cup {NoCron, BadCron}, Begin(s, cron)
        PROVE  mem' \in [Schedulers -> Mem]
    <3>1. CASE mem' = [mem EXCEPT ![s].listed = IF others THEN "no" ELSE "none"]
      BY <3>1, MemTypes
    <3>2. CASE mem' = [mem EXCEPT ![s].listed = "yes"]
      BY <3>2, MemTypes
    <3>3. CASE mem' = [mem EXCEPT ![s].listed = "yes", ![s].cron = cron] /\ cron \in Crons
      BY <3>3, MemTypes
    <3>. QED
      BY <2>1, <3>1, <3>2, <3>3 DEF Begin
  <2>2. ASSUME NEW last \in Time \cup {NoRow, Null}, DecideOn(s, last), mem[s].cron \in Crons
        PROVE  mem' \in [Schedulers -> Mem]
    <3>1. now \in Nat /\ last \in Nat \cup {NoRow, Null}
      BY <1>0, TimesAssumption DEF Time
    <3>2. NextFire(mem[s].cron, last, now) \in Nat
      BY <2>2, <3>1, FireTypes
    <3>. QED
      BY <2>2, <3>2, MemTypes DEF DecideOn
  <2>3. CASE Decide(s) \/ DecideBlind(s)
    BY <1>0, <2>2, <2>3 DEF Decide, DecideBlind, Deciding
  <2>. QED
    BY <1>0, <2>1, <2>3 DEF ListFails
<1>6. TypeOK'
  BY <1>0, <1>1, <1>2, <1>3, <1>4, <1>5 DEF TypeOK, planVars
<1>7. Deciding'
  <2>1. ASSUME NEW cron \in Crons \cup {NoCron, BadCron}, Begin(s, cron) PROVE Deciding'
    <3>1. pc'[s] = "decide" => mem'[s].cron \in Crons
      BY <1>0, <2>1 DEF Begin, Goes, Mem
    <3>2. \A r \in Schedulers : r # s => pc'[r] = pc[r] /\ mem'[r] = mem[r]
      BY <1>0, <2>1 DEF Begin, Goes
    <3>. QED
      BY <3>1, <3>2 DEF Deciding
  <2>2. CASE ListFails(s)
    BY <2>2 DEF ListFails, Deciding
  <2>3. CASE Decide(s) \/ DecideBlind(s)
    <3>1. pc'[s] \in {"check", "refresh"}
      BY <1>0, <2>3 DEF Decide, DecideBlind, DecideOn, Goes
    <3>2. \A r \in Schedulers : r # s => pc'[r] = pc[r] /\ mem'[r] = mem[r]
      BY <1>0, <2>3 DEF Decide, DecideBlind, DecideOn, Goes
    <3>. QED
      BY <3>1, <3>2 DEF Deciding
  <2>. QED
    BY <2>1, <2>2, <2>3
<1>. QED
  BY <1>6, <1>7

\* The steps of a pass that write, or fail to.
LEMMA TypeWrites ==
  ASSUME TypeOK, Deciding, NEW s \in Schedulers,
         \/ Check(s) \/ CheckFails(s) \/ Enqueue(s) \/ EnqueueFails(s)
         \/ Record(s) \/ RecordFails(s) \/ Refresh(s) \/ RefreshFails(s)
         \/ Forget(s) \/ ForgetFails(s) \/ Reap(s) \/ ReapFails(s)
  PROVE  TypeOK' /\ Deciding'
<1>0. /\ now \in Time /\ faults \in 0 .. MaxFaults /\ steady \in Time /\ decided \in Time
      /\ pc \in [Schedulers -> PC] /\ started \in [Schedulers -> Time]
      /\ registry \in Time \cup {NoRow, Null} /\ mem \in [Schedulers -> Mem]
      /\ active \in Nat /\ fired \in [Time -> Nat] /\ unknown \in Nat /\ unchecked \in Nat
  BY DEF TypeOK
<1>1. UNCHANGED <<now, planVars, started>>
  BY DEF Check, CheckFails, Enqueue, EnqueueFails, Record, RecordFails, Refresh, RefreshFails,
         Forget, ForgetFails, Reap, ReapFails
<1>2. CASE Check(s) \/ CheckFails(s)
  <2>1. /\ faults' \in 0 .. MaxFaults /\ decided' \in Time /\ unchecked' \in Nat
        /\ UNCHANGED <<registry, active, mem, fired, steady, unknown>>
    BY <1>0, <1>2, FaultTypes DEF Check, CheckFails
  <2>2. pc' \in [Schedulers -> PC] /\ pc'[s] # "decide" /\ \A r \in Schedulers \ {s} : pc'[r] = pc[r]
    BY <1>0, <1>2 DEF Check, CheckFails, Goes, PC
  <2>. QED
    BY <1>0, <1>1, <2>1, <2>2 DEF TypeOK, planVars, Deciding
<1>3. CASE Enqueue(s) \/ EnqueueFails(s)
  <2>1. faults' \in 0 .. MaxFaults /\ UNCHANGED <<registry, mem, unknown, unchecked>>
    BY <1>0, <1>3, FaultTypes DEF Enqueue, EnqueueFails
  <2>2. active' \in Nat /\ decided' \in Time /\ steady' \in Time
    BY <1>0, <1>3 DEF Enqueue, EnqueueFails
  <2>3. fired' \in [Time -> Nat]
    BY <1>0, <1>3 DEF Enqueue, EnqueueFails
  <2>4. pc' \in [Schedulers -> PC] /\ pc'[s] # "decide" /\ \A r \in Schedulers \ {s} : pc'[r] = pc[r]
    BY <1>0, <1>3 DEF Enqueue, EnqueueFails, Goes, PC
  <2>. QED
    BY <1>0, <1>1, <2>1, <2>2, <2>3, <2>4 DEF TypeOK, planVars, Deciding
<1>4. CASE \/ Record(s) \/ RecordFails(s) \/ Refresh(s) \/ RefreshFails(s)
           \/ Forget(s) \/ ForgetFails(s)
  <2>1. faults' \in 0 .. MaxFaults
    BY <1>0, <1>4, FaultTypes DEF Record, RecordFails, Refresh, RefreshFails, Forget, ForgetFails
  <2>2. registry' \in Time \cup {NoRow, Null}
    BY <1>0, <1>4 DEF Record, RecordFails, Refresh, RefreshFails, Forget, ForgetFails, Recorded, Upserted
  <2>3. unknown' \in Nat /\ UNCHANGED <<active, mem, fired, decided, steady, unchecked>>
    BY <1>0, <1>4 DEF Record, RecordFails, Refresh, RefreshFails, Forget, ForgetFails, historyVars
  <2>4. pc' \in [Schedulers -> PC] /\ pc'[s] # "decide" /\ \A r \in Schedulers \ {s} : pc'[r] = pc[r]
    BY <1>0, <1>4 DEF Record, RecordFails, Refresh, RefreshFails, Forget, ForgetFails, Goes, PC
  <2>. QED
    BY <1>0, <1>1, <2>1, <2>2, <2>3, <2>4 DEF TypeOK, planVars, Deciding
<1>5. CASE Reap(s) \/ ReapFails(s)
  <2>1. faults' \in 0 .. MaxFaults /\ steady' \in Time
    BY <1>0, <1>5, FaultTypes DEF Reap, ReapFails, historyVars
  <2>2. registry' \in Time \cup {NoRow, Null} /\ UNCHANGED <<active, fired, decided, unknown, unchecked>>
    BY <1>0, <1>5 DEF Reap, ReapFails, Reaped, historyVars
  <2>3. mem' \in [Schedulers -> Mem] /\ \A r \in Schedulers \ {s} : mem'[r] = mem[r]
    BY <1>0, <1>5, MemTypes DEF Reap, ReapFails
  <2>4. pc' \in [Schedulers -> PC] /\ pc'[s] # "decide" /\ \A r \in Schedulers \ {s} : pc'[r] = pc[r]
    BY <1>0, <1>5 DEF Reap, ReapFails, Goes, PC
  <2>. QED
    BY <1>0, <1>1, <2>1, <2>2, <2>3, <2>4 DEF TypeOK, planVars, Deciding
<1>. QED
  BY <1>2, <1>3, <1>4, <1>5

\* The life and death of schedulers.
LEMMA TypeLives ==
  ASSUME TypeOK, Deciding, NEW s \in Schedulers, Crash(s) \/ Restart(s)
  PROVE  TypeOK' /\ Deciding'
<1>0. /\ now \in Time /\ faults \in 0 .. MaxFaults /\ steady \in Time
      /\ pc \in [Schedulers -> PC] /\ started \in [Schedulers -> Time]
      /\ mem \in [Schedulers -> Mem]
  BY DEF TypeOK
<1>1. /\ faults' \in 0 .. MaxFaults /\ steady' \in Time
      /\ UNCHANGED <<now, planVars, registry, active, fired, decided, unknown, unchecked>>
  BY <1>0, FaultTypes DEF Crash, Restart, historyVars
<1>2. started' \in [Schedulers -> Time]
  <2>1. now >= PollInterval => now - PollInterval \in Time
    BY <1>0, TimesAssumption DEF Time
  <2>. QED
    BY <1>0, <2>1 DEF Crash, Restart
<1>3. pc' \in [Schedulers -> PC] /\ pc'[s] # "decide" /\ \A r \in Schedulers \ {s} : pc'[r] = pc[r]
  BY <1>0 DEF Crash, Restart, Goes, PC
<1>4. mem' \in [Schedulers -> Mem] /\ \A r \in Schedulers \ {s} : mem'[r] = mem[r]
  BY <1>0, MemTypes DEF Crash, Restart
<1>. QED
  BY <1>0, <1>1, <1>2, <1>3, <1>4 DEF TypeOK, planVars, Deciding

\* The clock, the runs that end, and the operators.
LEMMA TypeWorld ==
  ASSUME TypeOK, Deciding, Tick \/ RunEnds \/ OperatorNext
  PROVE  TypeOK' /\ Deciding'
<1>0. /\ now \in Time /\ faults \in 0 .. MaxFaults /\ steady \in Time /\ active \in Nat
      /\ manifest \in Crons \cup {NoCron, BadCron} /\ override \in Crons \cup {NoCron}
      /\ installed \in BOOLEAN /\ others \in BOOLEAN /\ registry \in Time \cup {NoRow, Null}
  BY DEF TypeOK
<1>1. /\ faults' \in 0 .. MaxFaults /\ steady' \in Time
      /\ UNCHANGED <<pc, started, mem, fired, decided, unknown, unchecked>>
  BY <1>0, FaultTypes DEF Tick, RunEnds, OperatorNext, SetSchedule, UpdateManifest, Uninstall, Install, OthersChange,
                          passVars, historyVars
<1>2. now' \in Time /\ active' \in Nat
  BY <1>0, TimesAssumption DEF Tick, RunEnds, OperatorNext, SetSchedule, UpdateManifest, Uninstall, Install, OthersChange, Time
<1>3. manifest' \in Crons \cup {NoCron, BadCron} /\ override' \in Crons \cup {NoCron}
  BY <1>0 DEF Tick, RunEnds, OperatorNext, SetSchedule, UpdateManifest, Uninstall, Install, OthersChange, planVars
<1>4. installed' \in BOOLEAN /\ others' \in BOOLEAN
  BY <1>0 DEF Tick, RunEnds, OperatorNext, SetSchedule, UpdateManifest, Uninstall, Install, OthersChange, planVars
<1>5. registry' \in Time \cup {NoRow, Null}
  BY <1>0 DEF Tick, RunEnds, OperatorNext, SetSchedule, UpdateManifest, Uninstall, Install, OthersChange
<1>. QED
  BY <1>0, <1>1, <1>2, <1>3, <1>4, <1>5 DEF TypeOK, Deciding

\* A scheduler's step is one of the three kinds.
LEMMA TypeNext ==
  ASSUME TypeOK, Deciding, [Next]_vars PROVE TypeOK' /\ Deciding'
<1>1. ASSUME NEW s \in Schedulers, SchedulerNext(s) PROVE TypeOK' /\ Deciding'
  BY <1>1, TypeReads, TypeWrites, TypeLives DEF SchedulerNext
<1>2. CASE Tick \/ RunEnds \/ OperatorNext
  BY <1>2, TypeWorld
<1>3. CASE UNCHANGED vars
  BY <1>3 DEF vars, planVars, passVars, historyVars, TypeOK, Deciding
<1>. QED
  BY <1>1, <1>2, <1>3 DEF Next

\* The scheduler begins asleep.
LEMMA TypeInit == Init => TypeOK /\ Deciding
<1>. SUFFICES ASSUME Init PROVE TypeOK /\ Deciding
  OBVIOUS
<1>1. now \in Time
  BY StartAssumption DEF Init, Time
<1>2. mem \in [Schedulers -> Mem] /\ pc \in [Schedulers -> PC] /\ started \in [Schedulers -> Time]
  BY <1>1 DEF Init, Nothing, Mem, PC
<1>3. faults \in 0 .. MaxFaults /\ fired \in [Time -> Nat]
  BY TimesAssumption DEF Init
<1>. QED
  BY <1>1, <1>2, <1>3 DEF Init, TypeOK, Deciding

\* Types, and that a pass only looks for a slot with a cron that parses: the
\* scheduler never asks croniter of anything else.
THEOREM TypeCorrect == Spec => [](TypeOK /\ Deciding)
  BY TypeInit, TypeNext, PTL DEF Spec

-----------------------------------------------------------------------------
(* One run in flight *)

\* PM2 runs one scheduler.
Alone == \A s, r \in Schedulers : s = r

\* The strengthening: who is about to insert a run has looked for an active
\* one and found none, or has looked in vain.
RunInv ==
  /\ OneScheduled
  /\ \A s \in Schedulers : pc[s] = "enqueue" => active <= unchecked

\* Every step keeps it: only a check leads to the insertion.
LEMMA RunNext ==
  ASSUME Alone, TypeOK, RunInv, [Next]_vars PROVE RunInv'
<1>0. active \in Nat /\ unchecked \in Nat /\ pc \in [Schedulers -> PC] /\ active <= 1 + unchecked
  BY DEF TypeOK, RunInv, OneScheduled
<1>1. ASSUME NEW s \in Schedulers, SchedulerNext(s) PROVE RunInv'
  <2>1. \A r \in Schedulers : r = s
    BY DEF Alone
  <2>2. CASE Check(s) \/ CheckFails(s)
    <3>1. active' = active /\ (unchecked' = unchecked \/ unchecked' = unchecked + 1)
      BY <2>2 DEF Check, CheckFails
    <3>2. pc'[s] = "enqueue" => active <= unchecked'
      BY <1>0, <2>2 DEF Check, CheckFails, MayEnqueue, Goes
    <3>. QED
      BY <1>0, <2>1, <3>1, <3>2 DEF RunInv, OneScheduled
  <2>3. CASE Enqueue(s)
    <3>1. active' = active + 1 /\ unchecked' = unchecked /\ active <= unchecked /\ pc'[s] # "enqueue"
      BY <1>0, <2>3 DEF Enqueue, Goes, RunInv
    <3>. QED
      BY <1>0, <2>1, <3>1 DEF RunInv, OneScheduled
  <2>4. CASE ~ (Check(s) \/ CheckFails(s) \/ Enqueue(s))
    <3>1. active' = active /\ unchecked' = unchecked
      BY <1>1, <2>4 DEF SchedulerNext, Begin, ListFails, Decide, DecideBlind, EnqueueFails,
         Record, RecordFails, Refresh, RefreshFails, Forget, ForgetFails, Reap, ReapFails, Crash,
         Restart, historyVars
    <3>2. pc'[s] = "enqueue" => pc[s] = "enqueue"
      BY <1>0, <1>1, <2>4 DEF SchedulerNext, Begin, ListFails, Decide, DecideBlind, DecideOn,
         EnqueueFails, Record, RecordFails, Refresh, RefreshFails, Forget, ForgetFails, Reap,
         ReapFails, Crash, Restart, Goes
    <3>. QED
      BY <2>1, <3>1, <3>2 DEF RunInv, OneScheduled
  <2>. QED
    BY <2>2, <2>3, <2>4
<1>2. CASE RunEnds
  <2>1. active' = active - 1 /\ unchecked' = unchecked /\ pc' = pc /\ active > 0
    BY <1>2 DEF RunEnds, passVars, historyVars
  <2>2. active' <= active
    BY <1>0, <2>1
  <2>3. active' \in Nat
    BY <1>0, <2>1
  <2>. QED
    BY <1>0, <2>1, <2>2, <2>3 DEF RunInv, OneScheduled
<1>3. CASE Tick \/ OperatorNext \/ UNCHANGED vars
  BY <1>3 DEF Tick, OperatorNext, SetSchedule, UpdateManifest, Uninstall, Install, OthersChange, vars, passVars,
              historyVars, RunInv, OneScheduled
<1>. QED
  BY <1>1, <1>2, <1>3 DEF Next

\* The scheduler alone never has two runs of the plugin in flight, but for a
\* check that failed open, whatever dies, fails or is changed, and however
\* often.
THEOREM OneInFlight ==
  ASSUME Alone PROVE Spec => []OneScheduled
<1>1. Init => RunInv
  BY DEF Init, RunInv, OneScheduled
<1>2. TypeOK /\ RunInv /\ [Next]_vars => RunInv'
  BY RunNext
<1>3. RunInv => OneScheduled
  BY DEF RunInv
<1>. QED
  BY TypeCorrect, <1>1, <1>2, <1>3, PTL DEF Spec

-----------------------------------------------------------------------------
(* No slot is fired again *)

\* How often a slot may have been fired by now.
Allowed == 1 + unknown + faults

\* The plugin has no slots, so far as its settings and the registry say.
Gone == ~ installed \/ EffectiveCron = NoCron

\* The row shows that slot t has been dealt with.
Remembered(t) == registry \in Nat /\ t <= registry

\* What a pass knows, by the place it has come to.
PassInv ==
  /\ registry \in Nat => registry <= now
  /\ \A s \in Schedulers :
       /\ pc[s] \in {"decide", "check", "enqueue", "record", "refresh", "forget"} => mem[s].listed = "yes"
       /\ pc[s] \in {"check", "enqueue", "record"} => mem[s].fire <= now

\* A slot fired as often as it may be is about to be remembered, or is
\* remembered and will stay so: nothing is about to drop the row or to fire
\* the slot from what an earlier row said.
Full(s, t) ==
  fired[t] = Allowed =>
    \/ pc[s] = "record" /\ mem[s].fire = t /\ (Gone => registry = NoRow)
    \/ /\ Remembered(t) /\ ~ Gone /\ pc[s] # "forget"
       /\ pc[s] = "reap" => mem[s].listed = "yes"
       /\ pc[s] \in {"check", "enqueue"} => mem[s].fire # t

\* One short of that, with the schedule just withdrawn: the row, if it is
\* still there, keeps the pass under way from firing the slot.
Near(s, t) ==
  fired[t] + 1 >= Allowed /\ Gone /\ registry # NoRow =>
    /\ pc[s] = "decide" => Remembered(t)
    /\ pc[s] \in {"check", "enqueue"} => mem[s].fire # t

Slot(s, t) == Full(s, t) /\ Near(s, t)

SlotInv ==
  /\ FiredOnceUnlessForgotten
  /\ \A s \in Schedulers, t \in Time : Slot(s, t)

\* A pass that goes on to a slot has a plugin that is listed, and the slot has come.
LEMMA PassNext ==
  ASSUME TypeOK, Deciding, PassInv, [Next]_vars PROVE PassInv'
<1>0. /\ now \in Nat /\ pc \in [Schedulers -> PC] /\ mem \in [Schedulers -> Mem]
      /\ registry \in Nat => registry <= now
      /\ registry \in Time \cup {NoRow, Null}
  BY TimesAssumption DEF TypeOK, Time, PassInv
<1>1. ASSUME NEW s \in Schedulers, SchedulerNext(s) PROVE PassInv'
  <2>1. now' = now /\ \A r \in Schedulers \ {s} : pc'[r] = pc[r] /\ mem'[r] = mem[r]
    <3>1. CASE \/ \E cron \in Crons \cup {NoCron, BadCron} : Begin(s, cron)
               \/ ListFails(s) \/ Decide(s) \/ DecideBlind(s)
      BY <1>0, <3>1 DEF Begin, ListFails, Decide, DecideBlind, DecideOn, Goes
    <3>2. CASE Check(s) \/ CheckFails(s) \/ Enqueue(s) \/ EnqueueFails(s) \/ Record(s) \/ RecordFails(s)
      BY <1>0, <3>2 DEF Check, CheckFails, Enqueue, EnqueueFails, Record, RecordFails, Goes
    <3>3. CASE Refresh(s) \/ RefreshFails(s) \/ Forget(s) \/ ForgetFails(s)
      BY <1>0, <3>3 DEF Refresh, RefreshFails, Forget, ForgetFails, Goes
    <3>4. CASE Reap(s) \/ ReapFails(s) \/ Crash(s) \/ Restart(s)
      BY <1>0, <3>4 DEF Reap, ReapFails, Crash, Restart, Goes
    <3>. QED
      BY <1>1, <3>1, <3>2, <3>3, <3>4 DEF SchedulerNext
  <2>2. registry' \in Nat => registry' <= now
    BY <1>0, <1>1, RowsAssumption DEF SchedulerNext, Begin, ListFails, Decide, DecideBlind, Check, CheckFails,
       Enqueue, EnqueueFails, Record, RecordFails, Refresh, RefreshFails, Forget, ForgetFails, Reap,
       ReapFails, Crash, Restart, Recorded, Upserted, Reaped
  <2>3. /\ pc'[s] \in {"decide", "check", "enqueue", "record", "refresh", "forget"} => mem'[s].listed = "yes"
        /\ pc'[s] \in {"check", "enqueue", "record"} => mem'[s].fire <= now
    <3>1. CASE \E cron \in Crons \cup {NoCron, BadCron} : Begin(s, cron)
      <4>1. PICK cron \in Crons \cup {NoCron, BadCron} : Begin(s, cron)
        BY <3>1
      <4>2. /\ pc'[s] \in {"reap", "forget", "refresh", "decide"}
            /\ pc'[s] # "reap" => mem'[s].listed = "yes"
        BY <1>0, <4>1 DEF Begin, Goes, Mem
      <4>. QED
        BY <4>2
    <3>2. CASE ListFails(s)
      BY <3>2 DEF ListFails, PassInv, Asleep
    <3>3. CASE Decide(s) \/ DecideBlind(s)
      <4>1. PICK last \in {registry, NoRow} : DecideOn(s, last) /\ pc[s] = "decide"
        BY <3>3 DEF Decide, DecideBlind
      <4>2. mem'[s].listed = mem[s].listed /\ mem[s].listed = "yes"
        BY <1>0, <4>1 DEF DecideOn, PassInv, Mem
      <4>3. mem'[s].fire = NextFire(mem[s].cron, last, now)
        BY <1>0, <4>1 DEF DecideOn, Mem
      <4>4. \/ pc'[s] = "check" /\ NextFire(mem[s].cron, last, now) <= now
            \/ pc'[s] = "refresh"
        BY <1>0, <4>1 DEF DecideOn, Due, Goes
      <4>. QED
        BY <4>2, <4>3, <4>4
    <3>4. CASE Check(s) \/ CheckFails(s) \/ Enqueue(s) \/ EnqueueFails(s) \/ Record(s) \/ RecordFails(s)
      BY <1>0, <3>4 DEF Check, CheckFails, Enqueue, EnqueueFails, Record, RecordFails, Goes, PassInv
    <3>5. CASE \/ Refresh(s) \/ RefreshFails(s) \/ Forget(s) \/ ForgetFails(s)
               \/ Reap(s) \/ ReapFails(s) \/ Crash(s) \/ Restart(s)
      BY <1>0, <3>5 DEF Refresh, RefreshFails, Forget, ForgetFails, Reap, ReapFails, Crash, Restart, Goes
    <3>. QED
      BY <1>1, <3>1, <3>2, <3>3, <3>4, <3>5 DEF SchedulerNext
  <2>. QED
    BY <2>1, <2>2, <2>3 DEF PassInv
<1>2. CASE Tick
  <2>1. UNCHANGED <<registry, pc, mem>> /\ now' = now + 1
    BY <1>2 DEF Tick, passVars
  <2>2. registry' \in Nat => registry' <= now'
    BY <1>0, <2>1
  <2>3. ASSUME NEW s \in Schedulers, pc[s] \in {"check", "enqueue", "record"} PROVE mem[s].fire <= now + 1
    <3>1. mem[s].fire \in Nat /\ mem[s].fire <= now
      BY <1>0, <2>3 DEF PassInv, Mem
    <3>. QED
      BY <1>0, <3>1
  <2>. QED
    BY <2>1, <2>2, <2>3 DEF PassInv
<1>3. CASE RunEnds \/ OperatorNext
  <2>1. UNCHANGED <<now, pc, mem>> /\ (registry' = registry \/ registry' = NoRow)
    BY <1>3 DEF RunEnds, OperatorNext, SetSchedule, UpdateManifest, Uninstall, Install, OthersChange, passVars
  <2>. QED
    BY <1>0, <2>1, RowsAssumption DEF PassInv
<1>4. CASE UNCHANGED vars
  BY <1>4 DEF vars, passVars, PassInv
<1>. QED
  BY <1>1, <1>2, <1>3, <1>4 DEF Next

\* A step that counts an interference leaves room for one more enqueue; it
\* may not leave the scheduler with a slot that the dropped schedule remembers.
LEMMA Counted ==
  ASSUME TypeOK, NEW s \in Schedulers, NEW t \in Time, Slot(s, t), fired[t] <= Allowed,
         fired' = fired, Allowed' = Allowed + 1,
         \/ registry' = NoRow
         \/ UNCHANGED planVars /\ pc[s] # "record"
         \/ registry' = registry /\ pc'[s] = pc[s] /\ mem'[s] = mem[s]
         \/ pc'[s] \notin {"decide", "check", "enqueue"}
  PROVE  fired'[t] <= Allowed' /\ Slot(s, t)'
<1>1. fired[t] \in Nat /\ Allowed \in Nat
  BY DEF TypeOK, Allowed
<1>2. fired'[t] < Allowed'
  BY <1>1
<1>3. Full(s, t)'
  BY <1>1, <1>2 DEF Full
<1>4. Near(s, t)'
  <2>. SUFFICES ASSUME fired'[t] + 1 >= Allowed', Gone', registry' # NoRow,
                       pc'[s] \in {"decide", "check", "enqueue"}
                PROVE  /\ pc'[s] = "decide" => Remembered(t)'
                       /\ pc'[s] \in {"check", "enqueue"} => mem'[s].fire # t
    BY DEF Near
  <2>1. fired[t] = Allowed
    BY <1>1
  <2>2. \/ pc[s] = "record"
        \/ /\ Remembered(t) /\ ~ Gone
           /\ pc[s] \in {"check", "enqueue"} => mem[s].fire # t
    BY <2>1 DEF Slot, Full
  <2>3. UNCHANGED planVars => (Gone' <=> Gone)
    BY DEF planVars, Gone, EffectiveCron
  <2>4. registry' = registry /\ pc'[s] = pc[s] /\ mem'[s] = mem[s]
    BY <2>2, <2>3
  <2>5. Remembered(t)' <=> Remembered(t)
    BY <2>4 DEF Remembered
  <2>. QED
    BY <2>2, <2>4, <2>5
<1>. QED
  BY <1>1, <1>2, <1>3, <1>4 DEF Slot

\* A step without an interference, in which no slot is fired.
LEMMA Uncounted ==
  ASSUME NEW s \in Schedulers, NEW t \in Time, Slot(s, t), fired[t] <= Allowed,
         fired' = fired, Allowed' = Allowed, UNCHANGED planVars,
         registry \in Nat => registry' = registry,
         pc[s] # "record",
         pc'[s] # "forget" \/ Gone,
         pc'[s] = "reap" => Gone \/ mem'[s].listed = "yes",
         pc'[s] = "decide" => ~ Gone \/ (pc[s] = "decide" /\ registry' = registry),
         pc'[s] \in {"check", "enqueue"} =>
            \/ pc[s] \in {"check", "enqueue"} /\ mem'[s].fire = mem[s].fire /\ registry' = registry
            \/ pc[s] = "decide" /\ registry' = registry /\ (registry \in Nat => mem'[s].fire > registry)
  PROVE  fired'[t] <= Allowed' /\ Slot(s, t)'
<1>1. Gone' <=> Gone
  BY DEF planVars, Gone, EffectiveCron
<1>2. Remembered(t) => Remembered(t)'
  BY DEF Remembered
<1>3. Remembered(t) /\ pc[s] = "decide" /\ pc'[s] \in {"check", "enqueue"} => mem'[s].fire # t
  BY TimesAssumption DEF Remembered, Time
<1>4. Full(s, t)'
  BY <1>1, <1>2, <1>3 DEF Slot, Full
<1>5. registry' # NoRow /\ pc'[s] \in {"decide", "check", "enqueue"} /\ Gone => registry' = registry
  OBVIOUS
<1>6. Near(s, t)'
  BY <1>1, <1>2, <1>3, <1>5 DEF Slot, Near
<1>. QED
  BY <1>4, <1>6 DEF Slot

\* A step that has counted an interference has counted one.
LEMMA AllowedGrows ==
  ASSUME TypeOK, faults' = faults + 1, unknown' = unknown PROVE Allowed' = Allowed + 1
  BY DEF TypeOK, Allowed

\* The pass begins: it goes on to a slot only if the plugin has slots.
LEMMA SlotBegins ==
  ASSUME TypeOK, NEW s \in Schedulers, NEW t \in Time, Slot(s, t), fired[t] <= Allowed,
         NEW cron \in Crons \cup {NoCron, BadCron}, Begin(s, cron)
  PROVE  fired'[t] <= Allowed' /\ Slot(s, t)'
<1>0. pc \in [Schedulers -> PC] /\ mem \in [Schedulers -> Mem]
  BY DEF TypeOK
<1>1. pc[s] = "sleep" /\ UNCHANGED <<planVars, registry, fired, unknown>>
  BY DEF Begin, Asleep
<1>2. CASE faults' = faults + 1
  BY <1>1, <1>2, Counted, AllowedGrows
<1>3. CASE cron = EffectiveCron /\ faults' = faults
  <2>1. /\ pc'[s] \in {"reap", "forget", "refresh", "decide"}
        /\ pc'[s] \in {"reap", "forget"} => Gone
        /\ pc'[s] = "decide" => ~ Gone
    BY <1>0, <1>3, CronsAssumption DEF Begin, Goes, Gone
  <2>2. Allowed' = Allowed
    BY <1>1, <1>3 DEF Allowed
  <2>. QED
    BY <1>1, <2>1, <2>2, Uncounted
<1>. QED
  BY <1>2, <1>3 DEF Begin, CronRead, Interferes

\* The pass decides and checks: after a warm row, on a later slot.
LEMMA SlotDecides ==
  ASSUME TypeOK, Deciding, NEW s \in Schedulers, NEW t \in Time, Slot(s, t), fired[t] <= Allowed,
         ListFails(s) \/ Decide(s) \/ DecideBlind(s) \/ Check(s) \/ CheckFails(s)
  PROVE  fired'[t] <= Allowed' /\ Slot(s, t)'
<1>0. /\ pc \in [Schedulers -> PC] /\ mem \in [Schedulers -> Mem] /\ now \in Nat
      /\ registry \in Nat \cup {NoRow, Null}
  BY TimesAssumption DEF TypeOK, Time
<1>1. CASE Decide(s)
  <2>1. pc[s] = "decide" /\ pc'[s] \in {"check", "refresh"}
    BY <1>0, <1>1 DEF Decide, DecideOn, Goes
  <2>2. mem'[s].fire = NextFire(mem[s].cron, registry, now)
    BY <1>0, <1>1 DEF Decide, DecideOn, Mem
  <2>3. registry \in Nat => mem'[s].fire > registry
    BY <1>0, <2>1, <2>2, FireTypes DEF Deciding
  <2>4. UNCHANGED <<planVars, registry, fired>> /\ Allowed' = Allowed
    BY <1>1 DEF Decide, historyVars, Allowed
  <2>. QED
    BY <2>1, <2>3, <2>4, Uncounted
<1>2. CASE ListFails(s) \/ DecideBlind(s) \/ CheckFails(s)
  <2>1. pc[s] # "record" /\ UNCHANGED <<planVars, fired, unknown>> /\ faults' = faults + 1
    BY <1>2 DEF ListFails, DecideBlind, CheckFails, Asleep, Interferes
  <2>. QED
    BY <2>1, Counted, AllowedGrows
<1>3. CASE Check(s)
  <2>1. /\ pc[s] = "check" /\ pc'[s] \in {"enqueue", "refresh"} /\ Allowed' = Allowed
        /\ UNCHANGED <<planVars, registry, mem, fired>>
    BY <1>0, <1>3 DEF Check, Goes, Allowed
  <2>. QED
    BY <2>1, Uncounted
<1>. QED
  BY <1>1, <1>2, <1>3

\* The pass fires its slot, which had room for one more.
LEMMA SlotFires ==
  ASSUME TypeOK, NEW s \in Schedulers, NEW t \in Time, Slot(s, t), fired[t] <= Allowed,
         Enqueue(s) \/ EnqueueFails(s)
  PROVE  fired'[t] <= Allowed' /\ Slot(s, t)'
<1>0. /\ pc \in [Schedulers -> PC] /\ fired \in [Time -> Nat]
      /\ fired[t] \in Nat /\ Allowed \in Nat
  BY DEF TypeOK, Allowed
<1>1. CASE Enqueue(s)
  <2>1. /\ pc[s] = "enqueue" /\ pc'[s] = "record" /\ Allowed' = Allowed
        /\ UNCHANGED <<planVars, registry, mem>>
    BY <1>0, <1>1 DEF Enqueue, Goes, Allowed
  <2>2. (Gone' <=> Gone) /\ (Remembered(t)' <=> Remembered(t))
    BY <2>1 DEF planVars, Gone, EffectiveCron, Remembered
  <2>3. Near(s, t)'
    BY <2>1 DEF Near
  <2>4. CASE mem[s].fire # t
    <3>1. fired'[t] = fired[t]
      BY <1>0, <1>1, <2>4 DEF Enqueue
    <3>. QED
      BY <2>1, <2>2, <2>3, <3>1 DEF Slot, Full
  <2>5. CASE mem[s].fire = t
    <3>1. fired'[t] = fired[t] + 1
      BY <1>0, <1>1, <2>5 DEF Enqueue
    <3>2. fired[t] # Allowed
      BY <2>1, <2>5 DEF Slot, Full
    <3>3. fired'[t] <= Allowed'
      BY <1>0, <2>1, <3>1, <3>2
    <3>4. fired'[t] = Allowed' => (Gone => registry = NoRow)
      BY <1>0, <2>1, <2>5, <3>1 DEF Slot, Near
    <3>. QED
      BY <2>1, <2>2, <2>3, <2>5, <3>3, <3>4 DEF Slot, Full
  <2>. QED
    BY <2>4, <2>5
<1>2. CASE EnqueueFails(s)
  <2>1. pc[s] # "record" /\ UNCHANGED <<planVars, fired, unknown>> /\ faults' = faults + 1
    BY <1>2 DEF EnqueueFails, Interferes
  <2>. QED
    BY <2>1, Counted, AllowedGrows
<1>. QED
  BY <1>1, <1>2

\* The pass remembers what it fired, or that is counted.
LEMMA SlotRecords ==
  ASSUME TypeOK, PassInv, NEW s \in Schedulers, NEW t \in Time, Slot(s, t), fired[t] <= Allowed,
         Record(s) \/ RecordFails(s)
  PROVE  fired'[t] <= Allowed' /\ Slot(s, t)'
<1>0. pc \in [Schedulers -> PC] /\ now \in Nat /\ t \in Nat /\ unknown \in Nat /\ faults \in Nat
  BY TimesAssumption DEF TypeOK, Time
<1>1. CASE Record(s) /\ registry = NoRow
  <2>1. registry' = NoRow /\ fired' = fired /\ unknown' = unknown + 1 /\ faults' = faults
    BY <1>1 DEF Record, Recorded
  <2>2. Allowed' = Allowed + 1
    BY <1>0, <2>1 DEF Allowed
  <2>. QED
    BY <2>1, <2>2, Counted
<1>2. CASE Record(s) /\ registry # NoRow
  <2>1. /\ registry' = now /\ pc[s] = "record" /\ pc'[s] = "refresh" /\ Allowed' = Allowed
        /\ UNCHANGED <<planVars, mem, fired>>
    BY <1>0, <1>2 DEF Record, Recorded, Goes, Allowed
  <2>2. Gone' <=> Gone
    BY <2>1 DEF planVars, Gone, EffectiveCron
  <2>3. mem[s].fire = t \/ Remembered(t) => Remembered(t)'
    <3>1. mem[s].fire = t => t <= now
      BY <2>1 DEF PassInv
    <3>2. Remembered(t) => t <= now
      BY <1>0 DEF Remembered, PassInv
    <3>. QED
      BY <1>0, <2>1, <3>1, <3>2 DEF Remembered
  <2>. QED
    BY <1>2, <2>1, <2>2, <2>3 DEF Slot, Full, Near
<1>3. CASE RecordFails(s)
  <2>1. pc'[s] = "refresh" /\ UNCHANGED <<fired, unknown>> /\ faults' = faults + 1
    BY <1>0, <1>3 DEF RecordFails, Interferes, Goes, historyVars
  <2>. QED
    BY <2>1, Counted, AllowedGrows
<1>. QED
  BY <1>1, <1>2, <1>3

\* The end of the pass: the row of a slot that may not be fired again stays.
LEMMA SlotEnds ==
  ASSUME TypeOK, PassInv, NEW s \in Schedulers, NEW t \in Time, Slot(s, t), fired[t] <= Allowed,
         \/ Refresh(s) \/ RefreshFails(s) \/ Forget(s) \/ ForgetFails(s)
         \/ Reap(s) \/ ReapFails(s) \/ Crash(s) \/ Restart(s)
  PROVE  fired'[t] <= Allowed' /\ Slot(s, t)'
<1>0. pc \in [Schedulers -> PC] /\ mem \in [Schedulers -> Mem]
  BY DEF TypeOK
<1>1. CASE Refresh(s)
  <2>1. /\ pc[s] = "refresh" /\ pc'[s] = "reap" /\ mem'[s].listed = "yes" /\ Allowed' = Allowed
        /\ UNCHANGED <<planVars, fired>> /\ registry' = Upserted
    BY <1>0, <1>1 DEF Refresh, Goes, PassInv, Allowed, historyVars
  <2>2. registry \in Nat => registry' = registry
    BY <2>1, RowsAssumption DEF Upserted
  <2>. QED
    BY <2>1, <2>2, Uncounted
<1>2. CASE RefreshFails(s) \/ ForgetFails(s) \/ ReapFails(s) \/ Crash(s)
  <2>1. pc'[s] \in {"reap", "sleep", "down"} /\ UNCHANGED <<fired, unknown>> /\ faults' = faults + 1
    BY <1>0, <1>2 DEF RefreshFails, ForgetFails, ReapFails, Crash, Interferes, Goes, historyVars
  <2>. QED
    BY <2>1, Counted, AllowedGrows
<1>3. CASE Forget(s) \/ (Reap(s) /\ mem[s].listed = "no")
  <2>1. registry' = NoRow /\ fired' = fired /\ Allowed' = Allowed
    BY <1>3 DEF Forget, Reap, Reaped, historyVars, Allowed
  <2>2. fired[t] # Allowed
    BY <1>3 DEF Forget, Reap, Slot, Full
  <2>. QED
    BY <2>1, <2>2 DEF Slot, Full, Near
<1>4. CASE Reap(s) /\ mem[s].listed # "no"
  <2>1. pc[s] = "reap" /\ pc'[s] = "sleep" /\ Allowed' = Allowed /\ UNCHANGED <<planVars, registry, fired>>
    BY <1>0, <1>4 DEF Reap, Reaped, Goes, historyVars, Allowed
  <2>. QED
    BY <2>1, Uncounted
<1>5. CASE Restart(s)
  <2>1. pc[s] = "down" /\ pc'[s] = "sleep" /\ Allowed' = Allowed /\ UNCHANGED <<planVars, registry, fired>>
    BY <1>0, <1>5 DEF Restart, Goes, Allowed
  <2>. QED
    BY <2>1, Uncounted
<1>. QED
  BY <1>1, <1>2, <1>3, <1>4, <1>5

\* The rest of the world touches a slot only by changing the schedule.
LEMMA SlotWorld ==
  ASSUME TypeOK, NEW s \in Schedulers, NEW t \in Time, Slot(s, t), fired[t] <= Allowed,
         Tick \/ RunEnds \/ OperatorNext \/ UNCHANGED vars
  PROVE  fired'[t] <= Allowed' /\ Slot(s, t)'
<1>1. CASE Tick \/ RunEnds \/ UNCHANGED vars
  <2>1. UNCHANGED <<planVars, registry, pc, mem, fired, unknown, faults>>
    BY <1>1 DEF Tick, RunEnds, vars, passVars, historyVars
  <2>2. Allowed' = Allowed /\ (Gone' <=> Gone) /\ (Remembered(t)' <=> Remembered(t))
    BY <2>1 DEF planVars, Gone, EffectiveCron, Allowed, Remembered
  <2>. QED
    BY <2>1, <2>2 DEF Slot, Full, Near
<1>2. CASE OperatorNext
  <2>1. /\ registry' = NoRow \/ (registry' = registry /\ pc'[s] = pc[s] /\ mem'[s] = mem[s])
        /\ UNCHANGED <<fired, unknown>> /\ faults' = faults + 1
    BY <1>2 DEF OperatorNext, SetSchedule, UpdateManifest, Uninstall, Install, OthersChange, Interferes, passVars
  <2>. QED
    BY <2>1, Counted, AllowedGrows
<1>. QED
  BY <1>1, <1>2

\* Every step keeps every slot within what is allowed.
LEMMA SlotNext ==
  ASSUME Alone, TypeOK, Deciding, PassInv, SlotInv, [Next]_vars PROVE SlotInv'
<1>1. \A t \in Time : fired[t] <= Allowed
  BY DEF SlotInv, FiredOnceUnlessForgotten, Allowed
<1>2. ASSUME NEW s \in Schedulers, NEW t \in Time PROVE fired'[t] <= Allowed' /\ Slot(s, t)'
  <2>1. Slot(s, t) /\ fired[t] <= Allowed
    BY <1>1 DEF SlotInv
  <2>2. CASE SchedulerNext(s)
    BY <2>1, <2>2, SlotBegins, SlotDecides, SlotFires, SlotRecords, SlotEnds DEF SchedulerNext
  <2>3. CASE Tick \/ RunEnds \/ OperatorNext \/ UNCHANGED vars
    BY <2>1, <2>3, SlotWorld
  <2>. QED
    BY <2>2, <2>3 DEF Next, Alone
<1>3. CASE Schedulers = {}
  <2>1. Tick \/ RunEnds \/ OperatorNext \/ UNCHANGED vars
    BY <1>3 DEF Next
  <2>2. UNCHANGED <<fired, unknown>> /\ (faults' = faults \/ faults' = faults + 1)
    BY <2>1 DEF Tick, RunEnds, OperatorNext, SetSchedule, UpdateManifest, Uninstall, Install, OthersChange, Interferes,
                vars, historyVars
  <2>3. Allowed \in Nat /\ (Allowed' = Allowed \/ Allowed' = Allowed + 1)
    BY <2>2 DEF TypeOK, Allowed
  <2>4. \A t \in Time : fired[t] \in Nat
    BY DEF TypeOK
  <2>5. \A t \in Time : fired'[t] <= Allowed'
    BY <1>1, <2>2, <2>3, <2>4
  <2>. QED
    BY <1>3, <2>5 DEF SlotInv, FiredOnceUnlessForgotten, Allowed
<1>4. CASE Schedulers # {}
  BY <1>2, <1>4 DEF SlotInv, FiredOnceUnlessForgotten, Allowed
<1>. QED
  BY <1>3, <1>4

\* No slot is fired a second time but for an enqueue that found no row to be
\* remembered in, or an interference: whatever the crons, the intervals, the
\* order of the operators' changes and the number of passes.
THEOREM FiredOnce ==
  ASSUME Alone PROVE Spec => []FiredOnceUnlessForgotten
<1>1. Init => PassInv
  BY RowsAssumption DEF Init, PassInv
<1>2. Init => SlotInv
  <2>. SUFFICES ASSUME Init PROVE SlotInv
    OBVIOUS
  <2>1. Allowed = 1 /\ \A t \in Time : fired[t] = 0
    BY DEF Init, Allowed
  <2>2. registry = NoRow /\ \A s \in Schedulers : pc[s] = "sleep"
    BY DEF Init
  <2>. QED
    BY <2>1, <2>2 DEF SlotInv, Slot, Full, Near, FiredOnceUnlessForgotten, Allowed
<1>3. TypeOK /\ Deciding /\ PassInv /\ [Next]_vars => PassInv'
  BY PassNext
<1>4. TypeOK /\ Deciding /\ PassInv /\ SlotInv /\ [Next]_vars => SlotInv'
  BY SlotNext
<1>5. SlotInv => FiredOnceUnlessForgotten
  BY DEF SlotInv
<1>. QED
  BY TypeCorrect, <1>1, <1>2, <1>3, <1>4, <1>5, PTL DEF Spec

-----------------------------------------------------------------------------
(* What is uninstalled is forgotten *)

\* The clock waits for a scheduler: for the next pass of one that sleeps, and
\* for the end of a pass.
Clocked ==
  /\ steady <= now
  /\ \A s \in Schedulers :
       /\ started[s] <= now
       /\ Asleep(s) => now <= started[s] + PollInterval + Jitter
       /\ InPass(s) => now <= started[s] + Slack

\* With the plugin gone and another one there, only a pass that began before
\* that takes the plugin for installed, and may put back a row, or has an empty
\* list; while there is a row, nobody has begun a pass since that could have
\* finished.
Leftover(s) ==
  ~ installed /\ others =>
    /\ InPass(s) /\ mem[s].listed # "no" => started[s] <= steady
    /\ registry # NoRow /\ Asleep(s) => started[s] <= steady + Slack
    /\ registry # NoRow /\ InPass(s) => started[s] <= steady + Slack + PollInterval + Jitter

ForgetInv == Clocked /\ \A s \in Schedulers : Leftover(s)

\* What the steps of one scheduler leave alone.
LEMMA OnlyOne ==
  ASSUME TypeOK, NEW s \in Schedulers, SchedulerNext(s)
  PROVE  /\ now' = now /\ installed' = installed /\ others' = others /\ steady' \in {steady, now}
         /\ \A r \in Schedulers \ {s} :
              pc'[r] = pc[r] /\ mem'[r] = mem[r] /\ started'[r] = started[r]
<1>0. /\ pc \in [Schedulers -> PC] /\ mem \in [Schedulers -> Mem]
      /\ started \in [Schedulers -> Time]
  BY DEF TypeOK
<1>1. CASE \/ \E cron \in Crons \cup {NoCron, BadCron} : Begin(s, cron)
           \/ ListFails(s) \/ Decide(s) \/ DecideBlind(s)
  BY <1>0, <1>1 DEF Begin, CronRead, ListFails, Decide, DecideBlind, DecideOn, Goes, planVars,
                    historyVars
<1>2. CASE \/ Check(s) \/ CheckFails(s) \/ Enqueue(s) \/ EnqueueFails(s)
           \/ Record(s) \/ RecordFails(s)
  BY <1>0, <1>2 DEF Check, CheckFails, Enqueue, EnqueueFails, Record, RecordFails, Goes, planVars,
                    historyVars
<1>3. CASE Refresh(s) \/ RefreshFails(s) \/ Forget(s) \/ ForgetFails(s)
  BY <1>0, <1>3 DEF Refresh, RefreshFails, Forget, ForgetFails, Goes, planVars, historyVars
<1>4. CASE Reap(s) \/ ReapFails(s) \/ Crash(s) \/ Restart(s)
  BY <1>0, <1>4 DEF Reap, ReapFails, Crash, Restart, Goes, planVars, historyVars
<1>. QED
  BY <1>1, <1>2, <1>3, <1>4 DEF SchedulerNext

\* Where a step leaves its scheduler: at the start of a pass, asleep because
\* plugin_registry could not be read or because PM2 restarted it, dead, at a
\* later place of its pass, or at the end of it.
LEMMA Places ==
  ASSUME TypeOK, PassInv, NEW s \in Schedulers, SchedulerNext(s)
  PROVE  \/ /\ Asleep(s) /\ started'[s] = now /\ registry' = registry
            /\ InPass(s)' /\ (mem'[s].listed # "no" => installed \/ ~ others)
         \/ Asleep(s) /\ Asleep(s)' /\ started'[s] = now /\ steady' = now
         \/ /\ Asleep(s)' /\ now >= PollInterval /\ started'[s] = now - PollInterval
            /\ steady' = now /\ pc[s] = "down"
         \/ pc'[s] = "down" /\ registry' = registry
         \/ /\ InPass(s) /\ InPass(s)' /\ started'[s] = started[s]
            /\ mem'[s].listed = mem[s].listed /\ mem[s].listed = "yes"
         \/ /\ InPass(s) /\ Asleep(s)' /\ started'[s] = started[s]
            /\ \/ registry' = NoRow
               \/ mem[s].listed # "no" /\ registry' = registry
               \/ steady' = now /\ registry' = registry
<1>0. /\ pc \in [Schedulers -> PC] /\ mem \in [Schedulers -> Mem]
      /\ started \in [Schedulers -> Time]
  BY DEF TypeOK
<1>1. ASSUME NEW cron \in Crons \cup {NoCron, BadCron}, Begin(s, cron)
      PROVE  /\ Asleep(s) /\ started'[s] = now /\ registry' = registry
             /\ InPass(s)' /\ (mem'[s].listed # "no" => installed \/ ~ others)
  BY <1>0, <1>1 DEF Begin, Goes, InPass, Mem
<1>2. CASE ListFails(s)
  BY <1>0, <1>2 DEF ListFails, Asleep
<1>3. CASE Decide(s) \/ DecideBlind(s)
  <2>1. InPass(s) /\ InPass(s)' /\ started'[s] = started[s]
    BY <1>0, <1>3 DEF Decide, DecideBlind, DecideOn, Goes, InPass
  <2>2. mem'[s].listed = mem[s].listed /\ mem[s].listed = "yes"
    BY <1>0, <1>3 DEF Decide, DecideBlind, DecideOn, PassInv, Mem
  <2>. QED
    BY <2>1, <2>2
<1>4. CASE \/ Check(s) \/ CheckFails(s) \/ Enqueue(s) \/ EnqueueFails(s)
           \/ Record(s) \/ RecordFails(s)
  BY <1>0, <1>4 DEF Check, CheckFails, Enqueue, EnqueueFails, Record, RecordFails, Goes, InPass,
                    PassInv
<1>5. CASE Refresh(s) \/ RefreshFails(s) \/ Forget(s) \/ ForgetFails(s)
  BY <1>0, <1>5 DEF Refresh, RefreshFails, Forget, ForgetFails, Goes, InPass, PassInv
<1>6. CASE Reap(s) \/ ReapFails(s)
  <2>1. InPass(s) /\ Asleep(s)' /\ started'[s] = started[s]
    BY <1>0, <1>6 DEF Reap, ReapFails, Goes, InPass, Asleep
  <2>2. \/ registry' = NoRow
        \/ mem[s].listed # "no" /\ registry' = registry
        \/ steady' = now /\ registry' = registry
    BY <1>6 DEF Reap, ReapFails, Reaped
  <2>. QED
    BY <2>1, <2>2
<1>7. CASE Crash(s)
  BY <1>0, <1>7 DEF Crash, Goes
<1>8. CASE Restart(s)
  BY <1>0, <1>8 DEF Restart, Goes, Asleep
<1>. QED
  BY <1>1, <1>2, <1>3, <1>4, <1>5, <1>6, <1>7, <1>8 DEF SchedulerNext

\* A row is put back by a pass that takes the plugin for installed.
LEMMA PutBack ==
  ASSUME TypeOK, PassInv, NEW s \in Schedulers, SchedulerNext(s), registry = NoRow
  PROVE  registry' = NoRow \/ (InPass(s) /\ InPass(s)' /\ mem[s].listed = "yes")
<1>0. pc \in [Schedulers -> PC]
  BY DEF TypeOK
<1>1. CASE Refresh(s)
  BY <1>0, <1>1 DEF Refresh, Goes, InPass, PassInv
<1>2. CASE ~ Refresh(s)
  BY <1>2 DEF SchedulerNext, Begin, ListFails, Decide, DecideBlind, Check, CheckFails, Enqueue,
     EnqueueFails, Record, RecordFails, RefreshFails, Forget, ForgetFails, Reap, ReapFails, Crash,
     Restart, Recorded, Reaped
<1>. QED
  BY <1>1, <1>2

\* A step of a scheduler keeps what is known of a plugin that is gone.
LEMMA ForgetStep ==
  ASSUME TypeOK, PassInv, ForgetInv, NEW s \in Schedulers, SchedulerNext(s)
  PROVE  ForgetInv'
<1>0. /\ now \in Nat /\ steady \in Nat /\ started \in [Schedulers -> Nat]
      /\ {PollInterval, Jitter, Slack} \subseteq Nat /\ PollInterval > Slack
  BY TimesAssumption DEF TypeOK, Time
<1>1. /\ now' = now /\ installed' = installed /\ others' = others /\ steady' \in {steady, now}
      /\ \A r \in Schedulers \ {s} :
           pc'[r] = pc[r] /\ mem'[r] = mem[r] /\ started'[r] = started[r]
  BY OnlyOne
<1>2. /\ steady <= now /\ steady <= steady' /\ steady' <= now /\ steady' \in Nat
  BY <1>0, <1>1 DEF ForgetInv, Clocked
<1>3. started[s] \in Nat /\ Clocked
  BY <1>0 DEF ForgetInv
<1>4. /\ started[s] <= now
      /\ Asleep(s) => now <= started[s] + PollInterval + Jitter
      /\ InPass(s) => now <= started[s] + Slack
  BY <1>3 DEF Clocked
<1>5. /\ started'[s] \in Nat /\ started'[s] <= now
      /\ Asleep(s)' => now <= started'[s] + PollInterval + Jitter
      /\ InPass(s)' => now <= started'[s] + Slack
  <2>1. CASE started'[s] = now
    BY <1>0, <2>1
  <2>2. CASE Asleep(s)' /\ now >= PollInterval /\ started'[s] = now - PollInterval
    BY <1>0, <2>2 DEF Asleep, InPass
  <2>3. CASE pc'[s] = "down"
    <3>1. started'[s] \in {started[s], now} \/ (now >= PollInterval /\ started'[s] = now - PollInterval)
      BY <1>0 DEF SchedulerNext, Begin, ListFails, Decide, DecideBlind, Check, CheckFails, Enqueue,
         EnqueueFails, Record, RecordFails, Refresh, RefreshFails, Forget, ForgetFails, Reap,
         ReapFails, Crash, Restart
    <3>. QED
      BY <1>0, <1>4, <2>3, <3>1 DEF Asleep, InPass
  <2>4. CASE InPass(s) /\ InPass(s)' /\ started'[s] = started[s]
    BY <1>3, <1>4, <2>4 DEF Asleep, InPass
  <2>5. CASE InPass(s) /\ Asleep(s)' /\ started'[s] = started[s]
    BY <1>0, <1>3, <1>4, <2>5 DEF Asleep, InPass
  <2>. QED
    BY <2>1, <2>2, <2>3, <2>4, <2>5, Places
<1>6. Clocked'
  <2>1. ASSUME NEW r \in Schedulers, r # s
        PROVE  /\ started[r] <= now
               /\ Asleep(r)' => now <= started[r] + PollInterval + Jitter
               /\ InPass(r)' => now <= started[r] + Slack
    BY <1>1, <2>1 DEF ForgetInv, Clocked, Asleep, InPass
  <2>. QED
    BY <1>1, <1>2, <1>5, <2>1 DEF Clocked, Asleep, InPass
<1>7. ASSUME NEW r \in Schedulers, ~ installed, others PROVE Leftover(r)'
  <2>0. started[r] \in Nat /\ started[r] <= now /\ Leftover(r) /\ Leftover(s)
    BY <1>0 DEF ForgetInv, Clocked
  <2>1. CASE registry = NoRow /\ registry' # NoRow
    <3>1. InPass(s) /\ InPass(s)' /\ mem[s].listed = "yes" /\ started[s] <= steady
      BY <1>7, <2>0, <2>1, PutBack DEF Leftover
    <3>2. now <= steady' + Slack
      BY <1>0, <1>2, <1>3, <1>4, <3>1
    <3>3. CASE r = s
      <4>1. started'[s] = started[s] \/ pc'[s] = "down"
        BY <3>1, Places DEF Asleep, InPass
      <4>2. started'[s] = started[s]
        BY <3>1, <4>1 DEF InPass
      <4>. QED
        BY <1>0, <1>2, <1>3, <3>1, <3>3, <4>2 DEF Leftover, Asleep, InPass
    <3>4. CASE r # s
      <4>1. InPass(r)' /\ mem'[r].listed # "no" => started[r] <= steady
        BY <1>1, <1>7, <2>0, <3>4 DEF Leftover, InPass
      <4>. QED
        BY <1>0, <1>1, <1>2, <2>0, <3>2, <3>4, <4>1 DEF Leftover
    <3>. QED
      BY <3>3, <3>4
  <2>2. CASE registry' = NoRow \/ registry # NoRow
    <3>1. CASE r # s
      BY <1>0, <1>1, <1>2, <1>7, <2>0, <2>2, <3>1 DEF Leftover, Asleep, InPass
    <3>2. CASE r = s
      <4>1. CASE Asleep(s) /\ started'[s] = now /\ InPass(s)' /\ (mem'[s].listed # "no" => installed \/ ~ others)
        <5>1. registry # NoRow => now <= steady + Slack + PollInterval + Jitter
          BY <1>0, <1>3, <1>4, <1>7, <2>0, <3>2, <4>1 DEF Leftover
        <5>. QED
          BY <1>0, <1>2, <1>7, <2>2, <3>2, <4>1, <5>1 DEF Leftover, Asleep, InPass
      <4>2. CASE Asleep(s)' /\ steady' = now
        BY <1>0, <1>5, <3>2, <4>2 DEF Leftover, Asleep, InPass
      <4>3. CASE pc'[s] = "down"
        BY <3>2, <4>3 DEF Leftover, Asleep, InPass
      <4>4. CASE InPass(s) /\ InPass(s)' /\ started'[s] = started[s] /\ mem[s].listed # "no"
        BY <1>0, <1>2, <1>3, <1>7, <2>0, <3>2, <4>4 DEF Leftover, Asleep, InPass
      <4>5. CASE InPass(s) /\ Asleep(s)' /\ started'[s] = started[s] /\ mem[s].listed # "no"
        BY <1>0, <1>2, <1>3, <1>7, <2>0, <3>2, <4>5 DEF Leftover, Asleep, InPass
      <4>6. CASE Asleep(s)' /\ registry' = NoRow
        BY <3>2, <4>6 DEF Leftover, Asleep, InPass
      <4>. QED
        BY <4>1, <4>2, <4>3, <4>4, <4>5, <4>6, Places
    <3>. QED
      BY <3>1, <3>2
  <2>. QED
    BY <2>1, <2>2
<1>. QED
  BY <1>1, <1>6, <1>7 DEF ForgetInv, Leftover

\* So does the rest of the world: an uninstall takes the row away, and it or
\* the coming of another plugin finds every pass under way begun before it.
LEMMA ForgetNext ==
  ASSUME TypeOK, PassInv, ForgetInv, [Next]_vars PROVE ForgetInv'
<1>0. /\ now \in Nat /\ steady \in Nat /\ started \in [Schedulers -> Nat] /\ installed \in BOOLEAN
      /\ {PollInterval, Jitter, Slack} \subseteq Nat
  BY TimesAssumption DEF TypeOK, Time
<1>1. CASE Tick
  <2>1. UNCHANGED <<planVars, registry, passVars, steady>> /\ now' = now + 1
    BY <1>1 DEF Tick, historyVars
  <2>2. ASSUME NEW s \in Schedulers
        PROVE  /\ started[s] <= now + 1
               /\ Asleep(s) => now + 1 <= started[s] + PollInterval + Jitter
               /\ InPass(s) => now + 1 <= started[s] + Slack
    <3>1. started[s] \in Nat /\ started[s] <= now
      BY <1>0 DEF ForgetInv, Clocked
    <3>2. /\ Asleep(s) => now < started[s] + PollInterval + Jitter
          /\ InPass(s) => now < started[s] + Slack
      BY <1>1 DEF Tick
    <3>. QED
      BY <1>0, <3>1, <3>2
  <2>3. steady <= now + 1
    BY <1>0 DEF ForgetInv, Clocked
  <2>. QED
    BY <2>1, <2>2, <2>3 DEF ForgetInv, Clocked, Leftover, Asleep, InPass, planVars, passVars
<1>2. CASE OperatorNext
  <2>1. /\ UNCHANGED <<now, passVars>> /\ steady' = now
    BY <1>0, <1>2 DEF OperatorNext, SetSchedule, UpdateManifest, Uninstall, Install, OthersChange
  <2>2. \A s \in Schedulers : started[s] <= now
    BY DEF ForgetInv, Clocked
  <2>. QED
    BY <1>0, <2>1, <2>2 DEF ForgetInv, Clocked, Leftover, Asleep, InPass, passVars
<1>3. CASE RunEnds \/ UNCHANGED vars
  BY <1>3 DEF RunEnds, vars, planVars, passVars, historyVars, ForgetInv, Clocked, Leftover, Asleep,
              InPass
<1>. QED
  BY <1>1, <1>2, <1>3, ForgetStep DEF Next

\* The model begins with no row.
LEMMA ForgetInit == Init => ForgetInv
<1>. SUFFICES ASSUME Init PROVE ForgetInv
  OBVIOUS
<1>1. /\ now \in Nat /\ steady = now /\ registry = NoRow
      /\ \A s \in Schedulers : pc[s] = "sleep" /\ started[s] = now
  BY StartAssumption DEF Init
<1>2. {PollInterval, Jitter, Slack} \subseteq Nat
  BY TimesAssumption
<1>3. \A s \in Schedulers : Leftover(s)
  BY <1>1 DEF Leftover, InPass
<1>. QED
  BY <1>1, <1>2, <1>3 DEF ForgetInv, Clocked, InPass

\* Whatever passes were under way, failed or died, two passes after an
\* uninstall no row of the plugin is left, if another plugin is installed; for
\* any number of schedulers, if there is one.
THEOREM Forgotten ==
  ASSUME Schedulers # {} PROVE Spec => []UninstalledIsForgotten
<1>1. Init => PassInv
  BY RowsAssumption DEF Init, PassInv
<1>2. Init => ForgetInv
  BY ForgetInit
<1>3. TypeOK /\ Deciding /\ PassInv /\ [Next]_vars => PassInv'
  BY PassNext
<1>4. TypeOK /\ PassInv /\ ForgetInv /\ [Next]_vars => ForgetInv'
  BY ForgetNext
<1>5. TypeOK /\ ForgetInv => UninstalledIsForgotten
  <2>. SUFFICES ASSUME TypeOK, ForgetInv, ~ installed, others,
                       \A s \in Schedulers : pc[s] # "down",
                       now > steady + 2 * ByNextPass, registry # NoRow
                PROVE  FALSE
    BY DEF UninstalledIsForgotten
  <2>1. PICK s \in Schedulers : TRUE
    OBVIOUS
  <2>2. /\ now \in Nat /\ steady \in Nat /\ started[s] \in Nat
        /\ PollInterval \in Nat /\ Jitter \in Nat /\ Slack \in Nat
    BY TimesAssumption DEF TypeOK, Time
  <2>3. CASE Asleep(s)
    <3>1. now <= started[s] + PollInterval + Jitter /\ started[s] <= steady + Slack
      BY <2>3 DEF ForgetInv, Clocked, Leftover
    <3>. QED
      BY <2>2, <3>1 DEF ByNextPass
  <2>4. CASE InPass(s)
    <3>1. /\ now <= started[s] + Slack
          /\ started[s] <= steady + Slack + PollInterval + Jitter
      BY <2>4 DEF ForgetInv, Clocked, Leftover
    <3>. QED
      BY <2>2, <3>1 DEF ByNextPass
  <2>. QED
    BY <2>3, <2>4 DEF Asleep, InPass
<1>. QED
  BY TypeCorrect, <1>1, <1>2, <1>3, <1>4, <1>5, PTL DEF Spec

-----------------------------------------------------------------------------
(* No slot goes by *)

\* Slot t of the plugin's schedule has come since the schedule or the
\* scheduler last changed, and before the pass that is under way, or the last
\* one, began.
Came(s, t) ==
  /\ installed /\ EffectiveCron \in Crons /\ t % Period[EffectiveCron] = 0
  /\ steady < t /\ t <= started[s]

\* It was fired or skipped, or counts as fired.
DealtWith(t) == t <= decided + Slack

\* The row keeps it back for the window's sake.
HeldBack(t) == registry \in Nat /\ registry < t /\ t < registry + Window

\* After a pass: one that began at the very slot may have found a cold row,
\* and the first one after it a row too recent.
AfterPass(s, t) ==
  \/ DealtWith(t)
  \/ started[s] = t /\ registry \notin Nat
  \/ started[s] <= t + PollInterval + Jitter /\ HeldBack(t)

\* In a pass that is yet to act: it is in time for a cold row, or the row
\* that kept the slot back in the pass before no longer does.
BeforeActing(s, t) ==
  \/ DealtWith(t)
  \/ started[s] <= t + PollInterval + Jitter
  \/ /\ HeldBack(t) /\ registry + Window <= started[s]
     /\ started[s] <= t + 2 * (PollInterval + Jitter)

Passing(s, t) ==
  Came(s, t) =>
    /\ InPass(s) => mem[s].listed = "yes" /\ pc[s] # "forget"
    /\ pc[s] = "decide" => mem[s].cron = EffectiveCron
    /\ pc[s] \in {"decide", "check", "enqueue"} => BeforeActing(s, t)
    /\ pc[s] \in {"record", "refresh", "reap", "sleep"} => AfterPass(s, t)

\* The row's time is that of a record, in the pass of the enqueue.
Recent ==
  /\ decided <= now
  /\ registry \in Nat => registry <= decided + Slack
  /\ \A s \in Schedulers : pc[s] = "record" => started[s] <= decided

PassingInv == Recent /\ \A s \in Schedulers, t \in Time : Passing(s, t)

\* Multiples keep the order of their factors.
LEMMA MultiplesOrdered ==
  ASSUME NEW p \in Nat, NEW a \in Nat, NEW b \in Nat, a <= b PROVE a * p <= b * p
<1>1. b - a \in Nat /\ (b - a) * p \in Nat
  OBVIOUS
<1>2. b * p = a * p + (b - a) * p
  OBVIOUS
<1>. QED
  BY <1>1, <1>2

\* A slot after some time is no earlier than get_next of it, and a slot
\* before some time no later than get_prev of it.
LEMMA SlotsAround ==
  ASSUME NEW c \in Crons, NEW t \in Nat, t % Period[c] = 0, NEW u \in Nat
  PROVE  /\ u < t => NextSlot(c, u) <= t
         /\ t < u => PrevSlot(c, u) >= t
<1>. DEFINE p == Period[c]
            q == t \div p
<1>1. p \in Nat /\ p > 0
  BY CronsAssumption
<1>2. q \in Nat /\ t = q * p
  BY <1>1
<1>. HIDE DEF p, q
<1>3. ASSUME u < t PROVE NextSlot(c, u) <= t
  <2>. DEFINE k == u \div p
  <2>1. k \in Nat /\ k * p <= u
    BY <1>1, Multiples
  <2>. HIDE DEF k
  <2>2. k < q
    <3>. SUFFICES ASSUME q <= k PROVE FALSE
      BY <1>2, <2>1
    <3>1. q * p <= k * p
      BY <1>1, <1>2, <2>1, MultiplesOrdered
    <3>2. k * p \in Nat /\ q * p \in Nat
      BY <1>1, <1>2, <2>1
    <3>. QED
      BY <1>2, <1>3, <2>1, <3>1, <3>2
  <2>3. (k + 1) * p <= q * p
    BY <1>1, <1>2, <2>1, <2>2, MultiplesOrdered
  <2>. QED
    BY <1>2, <2>3 DEF NextSlot, k, p
<1>4. ASSUME t < u PROVE PrevSlot(c, u) >= t
  <2>. DEFINE k == (u - 1) \div p
  <2>0. u - 1 \in Nat /\ t <= u - 1
    BY <1>4
  <2>1. k \in Nat /\ (k + 1) * p > u - 1 /\ (k + 1) * p \in Nat
    BY <1>1, <2>0, Multiples
  <2>. HIDE DEF k
  <2>2. q <= k
    <3>. SUFFICES ASSUME k + 1 <= q PROVE FALSE
      BY <1>2, <2>1
    <3>1. (k + 1) * p <= q * p
      BY <1>1, <1>2, <2>1, MultiplesOrdered
    <3>. QED
      BY <1>2, <2>0, <2>1, <3>1
  <2>3. q * p <= k * p
    BY <1>1, <1>2, <2>1, <2>2, MultiplesOrdered
  <2>4. k * p \in Nat
    BY <1>1, <2>1
  <2>. QED
    BY <1>2, <2>3, <2>4 DEF PrevSlot, k, p
<1>. QED
  BY <1>3, <1>4

\* A scheduler changes neither the schedule nor what is installed.
LEMMA PlanStays ==
  ASSUME NEW s \in Schedulers, SchedulerNext(s) PROVE UNCHANGED planVars
  BY DEF SchedulerNext, Begin, ListFails, Decide, DecideBlind, Check, CheckFails, Enqueue,
     EnqueueFails, Record, RecordFails, Refresh, RefreshFails, Forget, ForgetFails, Reap,
     ReapFails, Crash, Restart

\* What lies within some slack of a time lies within it of a later one.
LEMMA Later ==
  ASSUME NEW x \in Nat, NEW d \in Nat, NEW e \in Nat, NEW k \in Nat, x <= d + k, d <= e
  PROVE  x <= e + k
  OBVIOUS

\* The row's time is never far ahead of the last decision.
LEMMA RecentNext ==
  ASSUME Alone, TypeOK, Clocked, Recent, [Next]_vars PROVE Recent'
<1>0. /\ now \in Nat /\ decided \in Nat /\ Slack \in Nat /\ started \in [Schedulers -> Nat]
      /\ pc \in [Schedulers -> PC] /\ registry \in Nat \cup {NoRow, Null}
      /\ decided <= now /\ (registry \in Nat => registry <= decided + Slack)
  BY TimesAssumption DEF TypeOK, Time, Recent
<1>1. ASSUME NEW s \in Schedulers, SchedulerNext(s) PROVE Recent'
  <2>0. /\ now' = now /\ started[s] \in Nat /\ started[s] <= now
        /\ InPass(s) => now <= started[s] + Slack
        /\ pc[s] = "record" => started[s] <= decided
        /\ \A r \in Schedulers : r = s
    BY <1>0, <1>1, OnlyOne DEF Clocked, Alone, Recent
  <2>1. CASE Check(s) \/ Enqueue(s)
    <3>1. /\ decided' = decided \/ decided' = now
          /\ registry' = registry /\ started' = started
          /\ pc'[s] = "record" => decided' = now
      BY <1>0, <2>1 DEF Check, Enqueue, Goes
    <3>2. decided' \in Nat /\ decided <= decided'
      BY <1>0, <3>1
    <3>3. decided' <= now
      BY <1>0, <3>1
    <3>4. ASSUME registry' \in Nat PROVE registry' <= decided' + Slack
      <4>1. registry' <= decided + Slack
        BY <1>0, <3>1, <3>4
      <4>2. decided \in Nat /\ Slack \in Nat
        BY <1>0
      <4>. QED
        BY <3>2, <3>4, <4>1, <4>2, Later
    <3>5. pc'[s] = "record" => started'[s] <= decided'
      BY <2>0, <3>1
    <3>. QED
      BY <2>0, <3>4, <3>5, <3>3 DEF Recent
  <2>2. CASE Record(s)
    <3>1. /\ decided' = decided /\ registry' \in {NoRow, now} /\ pc[s] = "record"
          /\ pc'[s] = "refresh"
      BY <1>0, <2>2 DEF Record, Recorded, Goes
    <3>2. now <= decided + Slack
      BY <1>0, <2>0, <3>1 DEF InPass
    <3>. QED
      BY <1>0, <2>0, <3>1, <3>2, RowsAssumption DEF Recent
  <2>3. CASE ~ (Check(s) \/ Enqueue(s) \/ Record(s))
    <3>1. decided' = decided /\ registry' \in {registry, NoRow, Null}
      BY <1>1, <2>3 DEF SchedulerNext, Begin, ListFails, Decide, DecideBlind, CheckFails,
         EnqueueFails, RecordFails, Refresh, RefreshFails, Forget, ForgetFails, Reap, ReapFails,
         Crash, Restart, historyVars, Upserted, Reaped
    <3>2. pc'[s] # "record"
      BY <1>0, <1>1, <2>3 DEF SchedulerNext, Begin, ListFails, Decide, DecideBlind, DecideOn,
         CheckFails, EnqueueFails, RecordFails, Refresh, RefreshFails, Forget, ForgetFails, Reap,
         ReapFails, Crash, Restart, Goes, Asleep
    <3>. QED
      BY <1>0, <2>0, <3>1, <3>2, RowsAssumption DEF Recent
  <2>. QED
    BY <2>1, <2>2, <2>3
<1>2. CASE Tick
  <2>1. UNCHANGED <<registry, pc, started, decided>> /\ now' = now + 1
    BY <1>2 DEF Tick, passVars, historyVars
  <2>. QED
    BY <1>0, <2>1 DEF Recent
<1>3. CASE RunEnds \/ OperatorNext \/ UNCHANGED vars
  <2>1. /\ UNCHANGED <<now, pc, started, decided>>
        /\ registry' = registry \/ registry' = NoRow
    BY <1>3 DEF RunEnds, OperatorNext, SetSchedule, UpdateManifest, Uninstall, Install, OthersChange, vars,
                passVars, historyVars
  <2>. QED
    BY <1>0, <2>1, RowsAssumption DEF Recent
<1>. QED
  BY <1>1, <1>2, <1>3 DEF Next

\* A slot that has come in a step of the scheduler has come in a pass that
\* the step did not lose.
LEMMA CameBy ==
  ASSUME TypeOK, Clocked, NEW s \in Schedulers, NEW t \in Time, Clocked', SchedulerNext(s),
         Came(s, t)'
  PROVE  /\ steady' = steady /\ steady' # now /\ t <= now
         /\ EffectiveCron' = EffectiveCron
         /\ t <= started[s] => Came(s, t)
<1>1. UNCHANGED planVars
  BY PlanStays
<1>2. now' = now /\ steady' \in {steady, now} /\ started'[s] <= now
  BY OnlyOne DEF Clocked
<1>3. steady' < t /\ t <= started'[s]
  BY DEF Came
<1>4. now \in Nat /\ t \in Nat /\ steady \in Nat
  BY TimesAssumption DEF TypeOK, Time
<1>5. started'[s] \in Nat
  <2>1. started[s] \in Nat
    BY TimesAssumption DEF TypeOK, Time
  <2>2. \/ started'[s] \in {started[s], now}
        \/ now >= PollInterval /\ started'[s] = now - PollInterval
    BY DEF TypeOK, SchedulerNext, Begin, ListFails, Decide, DecideBlind, Check, CheckFails,
       Enqueue, EnqueueFails, Record, RecordFails, Refresh, RefreshFails, Forget, ForgetFails,
       Reap, ReapFails, Crash, Restart
  <2>. QED
    BY <1>4, <2>1, <2>2, TimesAssumption
<1>6. t <= now /\ steady' # now
  BY <1>2, <1>3, <1>4, <1>5
<1>. QED
  BY <1>1, <1>2, <1>3, <1>6 DEF Came, EffectiveCron, planVars

\* A pass that begins at the slot or later is in time for it.
LEMMA PassingBegins ==
  ASSUME Window <= PollInterval, TypeOK, Clocked, NEW s \in Schedulers, NEW t \in Time,
         Passing(s, t), NEW cron \in Crons \cup {NoCron, BadCron}, Begin(s, cron),
         Came(s, t)', t <= started[s] => Came(s, t), steady' # now, EffectiveCron' = EffectiveCron
  PROVE  Passing(s, t)'
<1>0. /\ pc \in [Schedulers -> PC] /\ mem \in [Schedulers -> Mem] /\ now \in Nat /\ t \in Nat
      /\ started \in [Schedulers -> Nat] /\ registry \in Nat \cup {NoRow, Null}
      /\ {PollInterval, Jitter, Slack, Window} \subseteq Nat
  BY TimesAssumption DEF TypeOK, Time
<1>1. /\ pc[s] = "sleep" /\ now >= started[s] + PollInterval /\ started'[s] = now
      /\ cron = EffectiveCron /\ UNCHANGED <<registry, decided, installed>>
  BY <1>0 DEF Begin, Asleep, CronRead, planVars
<1>2. pc'[s] = "decide" /\ mem'[s].listed = "yes" /\ mem'[s].cron = EffectiveCron
  BY <1>0, <1>1, CronsAssumption DEF Begin, Goes, Mem, Came
<1>3. now <= started[s] + PollInterval + Jitter /\ started[s] \in Nat
  BY <1>0, <1>1 DEF Clocked, Asleep
<1>4. BeforeActing(s, t)'
  <2>1. CASE started[s] < t
    <3>1. started'[s] <= t + PollInterval + Jitter
      BY <1>0, <1>1, <1>3, <2>1
    <3>. QED
      BY <3>1 DEF BeforeActing
  <2>2. CASE t <= started[s]
    <3>1. AfterPass(s, t)
      BY <1>1, <2>2 DEF Passing
    <3>2. CASE DealtWith(t)
      BY <1>1, <3>2 DEF BeforeActing, DealtWith
    <3>3. CASE started[s] = t
      BY <1>1, <1>3, <3>3 DEF BeforeActing
    <3>4. CASE started[s] <= t + PollInterval + Jitter /\ HeldBack(t)
      <4>1. registry \in Nat /\ registry < t
        BY <3>4 DEF HeldBack
      <4>2. registry + Window <= now /\ now <= t + 2 * (PollInterval + Jitter)
        BY <1>0, <1>1, <1>3, <2>2, <3>4, <4>1
      <4>. QED
        BY <1>1, <3>4, <4>2 DEF BeforeActing, HeldBack
    <3>. QED
      BY <3>1, <3>2, <3>3, <3>4 DEF AfterPass
  <2>. QED
    BY <1>0, <1>3, <2>1, <2>2
<1>. QED
  BY <1>2, <1>4 DEF Passing

\* The decision takes the slot up, unless it has been dealt with, comes this
\* very moment, or is kept back.
LEMMA PassingDecides ==
  ASSUME TypeOK, Clocked, Recent, NEW s \in Schedulers, NEW t \in Time, Passing(s, t),
         Decide(s), Came(s, t), EffectiveCron' = EffectiveCron
  PROVE  Passing(s, t)'
<1>0. /\ pc \in [Schedulers -> PC] /\ mem \in [Schedulers -> Mem] /\ now \in Nat /\ t \in Nat
      /\ started \in [Schedulers -> Nat] /\ registry \in Nat \cup {NoRow, Null} /\ decided \in Nat
      /\ {PollInterval, Jitter, Slack, Window} \subseteq Nat
  BY TimesAssumption DEF TypeOK, Time
<1>. DEFINE c == EffectiveCron
            fire == NextFire(c, registry, now)
<1>1. /\ pc[s] = "decide" /\ mem[s].cron = c /\ mem[s].listed = "yes" /\ BeforeActing(s, t)
      /\ c \in Crons /\ t % Period[c] = 0 /\ t <= started[s]
  BY DEF Decide, Passing, Came, InPass
<1>2. /\ started[s] \in Nat /\ started[s] <= now /\ now <= started[s] + Slack
  BY <1>0, <1>1 DEF Clocked, InPass
<1>3. /\ UNCHANGED <<registry, decided, started>> /\ mem'[s].listed = "yes"
      /\ \/ pc'[s] = "check"
         \/ pc'[s] = "refresh" /\ ~ Due(fire, registry, now)
  BY <1>0, <1>1 DEF Decide, DecideOn, Goes, Mem, historyVars
<1>. HIDE DEF c
<1>4. CASE pc'[s] = "check"
  BY <1>1, <1>3, <1>4 DEF Passing, BeforeActing, DealtWith, HeldBack
<1>5. CASE ~ Due(fire, registry, now)
  <2>1. AfterPass(s, t)
    <3>1. CASE registry \in Nat
      <4>1. CASE t <= registry
        BY <1>0, <3>1, <4>1 DEF Recent, AfterPass, DealtWith
      <4>2. CASE registry < t
        <5>1. fire = NextSlot(c, registry) /\ fire \in Nat /\ fire <= t
          BY <1>0, <1>1, <3>1, <4>2, NextSlotIsLater, SlotsAround DEF NextFire
        <5>2. now - registry < Window
          BY <1>0, <1>1, <1>2, <1>5, <3>1, <5>1 DEF Due
        <5>3. HeldBack(t) /\ ~ (registry + Window <= started[s])
          BY <1>0, <1>1, <1>2, <3>1, <4>2, <5>2 DEF HeldBack
        <5>. QED
          BY <1>1, <5>3 DEF BeforeActing, AfterPass
      <4>. QED
        BY <1>0, <3>1, <4>1, <4>2
    <3>2. CASE registry \notin Nat
      <4>1. CASE started[s] = t
        BY <3>2, <4>1 DEF AfterPass
      <4>2. CASE t < now /\ started[s] <= t + PollInterval + Jitter
        <5>1. PrevSlot(c, now) \in Nat /\ t <= PrevSlot(c, now) /\ PrevSlot(c, now) < now
          BY <1>0, <1>1, <4>2, PrevSlotIsEarlier, SlotsAround
        <5>2. now - PrevSlot(c, now) <= Grace
          BY <1>0, <1>2, <4>2, <5>1 DEF Grace
        <5>3. fire = PrevSlot(c, now)
          BY <1>0, <3>2, <4>2, <5>2 DEF NextFire, HasPrev
        <5>. QED
          BY <1>0, <1>5, <3>2, <5>1, <5>3 DEF Due
      <4>3. CASE t < now /\ ~ (started[s] <= t + PollInterval + Jitter)
        BY <1>1, <3>2, <4>3 DEF BeforeActing, HeldBack, AfterPass
      <4>. QED
        BY <1>0, <1>1, <1>2, <4>1, <4>2, <4>3
    <3>. QED
      BY <3>1, <3>2
  <2>. QED
    BY <1>3, <1>4, <1>5, <2>1 DEF Passing, AfterPass, DealtWith, HeldBack
<1>. QED
  BY <1>3, <1>4, <1>5

\* What is taken up is fired or skipped, and the rest of the pass leaves the
\* row's time as it is or brings it forward.
LEMMA PassingActs ==
  ASSUME TypeOK, Clocked, Recent, NEW s \in Schedulers, NEW t \in Time, Passing(s, t),
         Came(s, t),
         \/ Check(s) \/ CheckFails(s) \/ Enqueue(s) \/ Record(s) \/ RecordFails(s)
         \/ Refresh(s) \/ RefreshFails(s) \/ Forget(s) \/ ForgetFails(s) \/ Reap(s)
  PROVE  Passing(s, t)'
<1>0. /\ pc \in [Schedulers -> PC] /\ mem \in [Schedulers -> Mem] /\ now \in Nat /\ t \in Nat
      /\ started \in [Schedulers -> Nat] /\ registry \in Nat \cup {NoRow, Null} /\ decided \in Nat
      /\ Slack \in Nat /\ started[s] \in Nat
  BY TimesAssumption DEF TypeOK, Time
<1>1. t <= started[s] /\ started[s] <= now /\ started' = started
  BY DEF Came, Clocked, Check, CheckFails, Enqueue, Record, RecordFails, Refresh, RefreshFails,
         Forget, ForgetFails, Reap
<1>2. CASE Check(s) \/ CheckFails(s)
  <2>1. /\ pc[s] = "check" /\ UNCHANGED <<registry, mem>>
        /\ \/ pc'[s] = "enqueue" /\ decided' = decided
           \/ pc'[s] = "refresh" /\ decided' = now
    BY <1>0, <1>2 DEF Check, CheckFails, Goes
  <2>2. mem[s].listed = "yes" /\ BeforeActing(s, t)
    BY <2>1 DEF Passing, InPass
  <2>3. CASE pc'[s] = "enqueue"
    BY <1>1, <2>1, <2>2, <2>3 DEF Passing, BeforeActing, DealtWith, HeldBack
  <2>4. CASE pc'[s] = "refresh" /\ decided' = now
    <3>1. DealtWith(t)'
      BY <1>0, <1>1, <2>4 DEF DealtWith
    <3>. QED
      BY <2>1, <2>2, <2>4, <3>1 DEF Passing, AfterPass
  <2>. QED
    BY <2>1, <2>3, <2>4
<1>3. CASE Enqueue(s)
  <2>1. pc[s] = "enqueue" /\ pc'[s] = "record" /\ mem' = mem /\ decided' = now
    BY <1>0, <1>3 DEF Enqueue, Goes
  <2>2. DealtWith(t)' /\ mem[s].listed = "yes"
    BY <1>0, <1>1, <2>1 DEF DealtWith, Passing, InPass
  <2>. QED
    BY <2>1, <2>2 DEF Passing, AfterPass
<1>4. CASE Record(s) \/ RecordFails(s)
  <2>1. pc[s] = "record" /\ pc'[s] = "refresh" /\ UNCHANGED <<mem, decided>>
    BY <1>0, <1>4 DEF Record, RecordFails, Goes, historyVars
  <2>2. started[s] <= decided
    BY <2>1 DEF Recent
  <2>3. DealtWith(t)' /\ mem[s].listed = "yes"
    BY <1>0, <1>1, <2>1, <2>2 DEF DealtWith, Passing, InPass
  <2>. QED
    BY <2>1, <2>3 DEF Passing, AfterPass
<1>5. CASE Refresh(s) \/ RefreshFails(s) \/ Reap(s)
  <2>1. /\ pc[s] \in {"refresh", "reap"} /\ pc'[s] \in {"reap", "sleep"} /\ decided' = decided
        /\ pc'[s] = "reap" => mem' = mem
    BY <1>0, <1>5 DEF Refresh, RefreshFails, Reap, Goes, historyVars
  <2>2. mem[s].listed = "yes" /\ AfterPass(s, t)
    BY <2>1 DEF Passing, InPass
  <2>3. registry' = registry \/ (registry \notin Nat /\ registry' \notin Nat)
    BY <1>5, <2>2, RowsAssumption DEF Refresh, RefreshFails, Reap, Upserted, Reaped
  <2>4. AfterPass(s, t)'
    BY <1>1, <2>1, <2>2, <2>3 DEF AfterPass, DealtWith, HeldBack
  <2>. QED
    BY <2>1, <2>2, <2>4 DEF Passing, InPass
<1>6. CASE Forget(s) \/ ForgetFails(s)
  BY <1>6 DEF Forget, ForgetFails, Passing, InPass
<1>. QED
  BY <1>2, <1>3, <1>4, <1>5, <1>6

\* Every step keeps every slot on its way.
LEMMA PassingNext ==
  ASSUME Alone, Window <= PollInterval, TypeOK, Clocked, Clocked', PassingInv, [Next]_vars
  PROVE  PassingInv'
<1>1. Recent'
  BY RecentNext DEF PassingInv
<1>2. ASSUME NEW s \in Schedulers, NEW t \in Time, SchedulerNext(s), Came(s, t)'
      PROVE  Passing(s, t)'
  <2>1. /\ steady' # now /\ t <= now /\ EffectiveCron' = EffectiveCron
        /\ t <= started[s] => Came(s, t)
    BY <1>2, CameBy
  <2>2. Passing(s, t) /\ Recent
    BY DEF PassingInv
  <2>3. CASE \E cron \in Crons \cup {NoCron, BadCron} : Begin(s, cron)
    BY <1>2, <2>1, <2>2, <2>3, PassingBegins
  <2>4. CASE ListFails(s) \/ DecideBlind(s) \/ EnqueueFails(s) \/ ReapFails(s) \/ Restart(s)
    BY <2>1, <2>4 DEF ListFails, DecideBlind, EnqueueFails, ReapFails, Restart
  <2>5. CASE Crash(s)
    <3>1. pc'[s] = "down"
      BY <2>5 DEF Crash, Goes, TypeOK
    <3>. QED
      BY <3>1 DEF Passing, InPass
  <2>6. CASE \/ Decide(s) \/ Check(s) \/ CheckFails(s) \/ Enqueue(s) \/ Record(s) \/ RecordFails(s)
             \/ Refresh(s) \/ RefreshFails(s) \/ Forget(s) \/ ForgetFails(s) \/ Reap(s)
    <3>1. started' = started
      BY <2>6 DEF Decide, Check, CheckFails, Enqueue, Record, RecordFails, Refresh, RefreshFails,
                  Forget, ForgetFails, Reap
    <3>2. Came(s, t)
      BY <1>2, <2>1, <3>1 DEF Came
    <3>. QED
      BY <2>1, <2>2, <2>6, <3>2, PassingDecides, PassingActs
  <2>. QED
    BY <1>2, <2>3, <2>4, <2>5, <2>6 DEF SchedulerNext
<1>3. ASSUME NEW s \in Schedulers, NEW t \in Time, Tick \/ RunEnds \/ UNCHANGED vars
      PROVE  Passing(s, t)'
  <2>1. Passing(s, t)
    BY DEF PassingInv
  <2>2. UNCHANGED <<planVars, registry, pc, mem, started, decided, steady>>
    BY <1>3 DEF Tick, RunEnds, vars, passVars, historyVars
  <2>. QED
    BY <2>1, <2>2 DEF Passing, Came, InPass, AfterPass, BeforeActing, DealtWith, HeldBack,
                      EffectiveCron, planVars
<1>4. ASSUME NEW s \in Schedulers, NEW t \in Time, OperatorNext PROVE Passing(s, t)'
  <2>1. steady' = now /\ started' = started
    BY <1>4 DEF OperatorNext, SetSchedule, UpdateManifest, Uninstall, Install, OthersChange, passVars
  <2>2. started[s] \in Nat /\ started[s] <= now /\ now \in Nat /\ t \in Nat
    BY TimesAssumption DEF TypeOK, Time, Clocked
  <2>. QED
    BY <2>1, <2>2 DEF Passing, Came
<1>5. ASSUME NEW s \in Schedulers, NEW t \in Time PROVE Passing(s, t)'
  <2>1. CASE Came(s, t)'
    BY <1>2, <1>3, <1>4, <2>1 DEF Next, Alone
  <2>2. CASE ~ Came(s, t)'
    BY <2>2 DEF Passing
  <2>. QED
    BY <2>1, <2>2
<1>. QED
  BY <1>1, <1>5 DEF PassingInv

\* While the schedule stands and the one scheduler lives, every slot is fired
\* or skipped by the end of the next pass, or of the one after it when the
\* dedup window keeps it back; a window as long as the pause is assumed, as
\* the code has it.
THEOREM NoSlotIsLost ==
  ASSUME Alone, Schedulers # {}, Window <= PollInterval PROVE Spec => []NoSlotGoesBy
<1>1. Init => PassInv
  BY RowsAssumption DEF Init, PassInv
<1>2. Init => PassingInv
  <2>. SUFFICES ASSUME Init PROVE PassingInv
    OBVIOUS
  <2>1. /\ now \in Nat /\ steady = now /\ decided = now /\ registry = NoRow
        /\ \A s \in Schedulers : pc[s] = "sleep" /\ started[s] = now
    BY StartAssumption DEF Init
  <2>2. Recent
    BY <2>1, RowsAssumption DEF Recent
  <2>3. \A s \in Schedulers, t \in Time : ~ Came(s, t)
    BY <2>1, TimesAssumption DEF Came, Time
  <2>. QED
    BY <2>2, <2>3 DEF PassingInv, Passing
<1>3. TypeOK /\ Deciding /\ PassInv /\ [Next]_vars => PassInv'
  BY PassNext
<1>4. TypeOK /\ PassInv /\ ForgetInv /\ [Next]_vars => ForgetInv'
  BY ForgetNext
<1>5. TypeOK /\ ForgetInv /\ ForgetInv' /\ PassingInv /\ [Next]_vars => PassingInv'
  BY PassingNext DEF ForgetInv
<1>6. TypeOK /\ ForgetInv /\ PassingInv => NoSlotGoesBy
  <2>. SUFFICES ASSUME TypeOK, ForgetInv, PassingInv,
                       installed, EffectiveCron \in Crons, \A s \in Schedulers : pc[s] # "down",
                       NEW t \in Time, t % Period[EffectiveCron] = 0, steady < t
                PROVE  /\ t + ByNextPass < now => t <= decided + Slack + Window
                       /\ t + ByNextPass + PollInterval + Jitter < now => t <= decided + Slack
    BY DEF NoSlotGoesBy
  <2>. SUFFICES ASSUME t + ByNextPass < now
                PROVE  /\ t <= decided + Slack + Window
                       /\ t + ByNextPass + PollInterval + Jitter < now => t <= decided + Slack
    <3>1. PollInterval \in Nat /\ Jitter \in Nat /\ now \in Nat /\ t + ByNextPass \in Nat
      BY TimesAssumption DEF TypeOK, Time, ByNextPass
    <3>. QED
      BY <3>1
  <2>1. PICK s \in Schedulers : TRUE
    OBVIOUS
  <2>2. /\ now \in Nat /\ decided \in Nat /\ t \in Nat /\ started[s] \in Nat
        /\ PollInterval \in Nat /\ Jitter \in Nat /\ Slack \in Nat /\ Window \in Nat
        /\ PollInterval > 0
    BY TimesAssumption DEF TypeOK, Time
  <2>3. /\ Asleep(s) => now <= started[s] + PollInterval + Jitter
        /\ InPass(s) => now <= started[s] + Slack
        /\ Passing(s, t)
        /\ registry \in Nat => registry <= decided + Slack
    BY DEF ForgetInv, Clocked, PassingInv, Recent
  <2>4. DealtWith(t) \/ (HeldBack(t) /\ started[s] <= t + 2 * (PollInterval + Jitter))
    <3>1. CASE Asleep(s)
      <4>1. started[s] > t
        BY <2>2, <2>3, <3>1 DEF ByNextPass
      <4>2. AfterPass(s, t)
        BY <2>2, <2>3, <3>1, <4>1 DEF Passing, Came, Asleep
      <4>. QED
        BY <2>2, <4>1, <4>2 DEF AfterPass
    <3>2. CASE InPass(s)
      <4>1. started[s] > t + PollInterval + Jitter
        BY <2>2, <2>3, <3>2 DEF ByNextPass
      <4>2. Came(s, t)
        BY <2>2, <4>1 DEF Came
      <4>3. BeforeActing(s, t) \/ AfterPass(s, t)
        BY <2>3, <3>2, <4>2 DEF Passing, InPass, TypeOK, PC
      <4>. QED
        BY <2>2, <4>1, <4>3 DEF AfterPass, BeforeActing
    <3>. QED
      BY <3>1, <3>2 DEF Asleep, InPass
  <2>5. CASE DealtWith(t)
    <3>1. t <= decided + Slack
      BY <2>5 DEF DealtWith
    <3>2. t <= decided + Slack + Window
      BY <2>2, <3>1
    <3>. QED
      BY <3>1, <3>2
  <2>6. CASE HeldBack(t) /\ ~ DealtWith(t)
    <3>1. registry \in Nat /\ registry <= decided + Slack /\ t < registry + Window
      BY <2>3, <2>6 DEF HeldBack
    <3>2. t <= decided + Slack + Window
      BY <2>2, <3>1
    <3>3. ~ (t + ByNextPass + PollInterval + Jitter < now)
      <4>. SUFFICES ASSUME t + ByNextPass + PollInterval + Jitter < now PROVE FALSE
        OBVIOUS
      <4>1. CASE Asleep(s)
        <5>1. started[s] > t + PollInterval + Jitter
          BY <2>2, <2>3, <4>1 DEF ByNextPass
        <5>2. AfterPass(s, t)
          BY <2>2, <2>3, <4>1, <5>1 DEF Passing, Came, Asleep
        <5>. QED
          BY <2>2, <2>6, <5>1, <5>2 DEF AfterPass
      <4>2. CASE InPass(s)
        <5>1. started[s] > t + 2 * (PollInterval + Jitter)
          BY <2>2, <2>3, <4>2 DEF ByNextPass
        <5>. QED
          BY <2>2, <2>4, <2>6, <5>1
      <4>. QED
        BY <4>1, <4>2 DEF Asleep, InPass
    <3>. QED
      BY <3>2, <3>3
  <2>. QED
    BY <2>4, <2>5, <2>6
<1>7. Init => ForgetInv
  BY ForgetInit
<1>. QED
  BY TypeCorrect, <1>1, <1>2, <1>3, <1>4, <1>5, <1>6, <1>7, PTL DEF Spec
=============================================================================
