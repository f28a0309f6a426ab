---------------------------- MODULE Alerts_proofs ----------------------------
(***************************************************************************)
(* What the bridge's rows say is what the webhooks were told, for any      *)
(* findings, webhooks, changes of subscription and number of failures; and *)
(* what becomes of the rules that a run of the alert runner has loaded,    *)
(* for any rules, runners, cooldowns and failures.                         *)
(***************************************************************************)
EXTENDS MCAlerts, TLAPS

-----------------------------------------------------------------------------
(* The bridge.                                                             *)

\* Every variable keeps its type.
THEOREM TypeCorrect == Spec => []TypeOK
<1>0. Idle \in PassStates
  BY DEF Idle, PassStates, NoRows
<1>1. Init => TypeOK
  BY <1>0 DEF Init, TypeOK, NoRows
<1>2. ASSUME TypeOK, [Next]_vars PROVE TypeOK'
  <2>. USE <1>2
  <2>0. /\ critical \subseteq Findings /\ subscribed \subseteq Webhooks
        /\ row \in [Findings -> {"none", "seen", "alerted"}]
        /\ pass \in PassStates
        /\ heard \in [Webhooks \X Findings -> 0..2]
        /\ torn \subseteq Findings /\ missed \subseteq Webhooks \X Findings
        /\ faults \in Nat
    BY DEF TypeOK
  <2>1. CASE \/ \E f \in Findings : Appears(f) \/ Clears(f)
             \/ \E h \in Webhooks : Subscribe(h)
             \/ UNCHANGED vars
    BY <2>0, <2>1 DEF Appears, Clears, Subscribe, vars, TypeOK
  <2>2. CASE Begin
    <3>1. pass' \in PassStates
      BY <2>0, <2>2 DEF Begin, Idle, NoRows, PassStates
    <3>. QED
      BY <2>0, <2>2, <3>1 DEF Begin, TypeOK
  <2>3. ASSUME NEW f \in Findings, Touch(f) PROVE TypeOK'
    <3>1. pass' \in PassStates
      BY <2>0, <2>3 DEF Touch, PassStates
    <3>. QED
      BY <2>0, <2>3, <3>1 DEF Touch, TypeOK
  <2>4. ASSUME NEW f \in Findings, NEW reached \in SUBSET subscribed, Send(f, reached)
        PROVE  pass' \in PassStates
    <3>1. (reached # {}) \in BOOLEAN
      OBVIOUS
    <3>. QED
      BY <2>0, <2>4, <3>1 DEF Send, PassStates
  <2>5. ASSUME NEW f \in Findings, Detect(f) PROVE TypeOK'
    <3>1. PICK reached \in SUBSET subscribed : Send(f, reached)
                 /\ heard' = [x \in Webhooks \X Findings |->
                               IF x \in reached \X {f} THEN More(heard[x]) ELSE heard[x]]
                 /\ UNCHANGED missed
      BY <2>5 DEF Detect
    <3>2. \A n \in 0..2 : More(n) \in 0..2
      BY DEF More
    <3>3. heard' \in [Webhooks \X Findings -> 0..2]
      BY <2>0, <3>1, <3>2
    <3>. QED
      BY <2>0, <2>4, <3>1, <3>3 DEF Send, TypeOK
  <2>6. ASSUME NEW f \in Findings, Resolve(f) PROVE TypeOK'
    <3>1. PICK reached \in SUBSET subscribed : Send(f, reached)
                 /\ heard' = [x \in Webhooks \X Findings |->
                               IF x \in reached \X {f} THEN 0 ELSE heard[x]]
                 /\ missed' = (missed \ (reached \X {f})) \cup ((Webhooks \ reached) \X {f})
      BY <2>6 DEF Resolve
    <3>2. heard' \in [Webhooks \X Findings -> 0..2]
      BY <2>0, <3>1
    <3>3. missed' \subseteq Webhooks \X Findings
      BY <2>0, <3>1
    <3>. QED
      BY <2>0, <2>4, <3>1, <3>2, <3>3 DEF Send, TypeOK
  <2>7. CASE Upsert \/ Remove
    <3>1. PICK f \in pass.one :
            /\ \/ pass' = [pass EXCEPT !.at = "comparing", !.todo = @ \ {f}, !.one = {},
                                       !.delivered = FALSE]
               \/ pass' = [pass EXCEPT !.at = "comparing", !.gone = @ \ {f}, !.one = {},
                                       !.delivered = FALSE]
            /\ row' = [row EXCEPT ![f] = Written(f)] \/ row' = [row EXCEPT ![f] = "none"]
            /\ torn' \subseteq torn
            /\ UNCHANGED <<critical, subscribed, heard, missed, faults>>
      BY <2>7 DEF Upsert, Remove
    <3>2. /\ [pass EXCEPT !.at = "comparing", !.todo = @ \ {f}, !.one = {},
                          !.delivered = FALSE] \in PassStates
          /\ [pass EXCEPT !.at = "comparing", !.gone = @ \ {f}, !.one = {},
                          !.delivered = FALSE] \in PassStates
      BY <2>0 DEF PassStates
    <3>3. pass' \in PassStates
      BY <3>1, <3>2
    <3>4. Written(f) \in {"none", "seen", "alerted"}
      BY DEF Written
    <3>5. row' \in [Findings -> {"none", "seen", "alerted"}]
      BY <2>0, <3>1, <3>4
    <3>. QED
      BY <2>0, <3>1, <3>3, <3>5 DEF TypeOK
  <2>8. CASE End \/ Abandon
    <3>1. /\ UNCHANGED <<critical, row, subscribed, heard, missed>> /\ pass' \in PassStates
          /\ faults' \in {faults, faults + 1}
      BY <1>0, <2>8 DEF End, Abandon
    <3>2. torn' \subseteq Findings
      BY <2>0, <2>8 DEF End, Abandon, PassStates
    <3>3. faults' \in Nat
      BY <2>0, <3>1
    <3>. QED
      BY <2>0, <3>1, <3>2, <3>3 DEF TypeOK
  <2>. QED
    BY <2>1, <2>2, <2>3, <2>5, <2>6, <2>7, <2>8 DEF Next, PassNext
<1>. QED
  BY <1>1, <1>2, PTL DEF Spec

-----------------------------------------------------------------------------
(* What was told and what is written *)

Told(f) == \E h \in Webhooks : heard[<<h, f>>] > 0

\* A pass handles one finding at a time, knows the rows of those to come, and
\* takes none both for one that is on and for one that has ended.
PassInv ==
  /\ pass.todo \cap pass.gone = {}
  /\ \A f, g \in pass.one : f = g
  /\ pass.at # "writing" => pass.one = {}
  /\ \A f \in pass.todo : pass.state[f] = row[f]

\* A row says "alerted" of a finding told of, or whose end is being told.
RowInv == \A f \in Findings :
  /\ row[f] = "alerted" /\ f \notin torn => Told(f) \/ f \in pass.one \cap pass.gone
  /\ f \in pass.one \cap pass.todo /\ pass.delivered = TRUE => Told(f)

\* A webhook that knows of a finding was told once, and the row says so or is
\* about to; when the end is being told, it missed that.
HeardInv == \A h \in Webhooks, f \in Findings :
  LET x == <<h, f>>
  IN \/ heard[x] = 0 \/ x \in missed
     \/ f \in torn /\ f \notin pass.one \cap pass.gone
     \/ /\ heard[x] = 1
        /\ f \notin pass.one \cap pass.gone
        /\ row[f] = "alerted" \/ (f \in pass.one \cap pass.todo /\ pass.delivered = TRUE)

DInv == PassInv /\ RowInv /\ HeardInv

\* What the world does outside a pass changes neither rows nor what was told.
LEMMA Outside ==
  ASSUME DInv, UNCHANGED <<row, pass, heard, torn, missed>> PROVE DInv'
  BY DEF DInv, PassInv, RowInv, HeardInv, Told

\* The steps of a pass that send and write nothing.
LEMMA Silent ==
  ASSUME TypeOK, DInv, Begin \/ End \/ Abandon \/ \E f \in Findings : Touch(f) PROVE DInv'
<1>0. /\ pass \in PassStates /\ row \in [Findings -> {"none", "seen", "alerted"}]
      /\ critical \subseteq Findings
  BY DEF TypeOK
<1>1. UNCHANGED <<row, heard, missed>>
  BY DEF Begin, End, Abandon, Touch
<1>2. CASE Begin \/ End \/ \E f \in Findings : Touch(f)
  <2>1. torn' = torn /\ pass.one = {}
    BY <1>2 DEF Begin, End, Touch, DInv, PassInv
  <2>2. PassInv' /\ pass'.one = {}
    <3>1. CASE Begin
      BY <1>0, <1>1, <3>1 DEF Begin, Idle, PassInv
    <3>2. CASE End
      BY <1>0, <1>1, <3>2 DEF End, Idle, PassInv
    <3>3. ASSUME NEW f \in Findings, Touch(f) PROVE PassInv' /\ pass'.one = {}
      BY <1>0, <1>1, <2>1, <3>3 DEF Touch, DInv, PassInv, PassStates
    <3>. QED
      BY <1>2, <3>1, <3>2, <3>3
  <2>3. RowInv'
    BY <1>1, <2>1, <2>2 DEF DInv, RowInv, Told
  <2>4. HeardInv'
    BY <1>1, <2>1, <2>2 DEF DInv, HeardInv
  <2>. QED
    BY <2>2, <2>3, <2>4 DEF DInv
<1>3. CASE Abandon
  <2>1. torn' = torn \cup pass.one /\ pass' = Idle
    BY <1>3 DEF Abandon
  <2>2. pass'.one = {} /\ pass'.todo = {} /\ pass'.gone = {}
    BY <2>1 DEF Idle
  <2>3. PassInv'
    BY <2>2 DEF PassInv
  <2>4. RowInv'
    BY <1>1, <2>1, <2>2 DEF DInv, RowInv, Told
  <2>5. HeardInv'
    BY <1>1, <2>1, <2>2 DEF DInv, HeardInv
  <2>. QED
    BY <2>3, <2>4, <2>5 DEF DInv
<1>. QED
  BY <1>2, <1>3

\* A pass tells of a finding only if no row says that it was told.
LEMMA Telling ==
  ASSUME TypeOK, DInv, NEW f \in Findings, Detect(f) PROVE DInv'
<1>0. /\ pass \in PassStates /\ heard \in [Webhooks \X Findings -> 0..2]
      /\ subscribed \subseteq Webhooks
  BY DEF TypeOK
<1>1. PICK reached \in SUBSET subscribed :
        /\ Send(f, reached)
        /\ heard' = [x \in Webhooks \X Findings |->
                      IF x \in reached \X {f} THEN More(heard[x]) ELSE heard[x]]
  BY DEF Detect
<1>2. /\ UNCHANGED <<row, torn, missed>>
      /\ pass.at = "comparing" /\ pass.one = {} /\ f \in pass.todo /\ f \notin pass.gone
      /\ row[f] # "alerted"
  BY <1>1 DEF Detect, Send, DInv, PassInv
<1>3. /\ pass'.at = "writing" /\ pass'.one = {f} /\ pass'.todo = pass.todo
      /\ pass'.gone = pass.gone /\ pass'.state = pass.state
      /\ pass'.delivered = (reached # {})
  BY <1>0, <1>1 DEF Send, PassStates
<1>4. PassInv'
  BY <1>2, <1>3 DEF DInv, PassInv
<1>5. ASSUME NEW h \in Webhooks, NEW g \in Findings
      PROVE  /\ h \in reached /\ g = f => heard'[<<h, g>>] = More(heard[<<h, g>>])
             /\ h \notin reached \/ g # f => heard'[<<h, g>>] = heard[<<h, g>>]
  BY <1>0, <1>1
<1>6. \A n \in 0..2 : More(n) > 0 /\ (n = 0 => More(n) = 1)
  BY DEF More
<1>7. RowInv'
  <2>1. ASSUME NEW g \in Findings, Told(g) PROVE Told(g)'
    <3>1. PICK h \in Webhooks : heard[<<h, g>>] > 0
      BY <2>1 DEF Told
    <3>2. heard'[<<h, g>>] > 0
      BY <1>0, <1>5, <1>6, <3>1
    <3>. QED
      BY <3>2 DEF Told
  <2>2. reached # {} => Told(f)'
    <3>1. ASSUME NEW h \in reached PROVE Told(f)'
      <4>1. h \in Webhooks
        BY <1>0
      <4>2. heard'[<<h, f>>] > 0
        BY <1>0, <1>5, <1>6, <4>1
      <4>. QED
        BY <4>1, <4>2 DEF Told
    <3>. QED
      BY <3>1
  <2>. QED
    BY <1>2, <1>3, <2>1, <2>2 DEF DInv, RowInv
<1>8. HeardInv'
  <2>. SUFFICES ASSUME NEW h \in Webhooks, NEW g \in Findings
                PROVE  \/ heard'[<<h, g>>] = 0 \/ <<h, g>> \in missed
                       \/ g \in torn /\ g \notin pass'.one \cap pass'.gone
                       \/ /\ heard'[<<h, g>>] = 1
                          /\ g \notin pass'.one \cap pass'.gone
                          /\ \/ row[g] = "alerted"
                             \/ g \in pass'.one \cap pass'.todo /\ pass'.delivered = TRUE
    BY <1>2 DEF HeardInv
  <2>1. \/ heard[<<h, g>>] = 0 \/ <<h, g>> \in missed \/ g \in torn
        \/ heard[<<h, g>>] = 1 /\ row[g] = "alerted"
    BY <1>2 DEF DInv, HeardInv
  <2>2. CASE h \in reached /\ g = f
    <3>1. heard[<<h, g>>] = 0 => heard'[<<h, g>>] = 1
      BY <1>0, <1>5, <1>6, <2>2
    <3>. QED
      BY <1>2, <1>3, <2>1, <2>2, <3>1
  <2>3. CASE h \notin reached \/ g # f
    BY <1>2, <1>3, <1>5, <2>1, <2>3
  <2>. QED
    BY <2>2, <2>3
<1>. QED
  BY <1>4, <1>7, <1>8 DEF DInv

\* The end of a finding is told once all that are on were handled.
LEMMA Ending ==
  ASSUME TypeOK, DInv, NEW f \in Findings, Resolve(f) PROVE DInv'
<1>0. /\ pass \in PassStates /\ heard \in [Webhooks \X Findings -> 0..2]
      /\ subscribed \subseteq Webhooks
  BY DEF TypeOK
<1>1. PICK reached \in SUBSET subscribed :
        /\ Send(f, reached)
        /\ heard' = [x \in Webhooks \X Findings |->
                      IF x \in reached \X {f} THEN 0 ELSE heard[x]]
        /\ missed' = (missed \ (reached \X {f})) \cup ((Webhooks \ reached) \X {f})
  BY DEF Resolve
<1>2. /\ UNCHANGED <<row, torn>>
      /\ pass.at = "comparing" /\ pass.one = {} /\ pass.todo = {} /\ f \in pass.gone
  BY <1>1 DEF Resolve, Send, DInv, PassInv
<1>3. /\ pass'.at = "writing" /\ pass'.one = {f} /\ pass'.todo = pass.todo
      /\ pass'.gone = pass.gone
  BY <1>0, <1>1 DEF Send, PassStates
<1>4. PassInv'
  BY <1>2, <1>3 DEF DInv, PassInv
<1>5. ASSUME NEW h \in Webhooks, NEW g \in Findings, g # f
      PROVE  /\ heard'[<<h, g>>] = heard[<<h, g>>]
             /\ <<h, g>> \in missed' <=> <<h, g>> \in missed
  BY <1>0, <1>1, <1>5
<1>6. ASSUME NEW h \in Webhooks PROVE heard'[<<h, f>>] = 0 \/ <<h, f>> \in missed'
  BY <1>0, <1>1
<1>7. RowInv'
  <2>1. ASSUME NEW g \in Findings, g # f, Told(g) PROVE Told(g)'
    BY <1>5, <2>1 DEF Told
  <2>. QED
    BY <1>2, <1>3, <2>1 DEF DInv, RowInv
<1>8. HeardInv'
  BY <1>2, <1>3, <1>5, <1>6 DEF DInv, HeardInv
<1>. QED
  BY <1>4, <1>7, <1>8 DEF DInv

\* A row is written after the telling, and says what came of it.
LEMMA Writes ==
  ASSUME TypeOK, DInv, Upsert \/ Remove PROVE DInv'
<1>0. pass \in PassStates /\ row \in [Findings -> {"none", "seen", "alerted"}]
  BY DEF TypeOK
<1>1. CASE Upsert
  <2>1. PICK f \in pass.one \cap pass.todo :
          /\ row' = [row EXCEPT ![f] = Written(f)]
          /\ pass' = [pass EXCEPT !.at = "comparing", !.todo = @ \ {f}, !.one = {},
                                  !.delivered = FALSE]
    BY <1>1 DEF Upsert
  <2>2. f \in Findings /\ pass.one = {f} /\ f \notin pass.gone
    BY <1>0, <2>1 DEF PassStates, DInv, PassInv
  <2>3. UNCHANGED <<heard, torn, missed>>
    BY <1>1 DEF Upsert
  <2>4. /\ pass'.at = "comparing" /\ pass'.todo = pass.todo \ {f} /\ pass'.one = {}
        /\ pass'.gone = pass.gone /\ pass'.state = pass.state
    BY <1>0, <2>1 DEF PassStates
  <2>5. /\ row'[f] = "alerted" <=> pass.delivered = TRUE \/ row[f] = "alerted"
        /\ \A g \in Findings : g # f => row'[g] = row[g]
    BY <1>0, <2>1, <2>2 DEF Written, PassStates
  <2>6. PassInv'
    <3>1. pass.todo \subseteq Findings
      BY <1>0 DEF PassStates
    <3>2. \A g \in pass'.todo : g # f /\ g \in pass.todo
      BY <2>2, <2>4
    <3>3. \A g \in pass'.todo : pass'.state[g] = row'[g]
      BY <2>4, <2>5, <3>1, <3>2 DEF DInv, PassInv
    <3>4. pass'.todo \cap pass'.gone = {}
      BY <2>4 DEF DInv, PassInv
    <3>5. \A g, h \in pass'.one : g = h
      BY <2>4
    <3>. QED
      BY <2>4, <3>3, <3>4, <3>5 DEF PassInv
  <2>7. RowInv'
    BY <2>1, <2>2, <2>3, <2>4, <2>5 DEF DInv, RowInv, Told
  <2>8. HeardInv'
    <3>. SUFFICES ASSUME NEW h \in Webhooks, NEW g \in Findings
                  PROVE  \/ heard[<<h, g>>] = 0 \/ <<h, g>> \in missed \/ g \in torn'
                         \/ heard[<<h, g>>] = 1 /\ row'[g] = "alerted"
      BY <2>3, <2>4 DEF HeardInv
    <3>1. \/ heard[<<h, g>>] = 0 \/ <<h, g>> \in missed
          \/ g \in torn /\ g \notin pass.one \cap pass.gone
          \/ /\ heard[<<h, g>>] = 1
             /\ g \notin pass.one \cap pass.gone
             /\ row[g] = "alerted" \/ (g \in pass.one \cap pass.todo /\ pass.delivered = TRUE)
      BY DEF DInv, HeardInv
    <3>2. CASE g = f
      BY <2>1, <2>2, <2>3, <2>5, <3>1, <3>2
    <3>3. CASE g # f
      BY <2>1, <2>2, <2>3, <2>5, <3>1, <3>3
    <3>. QED
      BY <3>2, <3>3
  <2>. QED
    BY <2>6, <2>7, <2>8 DEF DInv
<1>2. CASE Remove
  <2>1. PICK f \in pass.one \cap pass.gone :
          /\ row' = [row EXCEPT ![f] = "none"]
          /\ pass' = [pass EXCEPT !.at = "comparing", !.gone = @ \ {f}, !.one = {},
                                  !.delivered = FALSE]
          /\ torn' = torn \ {f}
    BY <1>2 DEF Remove
  <2>2. f \in Findings /\ pass.one = {f} /\ f \notin pass.todo
    BY <1>0, <2>1 DEF PassStates, DInv, PassInv
  <2>3. UNCHANGED <<heard, missed>>
    BY <1>2 DEF Remove
  <2>4. /\ pass'.at = "comparing" /\ pass'.todo = pass.todo /\ pass'.one = {}
        /\ pass'.gone = pass.gone \ {f} /\ pass'.state = pass.state
    BY <1>0, <2>1 DEF PassStates
  <2>5. row'[f] = "none" /\ \A g \in Findings : g # f => row'[g] = row[g]
    BY <1>0, <2>1, <2>2
  <2>6. PassInv'
    <3>1. pass.todo \subseteq Findings
      BY <1>0 DEF PassStates
    <3>2. \A g \in pass'.todo : g # f /\ g \in pass.todo
      BY <2>2, <2>4
    <3>3. \A g \in pass'.todo : pass'.state[g] = row'[g]
      BY <2>4, <2>5, <3>1, <3>2 DEF DInv, PassInv
    <3>4. pass'.todo \cap pass'.gone = {}
      BY <2>4 DEF DInv, PassInv
    <3>5. \A g, h \in pass'.one : g = h
      BY <2>4
    <3>. QED
      BY <2>4, <3>3, <3>4, <3>5 DEF PassInv
  <2>7. RowInv'
    BY <2>1, <2>2, <2>3, <2>4, <2>5 DEF DInv, RowInv, Told
  <2>8. HeardInv'
    <3>. SUFFICES ASSUME NEW h \in Webhooks, NEW g \in Findings
                  PROVE  \/ heard[<<h, g>>] = 0 \/ <<h, g>> \in missed \/ g \in torn'
                         \/ heard[<<h, g>>] = 1 /\ row'[g] = "alerted"
      BY <2>3, <2>4 DEF HeardInv
    <3>1. \/ heard[<<h, g>>] = 0 \/ <<h, g>> \in missed
          \/ g \in torn /\ g \notin pass.one \cap pass.gone
          \/ /\ heard[<<h, g>>] = 1
             /\ g \notin pass.one \cap pass.gone
             /\ row[g] = "alerted" \/ (g \in pass.one \cap pass.todo /\ pass.delivered = TRUE)
      BY DEF DInv, HeardInv
    <3>2. CASE g = f
      BY <2>1, <2>2, <2>3, <2>5, <3>1, <3>2
    <3>3. CASE g # f
      BY <2>1, <2>2, <2>3, <2>5, <3>1, <3>3
    <3>. QED
      BY <3>2, <3>3
  <2>. QED
    BY <2>6, <2>7, <2>8 DEF DInv
<1>. QED
  BY <1>1, <1>2

\* The invariant that the two theorems below follow from.
THEOREM Invariant == Spec => []DInv
<1>1. Init => DInv
  <2>1. ASSUME Init PROVE PassInv
    BY <2>1 DEF Init, Idle, PassInv
  <2>2. ASSUME Init PROVE RowInv
    BY <2>2 DEF Init, Idle, NoRows, RowInv
  <2>3. ASSUME Init PROVE HeardInv
    BY <2>3 DEF Init, HeardInv
  <2>. QED
    BY <2>1, <2>2, <2>3 DEF DInv
<1>2. ASSUME TypeOK, DInv, [Next]_vars PROVE DInv'
  <2>1. CASE \/ \E f \in Findings : Appears(f) \/ Clears(f)
             \/ \E h \in Webhooks : Subscribe(h)
             \/ UNCHANGED vars
    <3>1. UNCHANGED <<row, pass, heard, torn, missed>>
      BY <2>1 DEF Appears, Clears, Subscribe, vars
    <3>. QED
      BY <1>2, <3>1, Outside
  <2>. QED
    BY <1>2, <2>1, Silent, Telling, Ending, Writes DEF Next, PassNext
<1>. QED
  BY <1>1, <1>2, TypeCorrect, PTL DEF Spec

\* A row that ends all retries stands for a telling that reached a webhook,
\* unless a telling was never written down.
THEOREM NothingAlertedUnheard == Spec => []AlertedWasHeard
<1>1. DInv => AlertedWasHeard
  <2>1. ASSUME DInv, NEW f \in Findings, row[f] = "alerted", f \notin torn, ~Writing(f)
        PROVE  Told(f)
    BY <2>1 DEF DInv, PassInv, RowInv, Writing
  <2>. QED
    BY <2>1 DEF AlertedWasHeard, Told
<1>. QED
  BY <1>1, Invariant, PTL

\* No webhook is told twice that a finding began, unless it missed the end or
\* a telling was never written down.
THEOREM NothingToldTwice == Spec => []DetectedOnce
<1>1. DInv => DetectedOnce
  BY DEF DInv, HeardInv, DetectedOnce
<1>. QED
  BY <1>1, Invariant, PTL

-----------------------------------------------------------------------------
(* The runner of alert rules: types.                                       *)

\* What a step of one runner makes of its own state.
Ran(m) == [m EXCEPT !.due = @ \cap (R!DueNow' \cup m.fired)]

LEMMA DownType == R!Down \in R!RunnerStates
BY TimesAssumption DEF R!Down, R!RunnerStates, R!Rules

\* What a run knows of the rules it has loaded, at each place of its loop; and
\* that no transaction is older than its run.
RunOK(m) ==
  /\ m.since # Closed => m.since <= m.stall
  /\ m.at = "saving" => m.todo = {}
  /\ m.at # "down" /\ m.aborted = FALSE => m.due \subseteq m.fired \cup m.todo
  /\ m.at # "down" /\ m.aborted = FALSE /\ m.errors = FALSE
       => m.loaded \subseteq m.evaluated \cup m.todo
  /\ m.at \in {"recording", "notifying"} => R!Turn(m) \subseteq m.evaluated
  /\ m.at = "notifying" => R!Turn(m) \subseteq m.fired

RulesOK == R!TypeOK /\ \A w \in Runners : RunOK(runner[w])

LEMMA OnwardFields ==
  ASSUME NEW m \in R!RunnerStates
  PROVE  /\ R!Onward(m) \in R!RunnerStates
         /\ R!Onward(m).todo = m.todo \ R!Turn(m)
         /\ R!Onward(m).at = IF m.todo \ R!Turn(m) = {} THEN "saving" ELSE "checking"
         /\ R!Onward(m).since = m.since /\ R!Onward(m).stall = m.stall
         /\ R!Onward(m).aborted = m.aborted /\ R!Onward(m).errors = m.errors
         /\ R!Onward(m).due = m.due /\ R!Onward(m).fired = m.fired
         /\ R!Onward(m).evaluated = m.evaluated /\ R!Onward(m).loaded = m.loaded
BY DEF R!Onward, R!RunnerStates

\* Its other fields stay, and a rule that is still due is one that is due now.
LEMMA RanFields ==
  ASSUME NEW m \in R!RunnerStates
  PROVE  /\ Ran(m) \in R!RunnerStates
         /\ Ran(m).due \subseteq m.due /\ Ran(m).due \subseteq R!DueNow' \cup m.fired
         /\ Ran(m).at = m.at /\ Ran(m).todo = m.todo /\ Ran(m).since = m.since
         /\ Ran(m).stall = m.stall /\ Ran(m).aborted = m.aborted /\ Ran(m).errors = m.errors
         /\ Ran(m).fired = m.fired /\ Ran(m).evaluated = m.evaluated /\ Ran(m).loaded = m.loaded
<1>. DEFINE D == R!DueNow' \cup m.fired
<1>1. Ran(m) = [m EXCEPT !.due = @ \cap D]
  BY DEF Ran
<1>. HIDE DEF D
<1>2. [m EXCEPT !.due = @ \cap D] \in R!RunnerStates
  BY DEF R!RunnerStates
<1>3. [m EXCEPT !.due = @ \cap D].due = m.due \cap D
  BY DEF R!RunnerStates
<1>. QED
  BY <1>1, <1>2, <1>3 DEF R!RunnerStates, D

LEMMA RanOK ==
  ASSUME NEW m \in R!RunnerStates, RunOK(m)
  PROVE  RunOK(Ran(m))
<1>1. R!Turn(Ran(m)) = R!Turn(m)
  BY RanFields DEF R!Turn
<1>. QED
  BY <1>1, RanFields DEF RunOK

LEMMA BecomesFields ==
  ASSUME runner \in [Runners -> R!RunnerStates], NEW w \in Runners, NEW n \in R!RunnerStates,
         R!Becomes(w, n)
  PROVE  /\ runner' \in [Runners -> R!RunnerStates]
         /\ runner'[w] = Ran(n)
         /\ \A v \in Runners : v # w => runner'[v] = Ran(runner[v])
<1>. DEFINE run == [runner EXCEPT ![w] = n]
<1>1. run \in [Runners -> R!RunnerStates] /\ run[w] = n
      /\ \A v \in Runners : v # w => run[v] = runner[v]
  OBVIOUS
<1>2. runner' = [v \in Runners |-> Ran(run[v])]
  BY DEF R!Becomes, R!StillDue, Ran
<1>. HIDE DEF run
<1>3. \A v \in Runners : Ran(run[v]) \in R!RunnerStates
  BY <1>1, RanFields
<1>. QED
  BY <1>1, <1>2, <1>3

LEMMA ElsewhereFields ==
  ASSUME runner \in [Runners -> R!RunnerStates], R!Elsewhere
  PROVE  /\ runner' \in [Runners -> R!RunnerStates]
         /\ \A v \in Runners : runner'[v] = Ran(runner[v])
<1>1. runner' = [v \in Runners |-> Ran(runner[v])]
  BY DEF R!Elsewhere, R!StillDue, Ran
<1>2. \A v \in Runners : Ran(runner[v]) \in R!RunnerStates
  BY RanFields
<1>. QED
  BY <1>1, <1>2

\* What operators, plugins and data do to the rules.
LEMMA OutsideTypes ==
  ASSUME RulesOK,
         \/ R!Create
         \/ \E r \in R!Rules : \/ R!Toggle(r) \/ R!Delete(r) \/ R!Uninstall(r)
                               \/ R!Reinstall(r) \/ R!DataChanges(r)
  PROVE  RulesOK'
<1>0. /\ created \in 0..MaxRules /\ MaxRules \in Nat
      /\ {deleted, enabled, invalid, broken, met} \subseteq SUBSET (1..created)
      /\ runner \in [Runners -> R!RunnerStates]
  BY TimesAssumption DEF RulesOK, R!TypeOK
<1>1. R!Elsewhere
  BY DEF R!Create, R!Toggle, R!Delete, R!Uninstall, R!Reinstall, R!DataChanges
<1>2. runner' \in [Runners -> R!RunnerStates] /\ \A v \in Runners : runner'[v] = Ran(runner[v])
  BY <1>0, <1>1, ElsewhereFields
<1>3. \A v \in Runners : RunOK(runner[v])'
  <2>1. \A v \in Runners : RunOK(runner'[v])
    BY <1>0, <1>2, RanOK DEF RulesOK
  <2>. QED
    BY <2>1 DEF RunOK, R!Turn
<1>4. /\ created' \in 0..MaxRules
      /\ {deleted', enabled', invalid', broken', met'} \subseteq SUBSET (1..created')
  <2>1. CASE R!Create
    <3>1. created' = created + 1 /\ created' \in 0..MaxRules /\ 1..created \subseteq 1..created'
          /\ created' \in 1..created'
      BY <1>0, <2>1 DEF R!Create
    <3>2. /\ enabled' \subseteq enabled \cup {created'} /\ invalid' \subseteq invalid \cup {created'}
          /\ UNCHANGED <<deleted, broken, met>>
      BY <2>1 DEF R!Create
    <3>. QED
      BY <1>0, <3>1, <3>2
  <2>2. ASSUME NEW r \in R!Rules, \/ R!Toggle(r) \/ R!Delete(r) \/ R!Uninstall(r)
                                  \/ R!Reinstall(r) \/ R!DataChanges(r)
        PROVE  /\ created' = created
               /\ {deleted', enabled', invalid', broken', met'} \subseteq SUBSET (1..created)
    <3>1. r \in 1..created /\ created' = created
      BY <2>2 DEF R!Toggle, R!Delete, R!Uninstall, R!Reinstall, R!DataChanges, R!Live
    <3>2. /\ deleted' \subseteq deleted \cup {r} /\ enabled' \subseteq enabled \cup {r}
          /\ invalid' = invalid /\ broken' \subseteq broken \cup {r} /\ met' \subseteq met \cup {r}
      BY <2>2 DEF R!Toggle, R!Delete, R!Uninstall, R!Reinstall, R!DataChanges
    <3>. QED
      BY <1>0, <3>1, <3>2
  <2>. QED
    BY <1>0, <2>1, <2>2
<1>. QED
  BY <1>1, <1>2, <1>3, <1>4 DEF RulesOK, R!TypeOK, R!Elsewhere

\* The run of one runner goes on.
LEMMA RunGoesOn ==
  ASSUME RulesOK, NEW w \in Runners, NEW n \in R!RunnerStates, R!Becomes(w, n), RunOK(Ran(n)),
         UNCHANGED R!rules, last' \in [R!Rules -> R!Ages], told' \in [R!Rules -> R!Ages],
         outcome' \in [Runners -> {"none", "success", "error"}], failures' \in 0..MaxFaults
  PROVE  RulesOK'
<1>1. runner \in [Runners -> R!RunnerStates]
  BY DEF RulesOK, R!TypeOK
<1>2. /\ runner' \in [Runners -> R!RunnerStates] /\ runner'[w] = Ran(n)
      /\ \A v \in Runners : v # w => runner'[v] = Ran(runner[v])
  BY <1>1, BecomesFields
<1>3. \A v \in Runners : RunOK(runner'[v])
  BY <1>1, <1>2, RanOK DEF RulesOK
<1>4. \A v \in Runners : RunOK(runner[v])'
  BY <1>3 DEF RunOK, R!Turn
<1>. QED
  BY <1>2, <1>4 DEF RulesOK, R!TypeOK, R!rules

\* What is the turn of no rule but one.
LEMMA OneTurn ==
  ASSUME NEW m \in R!RunnerStates, NEW r \in R!Turn(m)
  PROVE  R!Turn(m) = {r} /\ r \in R!Rules /\ r \in m.todo
<1>1. m.todo \subseteq Int /\ m.todo \subseteq R!Rules
  BY DEF R!RunnerStates, R!Rules
<1>2. ASSUME NEW s \in R!Turn(m) PROVE s = r
  BY <1>1 DEF R!Turn
<1>. QED
  BY <1>1, <1>2 DEF R!Turn

LEMMA FaultType ==
  ASSUME failures \in 0..MaxFaults, R!Fault PROVE failures' \in 0..MaxFaults
BY TimesAssumption DEF R!Fault

LEMMA OpenedType ==
  ASSUME NEW m \in R!RunnerStates, RunOK(m)
  PROVE  R!Opened(m) \in 0..MaxStall /\ R!Opened(m) <= m.stall
BY TimesAssumption DEF R!Opened, R!RunnerStates, RunOK

LEMMA LoadStep ==
  ASSUME RulesOK, NEW w \in Runners, R!Load(w) PROVE RulesOK'
<1>. DEFINE on == R!Live \cap enabled
            n == [R!Down EXCEPT !.at = IF on = {} THEN "saving" ELSE "checking",
                       !.todo = on, !.since = 0, !.due = R!DueNow, !.loaded = on]
<1>1. runner' = [runner EXCEPT ![w] = n] /\ outcome' = [outcome EXCEPT ![w] = "none"]
      /\ UNCHANGED <<R!rules, last, told, failures>>
  BY DEF R!Load
<1>2. on \subseteq R!Rules /\ R!DueNow \subseteq on
  BY TimesAssumption DEF RulesOK, R!TypeOK, R!Live, R!Rules, R!DueNow
<1>3. n \in R!RunnerStates
  <2>1. on \in SUBSET R!Rules /\ R!DueNow \in SUBSET R!Rules /\ 0 \in 0..MaxStall
    BY <1>2, TimesAssumption
  <2>. HIDE DEF on
  <2>. QED
    BY <2>1 DEF R!Down, R!RunnerStates
<1>4. RunOK(n)
  BY <1>2, TimesAssumption DEF R!Down, RunOK
<1>. HIDE DEF n
<1>5. /\ runner' \in [Runners -> R!RunnerStates]
      /\ \A v \in Runners : runner'[v] = IF v = w THEN n ELSE runner[v]
  BY <1>1, <1>3 DEF RulesOK, R!TypeOK
<1>6. \A v \in Runners : RunOK(runner[v])'
  <2>1. \A v \in Runners : RunOK(runner'[v])
    BY <1>4, <1>5 DEF RulesOK
  <2>. QED
    BY <2>1 DEF RunOK, R!Turn
<1>. QED
  BY <1>1, <1>5, <1>6 DEF RulesOK, R!TypeOK, R!rules

LEMMA TickStep ==
  ASSUME RulesOK, R!Tick PROVE RulesOK'
<1>0. /\ runner \in [Runners -> R!RunnerStates] /\ last \in [R!Rules -> R!Ages]
      /\ told \in [R!Rules -> R!Ages] /\ Cooldown \in Nat /\ MaxStall \in Nat
  BY TimesAssumption DEF RulesOK, R!TypeOK
<1>1. \A a \in R!Ages : R!Older(a) \in R!Ages
  BY <1>0 DEF R!Older, R!Ages
<1>2. last' \in [R!Rules -> R!Ages] /\ told' \in [R!Rules -> R!Ages]
  BY <1>0, <1>1 DEF R!Tick
<1>3. ASSUME NEW v \in Runners
      PROVE  runner'[v] \in R!RunnerStates /\ RunOK(runner'[v])
  <2>. DEFINE m == runner[v]
              n == [m EXCEPT !.stall = @ + 1, !.since = IF @ = Closed THEN @ ELSE @ + 1]
  <2>1. m \in R!RunnerStates /\ RunOK(m)
    BY <1>0 DEF RulesOK
  <2>2. CASE m.at = "down"
    <3>1. runner'[v] = R!Down
      BY <2>2 DEF R!Tick
    <3>. QED
      BY <3>1, DownType DEF R!Down, RunOK
  <2>3. CASE m.at # "down"
    <3>1. runner'[v] = n /\ m.stall < MaxStall
      BY <2>3 DEF R!Tick
    <3>2. m.stall + 1 \in 0..MaxStall
      BY <1>0, <2>1, <3>1 DEF R!RunnerStates
    <3>3. m.since # Closed => m.since + 1 \in 0..MaxStall /\ m.since + 1 <= m.stall + 1
      BY <1>0, <2>1, <3>2 DEF R!RunnerStates, RunOK
    <3>. HIDE DEF m
    <3>4. n \in R!RunnerStates
      BY <2>1, <3>2, <3>3 DEF R!RunnerStates
    <3>5. /\ n.since = (IF m.since = Closed THEN Closed ELSE m.since + 1) /\ n.stall = m.stall + 1
          /\ n.at = m.at /\ n.todo = m.todo /\ n.aborted = m.aborted /\ n.errors = m.errors
          /\ n.due = m.due /\ n.fired = m.fired /\ n.evaluated = m.evaluated /\ n.loaded = m.loaded
      BY <2>1 DEF R!RunnerStates
    <3>6. R!Turn(n) = R!Turn(m)
      BY <3>5 DEF R!Turn
    <3>. HIDE DEF n
    <3>7. RunOK(n)
      BY <2>1, <3>3, <3>5, <3>6 DEF RunOK
    <3>. QED
      BY <3>1, <3>4, <3>7 DEF m, n
  <2>. QED
    BY <2>2, <2>3
<1>4. runner' = [v \in Runners |-> runner'[v]]
  BY DEF R!Tick
<1>5. runner' \in [Runners -> R!RunnerStates]
  BY <1>3, <1>4
<1>6. \A v \in Runners : RunOK(runner[v])'
  BY <1>3 DEF RunOK, R!Turn
<1>. QED
  BY <1>2, <1>5, <1>6 DEF RulesOK, R!TypeOK, R!Tick, R!rules

-----------------------------------------------------------------------------
(* The runner of alert rules: what a run has done of what it has loaded.   *)

\* The loop goes on after a rule that has fired or is not due, and has been
\* decided unless the run has failed.
LEMMA OnwardOK ==
  ASSUME NEW m \in R!RunnerStates, RunOK(m), m.at # "down", NEW r \in R!Turn(m),
         NEW n \in R!RunnerStates, n.todo = m.todo \ {r},
         n.at = IF m.todo \ {r} = {} THEN "saving" ELSE "checking",
         n.due = m.due, n.loaded = m.loaded, n.fired = m.fired,
         n.since # Closed => n.since <= n.stall,
         m.evaluated \subseteq n.evaluated,
         n.aborted = FALSE => m.aborted = FALSE /\ (r \in m.fired \/ r \notin R!DueNow'),
         n.aborted = FALSE /\ n.errors = FALSE => m.errors = FALSE /\ r \in n.evaluated
  PROVE  RunOK(Ran(n))
<1>1. /\ Ran(n).due \subseteq m.due /\ Ran(n).due \subseteq R!DueNow' \cup m.fired
      /\ Ran(n).at = n.at /\ Ran(n).todo = n.todo /\ Ran(n).since = n.since
      /\ Ran(n).stall = n.stall /\ Ran(n).aborted = n.aborted /\ Ran(n).errors = n.errors
      /\ Ran(n).fired = m.fired /\ Ran(n).evaluated = n.evaluated /\ Ran(n).loaded = m.loaded
  BY RanFields
<1>2. n.aborted = FALSE => Ran(n).due \subseteq m.fired \cup n.todo
  BY <1>1 DEF RunOK
<1>3. n.aborted = FALSE /\ n.errors = FALSE => m.loaded \subseteq n.evaluated \cup n.todo
  BY DEF RunOK
<1>. QED
  BY <1>1, <1>2, <1>3 DEF RunOK

\* A run whose transaction is aborted goes on, whatever it does.
LEMMA AbortedOK ==
  ASSUME NEW m \in R!RunnerStates, RunOK(m), NEW n \in R!RunnerStates,
         \/ n = [R!Onward(m) EXCEPT !.errors = TRUE] /\ m.aborted = TRUE
         \/ n = R!Failed(m)
         \/ n = [R!Failed(m) EXCEPT !.errors = TRUE]
  PROVE  RunOK(Ran(n))
<1>1. /\ R!Onward(m) \in R!RunnerStates
      /\ R!Onward(m).since = m.since /\ R!Onward(m).stall = m.stall
      /\ R!Onward(m).aborted = m.aborted
      /\ R!Onward(m).at \in {"saving", "checking"}
      /\ R!Onward(m).at = "saving" => R!Onward(m).todo = {}
  BY OnwardFields
<1>2. /\ n.since = m.since /\ n.stall = m.stall /\ n.aborted = TRUE
      /\ n.at \in {"saving", "checking"}
      /\ n.at = "saving" => n.todo = {}
  BY <1>1 DEF R!Failed, R!RunnerStates
<1>. QED
  BY <1>2, RanFields DEF RunOK

\* Only a trigger changes what is due now.
LEMMA DueNowStays ==
  ASSUME UNCHANGED <<R!rules, last>> PROVE R!DueNow' = R!DueNow
BY DEF R!DueNow, R!rules, R!Live, R!Cooling

LEMMA CheckStep ==
  ASSUME RulesOK, NEW w \in Runners, R!Check(w) PROVE RulesOK'
<1>. DEFINE m == runner[w]
            open == [m EXCEPT !.since = R!Opened(m)]
<1>1. PICK r \in R!Turn(m) :
        /\ m.at = "checking"
        /\ UNCHANGED <<R!rules, last, outcome, told, failures>>
        /\ \/ /\ m.aborted
              /\ R!Becomes(w, [R!Onward(m) EXCEPT !.errors = TRUE])
           \/ /\ ~m.aborted /\ R!Cooling(r)
              /\ R!Becomes(w, [R!Onward(open) EXCEPT !.evaluated = @ \cup {r}])
           \/ /\ ~m.aborted /\ ~R!Cooling(r) /\ r \in invalid
              /\ R!Becomes(w, [R!Onward(open) EXCEPT !.errors = TRUE])
           \/ /\ ~m.aborted /\ ~R!Cooling(r) /\ r \notin invalid
              /\ R!Becomes(w, [open EXCEPT !.at = "querying"])
  BY DEF R!Check
<1>2. /\ m \in R!RunnerStates /\ RunOK(m)
      /\ last' \in [R!Rules -> R!Ages] /\ told' \in [R!Rules -> R!Ages]
      /\ outcome' \in [Runners -> {"none", "success", "error"}] /\ failures' \in 0..MaxFaults
      /\ UNCHANGED R!rules
  BY <1>1 DEF RulesOK, R!TypeOK
<1>3. R!DueNow' = R!DueNow
  BY <1>1, DueNowStays
<1>. HIDE DEF m
<1>4. R!Turn(m) = {r} /\ r \in R!Rules /\ r \in m.todo
  BY <1>2, OneTurn
<1>5. /\ open \in R!RunnerStates /\ open.since = R!Opened(m) /\ open.stall = m.stall
      /\ open.at = m.at /\ open.todo = m.todo /\ open.aborted = m.aborted
      /\ open.errors = m.errors /\ open.due = m.due /\ open.fired = m.fired
      /\ open.evaluated = m.evaluated /\ open.loaded = m.loaded
  BY <1>2, OpenedType DEF R!RunnerStates
<1>6. R!Turn(open) = {r} /\ R!Opened(m) <= m.stall
  BY <1>2, <1>4, <1>5, OpenedType DEF R!Turn
<1>7. ASSUME NEW n \in R!RunnerStates, R!Becomes(w, n), RunOK(Ran(n)) PROVE RulesOK'
  BY <1>2, <1>7, RunGoesOn
<1>. HIDE DEF open
<1>8. /\ R!Onward(open) \in R!RunnerStates
      /\ R!Onward(open).todo = m.todo \ {r}
      /\ R!Onward(open).at = IF m.todo \ {r} = {} THEN "saving" ELSE "checking"
      /\ R!Onward(open).since = R!Opened(m) /\ R!Onward(open).stall = m.stall
      /\ R!Onward(open).aborted = m.aborted /\ R!Onward(open).errors = m.errors
      /\ R!Onward(open).due = m.due /\ R!Onward(open).fired = m.fired
      /\ R!Onward(open).evaluated = m.evaluated /\ R!Onward(open).loaded = m.loaded
  BY <1>5, <1>6, OnwardFields
<1>9. CASE m.aborted /\ R!Becomes(w, [R!Onward(m) EXCEPT !.errors = TRUE])
  <2>. DEFINE n == [R!Onward(m) EXCEPT !.errors = TRUE]
  <2>1. n \in R!RunnerStates /\ m.aborted = TRUE
    <3>1. R!Onward(m) \in R!RunnerStates /\ m.aborted \in BOOLEAN
      BY <1>2, OnwardFields DEF R!RunnerStates
    <3>. QED
      BY <1>9, <3>1 DEF R!RunnerStates
  <2>. QED
    BY <1>2, <1>7, <1>9, <2>1, AbortedOK
<1>10. CASE /\ ~m.aborted /\ R!Cooling(r)
            /\ R!Becomes(w, [R!Onward(open) EXCEPT !.evaluated = @ \cup {r}])
  <2>. DEFINE n == [R!Onward(open) EXCEPT !.evaluated = @ \cup {r}]
  <2>1. /\ n \in R!RunnerStates /\ n.todo = m.todo \ {r}
        /\ n.at = (IF m.todo \ {r} = {} THEN "saving" ELSE "checking")
        /\ n.since = R!Opened(m) /\ n.stall = m.stall /\ n.due = m.due /\ n.loaded = m.loaded
        /\ n.fired = m.fired /\ n.evaluated = m.evaluated \cup {r}
        /\ n.errors = m.errors /\ m.aborted = FALSE
    BY <1>2, <1>4, <1>8, <1>10 DEF R!RunnerStates
  <2>2. r \notin R!DueNow'
    BY <1>3, <1>10 DEF R!DueNow
  <2>. HIDE DEF n
  <2>3. RunOK(Ran(n))
    BY <1>1, <1>2, <1>6, <2>1, <2>2, OnwardOK DEF m
  <2>. QED
    BY <1>7, <1>10, <2>1, <2>3 DEF n
<1>11. CASE /\ ~m.aborted /\ ~R!Cooling(r) /\ r \in invalid
            /\ R!Becomes(w, [R!Onward(open) EXCEPT !.errors = TRUE])
  <2>. DEFINE n == [R!Onward(open) EXCEPT !.errors = TRUE]
  <2>1. /\ n \in R!RunnerStates /\ n.todo = m.todo \ {r}
        /\ n.at = (IF m.todo \ {r} = {} THEN "saving" ELSE "checking")
        /\ n.since = R!Opened(m) /\ n.stall = m.stall /\ n.due = m.due /\ n.loaded = m.loaded
        /\ n.fired = m.fired /\ n.evaluated = m.evaluated
        /\ n.errors = TRUE /\ m.aborted = FALSE
    BY <1>2, <1>4, <1>8, <1>11 DEF R!RunnerStates
  <2>2. r \notin R!DueNow'
    BY <1>3, <1>11 DEF R!DueNow
  <2>. HIDE DEF n
  <2>3. RunOK(Ran(n))
    BY <1>1, <1>2, <1>6, <2>1, <2>2, OnwardOK DEF m
  <2>. QED
    BY <1>7, <1>11, <2>1, <2>3 DEF n
<1>12. CASE R!Becomes(w, [open EXCEPT !.at = "querying"])
  <2>. DEFINE n == [open EXCEPT !.at = "querying"]
  <2>1. /\ n \in R!RunnerStates /\ n.at = "querying" /\ n.todo = m.todo
        /\ n.since = R!Opened(m) /\ n.stall = m.stall /\ n.due = m.due /\ n.loaded = m.loaded
        /\ n.fired = m.fired /\ n.evaluated = m.evaluated
        /\ n.errors = m.errors /\ n.aborted = m.aborted
    BY <1>5 DEF R!RunnerStates
  <2>. HIDE DEF n
  <2>2. RunOK(n)
    BY <1>1, <1>2, <1>6, <2>1 DEF RunOK, m
  <2>. QED
    BY <1>7, <1>12, <2>1, <2>2, RanOK DEF n
<1>. QED
  BY <1>1, <1>9, <1>10, <1>11, <1>12

LEMMA FailedType ==
  ASSUME NEW m \in R!RunnerStates
  PROVE  R!Failed(m) \in R!RunnerStates
         /\ [R!Failed(m) EXCEPT !.errors = TRUE] \in R!RunnerStates
<1>1. R!Failed(m) \in R!RunnerStates
  BY OnwardFields DEF R!Failed, R!RunnerStates
<1>. QED
  BY <1>1 DEF R!RunnerStates

LEMMA QueryStep ==
  ASSUME RulesOK, NEW w \in Runners, R!Query(w) PROVE RulesOK'
<1>. DEFINE m == runner[w]
            found(r) == [IF r \in met THEN [m EXCEPT !.at = "recording"] ELSE R!Onward(m)
                           EXCEPT !.evaluated = @ \cup {r}]
<1>1. PICK r \in R!Turn(m) :
        /\ m.at = "querying"
        /\ UNCHANGED <<R!rules, last, outcome, told>>
        /\ \/ r \in broken /\ UNCHANGED failures /\ R!Becomes(w, R!Failed(m))
           \/ R!Fault /\ R!Becomes(w, R!Failed(m))
           \/ r \notin broken /\ R!Becomes(w, found(r)) /\ UNCHANGED failures
  BY DEF R!Query
<1>2. /\ m \in R!RunnerStates /\ RunOK(m)
      /\ last' \in [R!Rules -> R!Ages] /\ told' \in [R!Rules -> R!Ages]
      /\ outcome' \in [Runners -> {"none", "success", "error"}] /\ failures' \in 0..MaxFaults
      /\ UNCHANGED R!rules
  BY <1>1, FaultType DEF RulesOK, R!TypeOK
<1>3. R!DueNow' = R!DueNow
  BY <1>1, DueNowStays
<1>. HIDE DEF m
<1>4. R!Turn(m) = {r} /\ r \in R!Rules /\ r \in m.todo
  BY <1>2, OneTurn
<1>5. ASSUME NEW n \in R!RunnerStates, R!Becomes(w, n), RunOK(Ran(n)) PROVE RulesOK'
  BY <1>2, <1>5, RunGoesOn
<1>6. CASE R!Becomes(w, R!Failed(m))
  BY <1>2, <1>5, <1>6, FailedType, AbortedOK
<1>7. CASE R!Becomes(w, found(r)) /\ r \notin met
  <2>. DEFINE n == [R!Onward(m) EXCEPT !.evaluated = @ \cup {r}]
  <2>1. R!Becomes(w, n)
    BY <1>7
  <2>2. /\ n \in R!RunnerStates /\ n.todo = m.todo \ {r}
        /\ n.at = (IF m.todo \ {r} = {} THEN "saving" ELSE "checking")
        /\ n.since = m.since /\ n.stall = m.stall /\ n.due = m.due /\ n.loaded = m.loaded
        /\ n.fired = m.fired /\ n.evaluated = m.evaluated \cup {r}
        /\ n.errors = m.errors /\ n.aborted = m.aborted
    BY <1>2, <1>4, OnwardFields DEF R!RunnerStates
  <2>3. r \notin R!DueNow'
    BY <1>3, <1>7 DEF R!DueNow
  <2>. HIDE DEF n
  <2>4. n.since # Closed => n.since <= n.stall
    BY <1>2, <2>2 DEF RunOK
  <2>5. RunOK(Ran(n))
    BY <1>1, <1>2, <2>2, <2>3, <2>4, OnwardOK DEF m
  <2>. QED
    BY <1>5, <2>1, <2>2, <2>5
<1>8. CASE R!Becomes(w, found(r)) /\ r \in met
  <2>. DEFINE n == [[m EXCEPT !.at = "recording"] EXCEPT !.evaluated = @ \cup {r}]
  <2>1. R!Becomes(w, n)
    BY <1>8
  <2>2. /\ n \in R!RunnerStates /\ n.todo = m.todo /\ n.at = "recording"
        /\ n.since = m.since /\ n.stall = m.stall /\ n.due = m.due /\ n.loaded = m.loaded
        /\ n.fired = m.fired /\ n.evaluated = m.evaluated \cup {r}
        /\ n.errors = m.errors /\ n.aborted = m.aborted
    BY <1>2, <1>4 DEF R!RunnerStates
  <2>. HIDE DEF n
  <2>3. R!Turn(n) = {r}
    BY <1>4, <2>2 DEF R!Turn
  <2>4. m.at = "querying"
    BY <1>1 DEF m
  <2>5. RunOK(n)
    BY <1>2, <2>2, <2>3, <2>4 DEF RunOK
  <2>. QED
    BY <1>5, <2>1, <2>2, <2>5, RanOK
<1>. QED
  BY <1>1, <1>6, <1>7, <1>8 DEF m

LEMMA RecordStep ==
  ASSUME RulesOK, NEW w \in Runners, R!Record(w) PROVE RulesOK'
<1>. DEFINE m == runner[w]
            n(r) == [m EXCEPT !.at = "notifying", !.since = Closed, !.fired = @ \cup {r}]
<1>1. PICK r \in R!Turn(m) :
        /\ m.at = "recording"
        /\ last' = [last EXCEPT ![r] = IF R!Opened(m) \in R!Ages THEN R!Opened(m) ELSE Cooldown]
        /\ UNCHANGED <<R!rules, outcome, told, failures>>
        /\ R!Becomes(w, n(r))
  BY DEF R!Record
<1>2. /\ m \in R!RunnerStates /\ RunOK(m) /\ last' \in [R!Rules -> R!Ages]
      /\ told' \in [R!Rules -> R!Ages] /\ UNCHANGED R!rules
      /\ outcome' \in [Runners -> {"none", "success", "error"}] /\ failures' \in 0..MaxFaults
  <2>1. Cooldown \in R!Ages
    BY TimesAssumption DEF R!Ages
  <2>2. (IF R!Opened(m) \in R!Ages THEN R!Opened(m) ELSE Cooldown) \in R!Ages
    BY <2>1
  <2>3. last \in [R!Rules -> R!Ages]
    BY DEF RulesOK, R!TypeOK
  <2>4. last' \in [R!Rules -> R!Ages]
    BY <1>1, <2>2, <2>3
  <2>. QED
    BY <1>1, <2>4 DEF RulesOK, R!TypeOK
<1>. HIDE DEF m
<1>3. R!Turn(m) = {r} /\ r \in R!Rules
  BY <1>2, OneTurn
<1>4. /\ n(r) \in R!RunnerStates /\ n(r).todo = m.todo /\ n(r).at = "notifying"
      /\ n(r).since = Closed /\ n(r).stall = m.stall /\ n(r).due = m.due
      /\ n(r).loaded = m.loaded /\ n(r).fired = m.fired \cup {r}
      /\ n(r).evaluated = m.evaluated /\ n(r).errors = m.errors /\ n(r).aborted = m.aborted
  BY <1>2, <1>3 DEF R!RunnerStates
<1>5. R!Becomes(w, n(r)) /\ m.at = "recording"
  BY <1>1 DEF m
<1>. HIDE DEF n
<1>6. R!Turn(n(r)) = {r}
  BY <1>3, <1>4 DEF R!Turn
<1>7. RunOK(n(r))
  BY <1>2, <1>3, <1>4, <1>5, <1>6 DEF RunOK
<1>. QED
  BY <1>2, <1>4, <1>5, <1>7, RanOK, RunGoesOn

LEMMA RecordFailsStep ==
  ASSUME RulesOK, NEW w \in Runners, R!RecordFails(w) PROVE RulesOK'
<1>. DEFINE m == runner[w]
            n == [R!Failed(m) EXCEPT !.errors = TRUE]
<1>1. /\ m \in R!RunnerStates /\ RunOK(m)
      /\ last' \in [R!Rules -> R!Ages] /\ told' \in [R!Rules -> R!Ages]
      /\ outcome' \in [Runners -> {"none", "success", "error"}] /\ failures' \in 0..MaxFaults
      /\ UNCHANGED R!rules /\ R!Becomes(w, n)
  BY FaultType DEF R!RecordFails, RulesOK, R!TypeOK
<1>. HIDE DEF m
<1>2. n \in R!RunnerStates /\ RunOK(Ran(n))
  BY <1>1, FailedType, AbortedOK
<1>. QED
  BY <1>1, <1>2, RunGoesOn

LEMMA NotifyStep ==
  ASSUME RulesOK, NEW w \in Runners, R!Notify(w) PROVE RulesOK'
<1>. DEFINE m == runner[w]
            n == R!Onward(m)
<1>1. PICK r \in R!Turn(m) :
        /\ m.at = "notifying"
        /\ \E delivered \in BOOLEAN : told' = IF delivered THEN [told EXCEPT ![r] = 0] ELSE told
        /\ UNCHANGED <<R!rules, last, outcome, failures>>
        /\ R!Becomes(w, n)
  BY DEF R!Notify
<1>2. /\ m \in R!RunnerStates /\ RunOK(m) /\ last' \in [R!Rules -> R!Ages]
      /\ told' \in [R!Rules -> R!Ages] /\ UNCHANGED R!rules
      /\ outcome' \in [Runners -> {"none", "success", "error"}] /\ failures' \in 0..MaxFaults
  <2>1. 0 \in R!Ages /\ told \in [R!Rules -> R!Ages]
    BY TimesAssumption DEF R!Ages, RulesOK, R!TypeOK
  <2>2. told' = [told EXCEPT ![r] = 0] \/ told' = told
    BY <1>1
  <2>3. told' \in [R!Rules -> R!Ages]
    BY <2>1, <2>2
  <2>. QED
    BY <1>1, <2>3 DEF RulesOK, R!TypeOK
<1>. HIDE DEF m
<1>3. R!Turn(m) = {r} /\ m.at = "notifying"
  BY <1>1, <1>2, OneTurn DEF m
<1>4. /\ n \in R!RunnerStates /\ n.todo = m.todo \ {r}
      /\ n.at = (IF m.todo \ {r} = {} THEN "saving" ELSE "checking")
      /\ n.since = m.since /\ n.stall = m.stall /\ n.due = m.due /\ n.loaded = m.loaded
      /\ n.fired = m.fired /\ n.evaluated = m.evaluated
      /\ n.errors = m.errors /\ n.aborted = m.aborted
  BY <1>2, <1>3, OnwardFields
<1>5. R!Becomes(w, n)
  BY <1>1
<1>. HIDE DEF n
<1>6. RunOK(Ran(n))
  <2>1. r \in m.fired /\ r \in m.evaluated
    BY <1>2, <1>3 DEF RunOK
  <2>2. n.since # Closed => n.since <= n.stall
    BY <1>2, <1>4 DEF RunOK
  <2>. QED
    BY <1>1, <1>2, <1>3, <1>4, <2>1, <2>2, OnwardOK
<1>. QED
  BY <1>2, <1>4, <1>5, <1>6, RunGoesOn

LEMMA EndStep ==
  ASSUME RulesOK, NEW w \in Runners, R!Save(w) \/ R!Crash(w) PROVE RulesOK'
<1>1. /\ last' \in [R!Rules -> R!Ages] /\ told' \in [R!Rules -> R!Ages]
      /\ outcome' \in [Runners -> {"none", "success", "error"}] /\ failures' \in 0..MaxFaults
      /\ UNCHANGED R!rules /\ R!Becomes(w, R!Down)
  BY FaultType DEF R!Save, R!Crash, RulesOK, R!TypeOK
<1>2. R!Down.at = "down" /\ R!Down.since = Closed
  BY DEF R!Down
<1>3. RunOK(Ran(R!Down))
  BY <1>2, DownType, RanFields DEF RunOK
<1>. QED
  BY <1>1, <1>3, DownType, RunGoesOn

LEMMA RulesInit == R!Init => RulesOK
<1>. SUFFICES ASSUME R!Init PROVE RulesOK
  OBVIOUS
<1>1. \A w \in Runners : runner[w] = R!Down
  BY DEF R!Init
<1>2. RunOK(R!Down)
  BY DEF R!Down, RunOK
<1>3. R!TypeOK
  BY DownType, TimesAssumption DEF R!Init, R!TypeOK, R!Ages
<1>. QED
  BY <1>1, <1>2, <1>3 DEF RulesOK

LEMMA RulesStep == RulesOK /\ [R!Next]_R!vars => RulesOK'
<1>. SUFFICES ASSUME RulesOK, [R!Next]_R!vars PROVE RulesOK'
  OBVIOUS
<1>1. CASE UNCHANGED R!vars
  BY <1>1 DEF R!vars, R!rules, RulesOK, R!TypeOK, RunOK, R!Turn
<1>2. ASSUME NEW w \in Runners, R!RunnerNext(w) PROVE RulesOK'
  BY <1>2, LoadStep, CheckStep, QueryStep, RecordStep, RecordFailsStep, NotifyStep, EndStep
     DEF R!RunnerNext
<1>. QED
  BY <1>1, <1>2, OutsideTypes, TickStep DEF R!Next

-----------------------------------------------------------------------------
(* The runner of alert rules: theorems.                                    *)

\* Either of the two moves as its own specification says.
LEMMA EitherMoves ==
  /\ MCInit => Init /\ R!Init
  /\ [MCNext]_<<side, vars, rules>> => [Next]_vars /\ [R!Next]_R!vars
BY DEF MCInit, MCNext, rules, R!vars, R!rules

LEMMA RunsAreOK == MCSpec => []RulesOK
BY EitherMoves, RulesInit, RulesStep, PTL DEF MCSpec

\* The bridge and the runner keep their types.
THEOREM BothTypesCorrect == MCSpec => []BothTypeOK
<1>1. MCSpec => Spec
  BY EitherMoves, PTL DEF MCSpec, Spec
<1>2. TypeOK /\ RulesOK => BothTypeOK
  BY DEF RulesOK, BothTypeOK
<1>. QED
  BY <1>1, <1>2, TypeCorrect, RunsAreOK, PTL

\* A rule that could fire throughout a run and did not was behind a statement
\* that failed in the same run.
THEOREM SilenceHasACause == MCSpec => []SilencedOnlyBehindAFailure
<1>1. ASSUME RulesOK, NEW w \in Runners, runner[w].at = "saving", ~runner[w].aborted
      PROVE  runner[w].due \subseteq runner[w].fired
  BY <1>1 DEF RulesOK, R!TypeOK, R!RunnerStates, RunOK
<1>2. RulesOK => SilencedOnlyBehindAFailure
  BY <1>1 DEF SilencedOnlyBehindAFailure, R!SilencedOnlyBehindAFailure
<1>. QED
  BY <1>2, RunsAreOK, PTL

\* A run recorded as a success has decided every rule it loaded.
THEOREM SuccessesAreWhole == MCSpec => SuccessMeansDecided
<1>. DEFINE Whole == \A w \in Runners :
       outcome'[w] = "success" /\ outcome[w] # "success"
         => runner[w].loaded \subseteq runner[w].evaluated
<1>1. ASSUME RulesOK, R!Next, NEW w \in Runners,
             outcome'[w] = "success", outcome[w] # "success"
      PROVE  runner[w].loaded \subseteq runner[w].evaluated
  <2>1. PICK v \in Runners : R!Save(v) \/ R!Load(v)
    BY <1>1 DEF R!Next, R!RunnerNext, R!Create, R!Toggle, R!Delete, R!Uninstall, R!Reinstall,
                R!DataChanges, R!Elsewhere, R!Tick, R!Check, R!Query, R!Record, R!RecordFails,
                R!Notify, R!Crash
  <2>2. outcome \in [Runners -> {"none", "success", "error"}] /\ RunOK(runner[w])
        /\ runner[w] \in R!RunnerStates
    BY <1>1 DEF RulesOK, R!TypeOK
  <2>3. R!Save(v) /\ v = w
    BY <1>1, <2>1, <2>2 DEF R!Save, R!Load
  <2>4. runner[w].at = "saving" /\ ~runner[w].aborted /\ ~runner[w].errors
    BY <1>1, <2>2, <2>3 DEF R!Save
  <2>5. runner[w].aborted = FALSE /\ runner[w].errors = FALSE
    BY <2>2, <2>4 DEF R!RunnerStates
  <2>. QED
    BY <2>2, <2>4, <2>5 DEF RunOK
<1>2. RulesOK /\ [R!Next]_R!vars => [Whole]_R!vars
  BY <1>1
<1>3. [][Whole]_R!vars => SuccessMeansDecided
  BY DEF SuccessMeansDecided, R!SuccessMeansDecided
<1>. HIDE DEF Whole
<1>. QED
  BY <1>2, <1>3, EitherMoves, RunsAreOK, PTL DEF MCSpec

\* There is one runner: PM2's cron starts one, and only after the last.
Alone == \A v, w \in Runners : v = w

\* A trigger is never much older than its notification, and one that is about to
\* be notified is younger than its run.
Near ==
  /\ \A r \in R!Rules : last[r] <= told[r] + MaxStall
  /\ \A w \in Runners : \A r \in R!Turn(runner[w]) :
       /\ runner[w].at \in {"querying", "recording", "notifying"}
            => told[r] >= Cooldown - MaxStall
       /\ runner[w].at = "notifying" => last[r] <= runner[w].stall

\* A step after which the runner is at no rule that it may fire.
LEMMA NearQuiet ==
  ASSUME RulesOK, Alone, NEW w \in Runners, NEW n \in R!RunnerStates, R!Becomes(w, n),
         n.at \notin {"querying", "recording", "notifying"},
         \A r \in R!Rules : last'[r] <= told'[r] + MaxStall
  PROVE  Near'
<1>1. runner'[w] = Ran(n)
  BY BecomesFields DEF RulesOK, R!TypeOK
<1>2. \A v \in Runners : runner'[v].at \notin {"querying", "recording", "notifying"}
  BY <1>1, RanFields DEF Alone
<1>. QED
  BY <1>2 DEF Near

\* One after which it is at the rule it was at.
LEMMA NearStays ==
  ASSUME RulesOK, Alone, NEW w \in Runners, NEW n \in R!RunnerStates, R!Becomes(w, n),
         n.todo = runner[w].todo,
         \A r \in R!Rules : last'[r] <= told'[r] + MaxStall,
         \A r \in R!Turn(runner[w]) :
           told'[r] >= Cooldown - MaxStall /\ (n.at = "notifying" => last'[r] <= n.stall)
  PROVE  Near'
<1>1. runner'[w] = Ran(n)
  BY BecomesFields DEF RulesOK, R!TypeOK
<1>2. runner'[w].at = n.at /\ runner'[w].todo = runner[w].todo /\ runner'[w].stall = n.stall
  BY <1>1, RanFields
<1>3. R!Turn(runner[w])' = R!Turn(runner[w])
  BY <1>2 DEF R!Turn
<1>4. \A v \in Runners : v = w
  BY DEF Alone
<1>. QED
  BY <1>2, <1>3, <1>4 DEF Near

LEMMA NearTick ==
  ASSUME RulesOK, Near, R!Tick PROVE Near'
<1>0. /\ last \in [R!Rules -> R!Ages] /\ told \in [R!Rules -> R!Ages]
      /\ Cooldown \in Nat /\ MaxStall \in Nat
  BY TimesAssumption DEF RulesOK, R!TypeOK
<1>1. ASSUME NEW r \in R!Rules
      PROVE  /\ last'[r] <= told'[r] + MaxStall
             /\ told'[r] >= told[r] /\ last'[r] <= last[r] + 1
             /\ last[r] \in Int /\ told[r] \in Int /\ last'[r] \in Int /\ told'[r] \in Int
  <2>1. /\ last[r] \in 0..Cooldown /\ told[r] \in 0..Cooldown /\ last[r] <= told[r] + MaxStall
        /\ last'[r] = R!Older(last[r]) /\ told'[r] = R!Older(told[r])
    BY <1>0 DEF R!Tick, R!Ages, Near
  <2>. QED
    BY <1>0, <2>1 DEF R!Older
<1>2. ASSUME NEW w \in Runners, NEW r \in R!Turn(runner'[w])
      PROVE  /\ runner'[w].at \in {"querying", "recording", "notifying"}
                  => told'[r] >= Cooldown - MaxStall
             /\ runner'[w].at = "notifying" => last'[r] <= runner'[w].stall
  <2>1. CASE runner[w].at = "down"
    BY <2>1 DEF R!Tick, R!Down
  <2>2. CASE runner[w].at # "down"
    <3>1. runner[w] \in R!RunnerStates
      BY DEF RulesOK, R!TypeOK
    <3>2. runner'[w] = [runner[w] EXCEPT !.stall = @ + 1,
                                         !.since = IF @ = Closed THEN @ ELSE @ + 1]
      BY <2>2 DEF R!Tick
    <3>3. /\ runner'[w].at = runner[w].at /\ runner'[w].todo = runner[w].todo
          /\ runner'[w].stall = runner[w].stall + 1
      BY <3>1, <3>2 DEF R!RunnerStates
    <3>4. r \in R!Turn(runner[w])
      BY <3>3 DEF R!Turn
    <3>5. r \in R!Rules
      BY <3>1, <3>4, OneTurn
    <3>6. /\ told'[r] >= told[r] /\ last'[r] <= last[r] + 1
          /\ last[r] \in Int /\ told[r] \in Int /\ last'[r] \in Int /\ told'[r] \in Int
          /\ runner[w].stall \in Int
      BY <1>0, <1>1, <3>1, <3>5 DEF R!RunnerStates
    <3>7. /\ runner[w].at \in {"querying", "recording", "notifying"}
               => told[r] >= Cooldown - MaxStall
          /\ runner[w].at = "notifying" => last[r] <= runner[w].stall
      BY <3>4 DEF Near
    <3>. QED
      BY <1>0, <3>3, <3>6, <3>7
  <2>. QED
    BY <2>1, <2>2
<1>. QED
  BY <1>1, <1>2 DEF Near, R!Turn

LEMMA NearRun ==
  ASSUME RulesOK, Near, Alone, NEW w \in Runners, R!RunnerNext(w)
  PROVE  Near'
<1>. DEFINE m == runner[w]
            open == [m EXCEPT !.since = R!Opened(m)]
<1>0. /\ last \in [R!Rules -> R!Ages] /\ told \in [R!Rules -> R!Ages]
      /\ Cooldown \in Nat /\ MaxStall \in Nat /\ m \in R!RunnerStates /\ RunOK(m)
      /\ \A r \in R!Rules : last[r] \in 0..Cooldown /\ told[r] \in 0..Cooldown
      /\ m.stall \in 0..MaxStall /\ runner \in [Runners -> R!RunnerStates]
  BY TimesAssumption DEF RulesOK, R!TypeOK, R!Ages, R!RunnerStates
<1>1. \A r \in R!Rules : last[r] <= told[r] + MaxStall
  BY DEF Near
<1>2. /\ \A r \in R!Turn(m) : r \in R!Rules /\ R!Turn(m) = {r}
      /\ open \in R!RunnerStates /\ open.todo = m.todo
      /\ R!Opened(m) \in 0..MaxStall /\ R!Opened(m) <= m.stall
  <2>1. R!Opened(m) \in 0..MaxStall
    BY <1>0, OpenedType
  <2>. QED
    BY <1>0, <2>1, OneTurn, OpenedType DEF R!RunnerStates
<1>3. \A k \in R!RunnerStates : R!Onward(k).at \in {"saving", "checking"}
  BY OnwardFields
<1>4. CASE R!Load(w)
  <2>1. runner'[w].at \in {"saving", "checking"} /\ UNCHANGED <<last, told>>
    BY <1>0, <1>4 DEF R!Load, R!Down
  <2>. QED
    BY <1>1, <2>1 DEF Near, Alone
<1>5. CASE R!Check(w)
  <2>1. PICK r \in R!Turn(m) :
          /\ UNCHANGED <<last, told>>
          /\ \/ R!Becomes(w, [R!Onward(m) EXCEPT !.errors = TRUE])
             \/ R!Becomes(w, [R!Onward(open) EXCEPT !.evaluated = @ \cup {r}])
             \/ R!Becomes(w, [R!Onward(open) EXCEPT !.errors = TRUE])
             \/ ~R!Cooling(r) /\ R!Becomes(w, [open EXCEPT !.at = "querying"])
    BY <1>5 DEF R!Check
  <2>2. /\ R!Onward(m) \in R!RunnerStates /\ R!Onward(open) \in R!RunnerStates
        /\ r \in R!Rules
    BY <1>0, <1>2, OnwardFields
  <2>3. ASSUME NEW n \in R!RunnerStates, R!Becomes(w, n), n.at \in {"saving", "checking"}
        PROVE  Near'
    BY <1>1, <2>1, <2>3, NearQuiet
  <2>4. CASE R!Becomes(w, [open EXCEPT !.at = "querying"]) /\ ~R!Cooling(r)
    <3>. DEFINE n == [open EXCEPT !.at = "querying"]
    <3>1. n \in R!RunnerStates /\ n.at = "querying" /\ n.todo = m.todo
      BY <1>2 DEF R!RunnerStates
    <3>2. told[r] >= Cooldown - MaxStall
      BY <1>0, <1>1, <2>2, <2>4 DEF R!Cooling
    <3>3. \A s \in R!Turn(m) : told'[s] >= Cooldown - MaxStall
      BY <1>2, <2>1, <3>2
    <3>4. \A s \in R!Rules : last'[s] <= told'[s] + MaxStall
      BY <1>1, <2>1
    <3>. HIDE DEF open, n
    <3>. QED
      BY <2>4, <3>1, <3>3, <3>4, NearStays DEF n
  <2>. HIDE DEF m, open
  <2>5. CASE R!Becomes(w, [R!Onward(m) EXCEPT !.errors = TRUE])
    <3>1. /\ [R!Onward(m) EXCEPT !.errors = TRUE] \in R!RunnerStates
          /\ [R!Onward(m) EXCEPT !.errors = TRUE].at = R!Onward(m).at
      BY <2>2 DEF R!RunnerStates
    <3>. QED
      BY <1>0, <1>3, <2>3, <2>5, <3>1
  <2>6. CASE R!Becomes(w, [R!Onward(open) EXCEPT !.evaluated = @ \cup {r}])
    <3>1. /\ [R!Onward(open) EXCEPT !.evaluated = @ \cup {r}] \in R!RunnerStates
          /\ [R!Onward(open) EXCEPT !.evaluated = @ \cup {r}].at = R!Onward(open).at
      BY <2>2 DEF R!RunnerStates
    <3>. QED
      BY <1>2, <1>3, <2>3, <2>6, <3>1
  <2>7. CASE R!Becomes(w, [R!Onward(open) EXCEPT !.errors = TRUE])
    <3>1. /\ [R!Onward(open) EXCEPT !.errors = TRUE] \in R!RunnerStates
          /\ [R!Onward(open) EXCEPT !.errors = TRUE].at = R!Onward(open).at
      BY <2>2 DEF R!RunnerStates
    <3>. QED
      BY <1>2, <1>3, <2>3, <2>7, <3>1
  <2>. QED
    BY <2>1, <2>4, <2>5, <2>6, <2>7
<1>6. ASSUME \/ R!Becomes(w, R!Failed(m))
             \/ R!Becomes(w, [R!Failed(m) EXCEPT !.errors = TRUE])
             \/ R!Becomes(w, R!Down),
             UNCHANGED <<last, told>>
      PROVE  Near'
  <2>1. R!Failed(m).at \in {"saving", "checking"}
        /\ [R!Failed(m) EXCEPT !.errors = TRUE].at \in {"saving", "checking"}
    <3>1. R!Onward(m) \in R!RunnerStates /\ R!Failed(m) \in R!RunnerStates
      BY <1>0, OnwardFields, FailedType
    <3>2. R!Failed(m).at = R!Onward(m).at
      BY <3>1 DEF R!Failed, R!RunnerStates
    <3>. QED
      BY <1>0, <1>3, <3>1, <3>2 DEF R!RunnerStates
  <2>2. R!Down.at = "down"
    BY DEF R!Down
  <2>. QED
    BY <1>0, <1>1, <1>6, <2>1, <2>2, DownType, FailedType, NearQuiet
<1>7. CASE R!Query(w)
  <2>1. PICK r \in R!Turn(m) :
          /\ UNCHANGED <<last, told>> /\ m.at = "querying"
          /\ \/ R!Becomes(w, R!Failed(m))
             \/ r \notin met /\ R!Becomes(w, [R!Onward(m) EXCEPT !.evaluated = @ \cup {r}])
             \/ r \in met /\ R!Becomes(w, [[m EXCEPT !.at = "recording"]
                                             EXCEPT !.evaluated = @ \cup {r}])
    BY <1>7 DEF R!Query
  <2>2. r \in R!Rules /\ \A s \in R!Turn(m) : told[s] >= Cooldown - MaxStall
    BY <1>2, <2>1 DEF Near
  <2>. HIDE DEF m
  <2>3. CASE R!Becomes(w, [R!Onward(m) EXCEPT !.evaluated = @ \cup {r}])
    <3>1. R!Onward(m) \in R!RunnerStates
      BY <1>0, OnwardFields
    <3>2. /\ [R!Onward(m) EXCEPT !.evaluated = @ \cup {r}] \in R!RunnerStates
          /\ [R!Onward(m) EXCEPT !.evaluated = @ \cup {r}].at = R!Onward(m).at
      BY <2>2, <3>1 DEF R!RunnerStates
    <3>. QED
      BY <1>0, <1>1, <1>3, <2>1, <2>3, <3>2, NearQuiet
  <2>4. CASE R!Becomes(w, [[m EXCEPT !.at = "recording"] EXCEPT !.evaluated = @ \cup {r}])
    <3>. DEFINE n == [[m EXCEPT !.at = "recording"] EXCEPT !.evaluated = @ \cup {r}]
    <3>1. n \in R!RunnerStates /\ n.at = "recording" /\ n.todo = m.todo
      BY <1>0, <2>2 DEF R!RunnerStates
    <3>2. R!Becomes(w, n)
      BY <2>4
    <3>. HIDE DEF n
    <3>. QED
      BY <1>1, <2>1, <2>2, <3>1, <3>2, NearStays DEF m
  <2>. QED
    BY <1>6, <2>1, <2>3, <2>4
<1>8. CASE R!Record(w)
  <2>. DEFINE n(r) == [m EXCEPT !.at = "notifying", !.since = Closed, !.fired = @ \cup {r}]
  <2>1. PICK r \in R!Turn(m) :
          /\ m.at = "recording" /\ told' = told
          /\ last' = [last EXCEPT ![r] = IF R!Opened(m) \in R!Ages THEN R!Opened(m) ELSE Cooldown]
          /\ R!Becomes(w, n(r))
    BY <1>8 DEF R!Record
  <2>2. r \in R!Rules /\ R!Turn(m) = {r} /\ told[r] >= Cooldown - MaxStall
    BY <1>2, <2>1 DEF Near
  <2>3. last'[r] <= Cooldown /\ last'[r] <= m.stall /\ last'[r] \in Int
    BY <1>0, <1>2, <2>1, <2>2 DEF R!Ages
  <2>4. \A s \in R!Rules : last'[s] <= told'[s] + MaxStall
    <3>1. \A s \in R!Rules \ {r} : last'[s] = last[s]
      BY <1>0, <2>1
    <3>2. last'[r] <= told[r] + MaxStall
      BY <1>0, <2>2, <2>3
    <3>. QED
      BY <1>1, <2>1, <3>1, <3>2
  <2>. HIDE DEF m
  <2>5. /\ n(r) \in R!RunnerStates /\ n(r).at = "notifying" /\ n(r).todo = m.todo
        /\ n(r).stall = m.stall
    BY <1>0, <2>2 DEF R!RunnerStates
  <2>. HIDE DEF n
  <2>. QED
    BY <2>1, <2>2, <2>3, <2>4, <2>5, NearStays DEF m
<1>9. CASE R!Notify(w)
  <2>1. PICK r \in R!Turn(m) :
          /\ m.at = "notifying" /\ last' = last
          /\ told' = [told EXCEPT ![r] = 0] \/ told' = told
          /\ R!Becomes(w, R!Onward(m))
    BY <1>9 DEF R!Notify
  <2>2. r \in R!Rules /\ last[r] <= m.stall
    BY <1>2, <2>1 DEF Near
  <2>3. \A s \in R!Rules : last'[s] <= told'[s] + MaxStall
    <3>1. \A s \in R!Rules \ {r} : told'[s] = told[s]
      BY <1>0, <2>1
    <3>2. told'[r] = 0 \/ told'[r] = told[r]
      BY <1>0, <2>1, <2>2
    <3>3. last[r] <= 0 + MaxStall
      BY <1>0, <2>2
    <3>. QED
      BY <1>1, <2>1, <3>1, <3>2, <3>3
  <2>. QED
    BY <1>0, <1>3, <2>1, <2>3, OnwardFields, NearQuiet
<1>10. CASE R!RecordFails(w) \/ R!Save(w) \/ R!Crash(w)
  BY <1>6, <1>10 DEF R!RecordFails, R!Save, R!Crash
<1>. QED
  BY <1>4, <1>5, <1>7, <1>8, <1>9, <1>10 DEF R!RunnerNext

\* One runner leaves a cooldown between two notifications of a rule, less the time
\* a run may take.
THEOREM NotificationsAreSpaced == ASSUME Alone PROVE MCSpec => []SpacedByCooldown
<1>1. R!Init => Near
  BY TimesAssumption DEF R!Init, Near, R!Down, R!Turn
<1>2. ASSUME RulesOK, Near, [R!Next]_R!vars PROVE Near'
  <2>1. CASE UNCHANGED R!vars
    BY <1>2, <2>1 DEF R!vars, R!rules, Near, R!Turn
  <2>2. CASE R!Create \/ \E r \in R!Rules : \/ R!Toggle(r) \/ R!Delete(r) \/ R!Uninstall(r)
                                            \/ R!Reinstall(r) \/ R!DataChanges(r)
    <3>1. R!Elsewhere /\ UNCHANGED <<last, told>>
      BY <2>2 DEF R!Create, R!Toggle, R!Delete, R!Uninstall, R!Reinstall, R!DataChanges,
                  R!Elsewhere
    <3>2. \A v \in Runners : runner'[v] = Ran(runner[v]) /\ runner[v] \in R!RunnerStates
      BY <1>2, <3>1, ElsewhereFields DEF RulesOK, R!TypeOK
    <3>3. \A v \in Runners : /\ runner'[v].at = runner[v].at /\ runner'[v].todo = runner[v].todo
                             /\ runner'[v].stall = runner[v].stall
      BY <3>2, RanFields
    <3>. QED
      BY <1>2, <3>1, <3>3 DEF Near, R!Turn
  <2>. QED
    BY <1>2, <2>1, <2>2, NearTick, NearRun DEF R!Next
<1>3. Near => SpacedByCooldown
  BY DEF Near, SpacedByCooldown, R!SpacedByCooldown
<1>. QED
  BY <1>1, <1>2, <1>3, EitherMoves, RunsAreOK, PTL DEF MCSpec
=============================================================================
