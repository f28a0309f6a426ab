----------------------- MODULE CredentialBroker_proofs -----------------------
(***************************************************************************)
(* Proofs about CredentialBroker, for any runs, processes and credentials, *)
(* and any number of faults.                                               *)
(***************************************************************************)
EXTENDS MCServices, TLAPS

USE RunsAssumption

\* The worker has just started, and no run has a token.
LEMMA TypeInit == B!Init => B!TypeOK
<1>. SUFFICES ASSUME B!Init PROVE B!TypeOK
  OBVIOUS
<1>1. B!NoClient \in B!ClientStates /\ B!NoThread \in B!ThreadStates
  BY DEF B!NoClient, B!NoThread, B!ClientStates, B!ThreadStates
<1>2. client \in [Clients -> B!ClientStates] /\ thread \in [Clients -> B!ThreadStates]
  BY <1>1 DEF B!Init
<1>3. pipe \in [Runs -> BOOLEAN]
  BY DEF B!Init
<1>. QED
  BY <1>2, <1>3 DEF B!Init, B!TypeOK

\* Nothing the worker does breaks a type.
LEMMA TypeWorker == ASSUME B!TypeOK, B!Worker PROVE B!TypeOK'
<1>1. ASSUME NEW r \in Runs, B!Spawn(r) PROVE B!TypeOK'
  <2>1. client' \in [Clients -> B!ClientStates]
    <3>1. client \in [Clients -> B!ClientStates] /\ Main[r] \in Clients
      BY DEF B!TypeOK
    <3>2. \A m \in B!ClientStates : [m EXCEPT !.at = "idle"] \in B!ClientStates
      BY DEF B!ClientStates
    <3>. QED
      BY <1>1, <3>1, <3>2 DEF B!Spawn
  <2>. QED
    BY <1>1, <2>1 DEF B!TypeOK, B!Spawn, B!manifest, B!history
<1>2. ASSUME NEW r \in Runs, B!ReleaseRun(r) PROVE B!TypeOK'
  BY <1>2 DEF B!TypeOK, B!ReleaseRun, B!manifest, B!history
<1>3. ASSUME NEW r \in Runs, B!RecordFinish(r) PROVE B!TypeOK'
  BY <1>3 DEF B!TypeOK, B!RecordFinish, B!manifest, B!history
<1>4. ASSUME NEW r \in Runs, B!Expire(r) PROVE B!TypeOK'
  BY <1>4 DEF B!TypeOK, B!Expire, B!manifest, B!history
<1>5. ASSUME NEW r \in Runs, B!SweepOrphan(r) PROVE B!TypeOK'
  BY <1>5 DEF B!TypeOK, B!SweepOrphan, B!manifest, B!history
<1>6. ASSUME B!SweepTokens PROVE B!TypeOK'
  BY <1>6 DEF B!TypeOK, B!SweepTokens, B!manifest, B!history
<1>7. ASSUME B!WorkerDies PROVE B!TypeOK'
  <2>1. thread' \in [Clients -> B!ThreadStates]
    BY <1>7 DEF B!TypeOK, B!WorkerDies, B!NoThread, B!ThreadStates
  <2>2. run' \in [Runs -> {"queued", "running", "released", "orphaned", "finished"}]
    BY <1>7 DEF B!TypeOK, B!WorkerDies
  <2>3. mishaps' \in Nat
    BY <1>7 DEF B!TypeOK, B!WorkerDies, B!Fault
  <2>4. pending' \in [Runs -> {"absent", "fresh", "expired"}]
    BY <1>7 DEF B!WorkerDies
  <2>5. up' \in BOOLEAN
    BY <1>7 DEF B!WorkerDies
  <2>. QED
    BY <1>7, <2>1, <2>2, <2>3, <2>4, <2>5 DEF B!TypeOK, B!WorkerDies, B!manifest, B!history
<1>8. ASSUME B!Restart PROVE B!TypeOK'
  BY <1>8 DEF B!TypeOK, B!Restart, B!manifest, B!history
<1>. QED
  BY <1>1, <1>2, <1>3, <1>4, <1>5, <1>6, <1>7, <1>8 DEF B!Worker

\* Nor does anything a thread of the broker does.
LEMMA TypeBroker == ASSUME B!TypeOK, NEW c \in Clients, B!Broker(c) PROVE B!TypeOK'
<1>1. ASSUME B!ConsumeToken(c) PROVE B!TypeOK'
  <2>1. thread' \in [Clients -> B!ThreadStates]
    <3>1. ASSUME NEW at \in {"accepted", "DENIED"}, B!Thread(c, at)
          PROVE  thread' \in [Clients -> B!ThreadStates]
      <4>1. thread \in [Clients -> B!ThreadStates]
        BY DEF B!TypeOK
      <4>. QED
        BY <3>1, <4>1 DEF B!Thread, B!ThreadStates
    <3>. QED
      BY <1>1, <3>1 DEF B!ConsumeToken
  <2>2. pending' \in [Runs -> {"absent", "fresh", "expired"}]
    BY <1>1 DEF B!TypeOK, B!ConsumeToken
  <2>3. used' \in [Runs -> Nat]
    BY <1>1 DEF B!TypeOK, B!ConsumeToken
  <2>. QED
    BY <1>1, <2>1, <2>2, <2>3 DEF B!TypeOK, B!ConsumeToken, B!manifest
<1>2. ASSUME B!FetchCredentials(c) PROVE B!TypeOK'
  <2>0. thread \in [Clients -> B!ThreadStates] /\ stored \subseteq Keys
    BY DEF B!TypeOK
  <2>1. thread' \in [Clients -> B!ThreadStates]
    <3>1. CASE B!Thread(c, "ERROR")
      BY <2>0, <3>1 DEF B!Thread, B!ThreadStates
    <3>2. CASE ~ B!Thread(c, "ERROR")
      <4>. DEFINE keys == IF thread[c].all THEN stored ELSE stored \cap thread[c].keys
      <4>1. thread' = [thread EXCEPT ![c] = [thread[c] EXCEPT !.at = "OK", !.keys = keys]]
        BY <1>2, <2>0, <3>2 DEF B!FetchCredentials
      <4>2. keys \subseteq Keys
        BY <2>0
      <4>3. [thread[c] EXCEPT !.at = "OK", !.keys = keys] \in B!ThreadStates
        BY <2>0, <4>2 DEF B!ThreadStates
      <4>. QED
        BY <2>0, <4>1, <4>3
    <3>. QED
      BY <3>1, <3>2
  <2>2. mishaps' \in Nat
    BY <1>2 DEF B!TypeOK, B!FetchCredentials, B!Fault
  <2>. QED
    BY <1>2, <2>1, <2>2 DEF B!TypeOK, B!FetchCredentials, B!manifest, B!history
<1>3. ASSUME B!Discard(c) PROVE B!TypeOK'
  <2>1. thread' \in [Clients -> B!ThreadStates]
    BY <1>3 DEF B!TypeOK, B!Discard, B!NoThread, B!ThreadStates
  <2>. QED
    BY <1>3, <2>1 DEF B!TypeOK, B!Discard, B!manifest, B!history
<1>. QED
  BY <1>1, <1>2, <1>3 DEF B!Broker

\* No step of a plugin's process breaks a type.
LEMMA TypePlugin == ASSUME B!TypeOK, NEW c \in Clients, B!Plugin(c) PROVE B!TypeOK'
<1>0. /\ client \in [Clients -> B!ClientStates] /\ thread \in [Clients -> B!ThreadStates]
      /\ client[c] \in B!ClientStates /\ thread[c] \in B!ThreadStates
  BY DEF B!TypeOK
<1>1. ASSUME B!Get(c) PROVE B!TypeOK'
  <2>1. client' \in [Clients -> B!ClientStates]
    <3>1. CASE B!GetAtStartup(c)
      BY <1>0, <3>1 DEF B!GetAtStartup, B!ClientStates
    <3>2. ASSUME NEW keys \in SUBSET Keys, B!GetPerKey(c, keys)
          PROVE  client' \in [Clients -> B!ClientStates]
      <4>. DEFINE missing == IF client[c].full THEN {}
                             ELSE keys \ (client[c].cache \cup client[c].missing)
      <4>1. missing \subseteq Keys
        OBVIOUS
      <4>2. client' = [client EXCEPT ![c].at = "dialling", ![c].all = FALSE, ![c].want = missing]
        BY <3>2 DEF B!GetPerKey
      <4>. HIDE DEF missing
      <4>. QED
        BY <1>0, <4>1, <4>2 DEF B!ClientStates
    <3>. QED
      BY <1>1, <3>1, <3>2 DEF B!Get
  <2>. QED
    BY <1>1, <2>1 DEF B!TypeOK, B!Get, B!manifest
<1>2. ASSUME B!ReadToken(c) PROVE B!TypeOK'
  <2>1. client' \in [Clients -> B!ClientStates]
    BY <1>0, <1>2 DEF B!ReadToken, B!ClientStates
  <2>2. pipe' \in [Runs -> BOOLEAN]
    BY <1>2 DEF B!TypeOK, B!ReadToken
  <2>. QED
    BY <1>2, <2>1, <2>2 DEF B!TypeOK, B!ReadToken, B!manifest, B!history
<1>3. ASSUME NEW e \in {"denied", "error"}, B!Fails(c, e)
      PROVE  client' \in [Clients -> B!ClientStates]
  BY <1>0, <1>3 DEF B!Fails, B!Keeps, B!ClientStates
<1>4. ASSUME B!NoToken(c) PROVE B!TypeOK'
  BY <1>3, <1>4 DEF B!TypeOK, B!NoToken, B!manifest, B!history
<1>5. ASSUME B!Dial(c) PROVE B!TypeOK'
  <2>1. client' \in [Clients -> B!ClientStates]
    <3>1. CASE client' = [client EXCEPT ![c].at = "waiting"]
      BY <1>0, <3>1 DEF B!ClientStates
    <3>2. CASE client' = [client EXCEPT ![c].at = "idle", ![c].want = {}, ![c].all = FALSE]
      BY <1>0, <3>2 DEF B!ClientStates
    <3>. QED
      BY <1>5, <3>1, <3>2 DEF B!Dial
  <2>2. thread' \in [Clients -> B!ThreadStates]
    <3>1. [at |-> "received", keys |-> client[c].want, all |-> client[c].all] \in B!ThreadStates
      BY <1>0 DEF B!ClientStates, B!ThreadStates
    <3>. QED
      BY <1>0, <1>5, <3>1 DEF B!Dial
  <2>3. dialled' \in [Clients -> Nat]
    BY <1>5 DEF B!TypeOK, B!Dial
  <2>. QED
    BY <1>5, <2>1, <2>2, <2>3 DEF B!TypeOK, B!Dial, B!manifest
<1>6. ASSUME B!Receive(c) PROVE B!TypeOK'
  <2>1. client' \in [Clients -> B!ClientStates]
    <3>1. CASE thread[c].at = "OK"
      BY <1>0, <1>6, <3>1 DEF B!Receive, B!ClientStates, B!ThreadStates
    <3>2. CASE thread[c].at = "DENIED"
      BY <1>3, <1>6, <3>2 DEF B!Receive
    <3>3. CASE thread[c].at = "ERROR"
      BY <1>3, <1>6, <3>3 DEF B!Receive
    <3>. QED
      BY <1>6, <3>1, <3>2, <3>3 DEF B!Receive
  <2>2. thread' \in [Clients -> B!ThreadStates]
    BY <1>0, <1>6 DEF B!Receive, B!NoThread, B!ThreadStates
  <2>. QED
    BY <1>6, <2>1, <2>2 DEF B!TypeOK, B!Receive, B!manifest, B!history
<1>7. ASSUME B!ReplyLost(c) PROVE B!TypeOK'
  <2>1. client' \in [Clients -> B!ClientStates] /\ mishaps' \in Nat
    BY <1>3, <1>7 DEF B!TypeOK, B!ReplyLost, B!Fault
  <2>. QED
    BY <1>7, <2>1 DEF B!TypeOK, B!ReplyLost, B!manifest, B!history
<1>8. ASSUME B!PresentAgain(c) PROVE B!TypeOK'
  <2>1. thread' \in [Clients -> B!ThreadStates]
    BY <1>0, <1>8 DEF B!PresentAgain, B!ThreadStates
  <2>. QED
    BY <1>8, <2>1 DEF B!TypeOK, B!PresentAgain, B!manifest, B!history
<1>9. ASSUME B!Exit(c) PROVE B!TypeOK'
  <2>1. client' \in [Clients -> B!ClientStates]
    BY <1>0, <1>9 DEF B!Exit, B!NoClient, B!ClientStates
  <2>. QED
    BY <1>9, <2>1 DEF B!TypeOK, B!Exit, B!manifest, B!history
<1>10. ASSUME NEW d \in Clients, B!Fork(c, d) PROVE B!TypeOK'
  BY <1>0, <1>10 DEF B!TypeOK, B!Fork, B!manifest
<1>. QED
  BY <1>1, <1>2, <1>4, <1>5, <1>6, <1>7, <1>8, <1>9, <1>10 DEF B!Plugin

\* So they keep their types throughout.
LEMMA TypeInvariant == B!Spec => []B!TypeOK
<1>1. ASSUME B!TypeOK, [B!Next]_B!vars PROVE B!TypeOK'
  <2>1. CASE B!StoreKey
    BY <1>1, <2>1 DEF B!TypeOK, B!StoreKey, B!manifest, B!history
  <2>2. CASE UNCHANGED B!vars
    BY <1>1, <2>2 DEF B!TypeOK, B!vars
  <2>. QED
    BY <1>1, <2>1, <2>2, TypeWorker, TypeBroker, TypePlugin DEF B!Next
<1>. QED
  BY <1>1, TypeInit, PTL DEF B!Spec

\* The broker moves as its own specification says, or not at all.
LEMMA BrokerMoves == ServicesSpec => B!Spec
<1>1. /\ ServicesInit => B!Init
      /\ [ServicesNext]_services => [B!Next]_B!vars
  BY DEF ServicesInit, ServicesNext, services, broker, B!vars
<1>. QED
  BY <1>1, PTL DEF ServicesSpec, B!Spec

\* The table of tokens, the processes and the broker's threads stay well typed.
THEOREM TypeCorrect == ServicesSpec => []BrokerTypeOK
BY TypeInvariant, BrokerMoves, PTL DEF BrokerTypeOK

-----------------------------------------------------------------------------
(* Tokens *)

\* A run that is not under way has no token in the table, and a single-use
\* token in the table has not been accepted yet.
TokenInv ==
  \A r \in Runs :
    /\ run[r] # "running" => pending[r] = "absent"
    /\ B!SingleUse(r) => /\ used[r] <= 1
                         /\ run[r] = "queued" \/ pending[r] # "absent" => used[r] = 0

\* The worker gives each run its token once, and takes it back before the row
\* is final.
LEMMA TokenWorker == ASSUME B!TypeOK, TokenInv, B!Worker PROVE TokenInv'
<1>1. ASSUME NEW r \in Runs, B!Spawn(r) PROVE TokenInv'
  BY <1>1 DEF B!TypeOK, TokenInv, B!Spawn, B!SingleUse, B!manifest, B!history
<1>2. ASSUME NEW r \in Runs, B!ReleaseRun(r) PROVE TokenInv'
  BY <1>2 DEF B!TypeOK, TokenInv, B!ReleaseRun, B!SingleUse, B!manifest, B!history
<1>3. ASSUME NEW r \in Runs, B!RecordFinish(r) PROVE TokenInv'
  BY <1>3 DEF B!TypeOK, TokenInv, B!RecordFinish, B!SingleUse, B!manifest, B!history
<1>4. ASSUME NEW r \in Runs, B!Expire(r) PROVE TokenInv'
  BY <1>4 DEF B!TypeOK, TokenInv, B!Expire, B!SingleUse, B!manifest, B!history
<1>5. ASSUME NEW r \in Runs, B!SweepOrphan(r) PROVE TokenInv'
  BY <1>5 DEF B!TypeOK, TokenInv, B!SweepOrphan, B!SingleUse, B!manifest, B!history
<1>6. ASSUME B!SweepTokens PROVE TokenInv'
  BY <1>6 DEF B!TypeOK, TokenInv, B!SweepTokens, B!SingleUse, B!manifest, B!history
<1>7. ASSUME B!WorkerDies PROVE TokenInv'
  <2>1. \A r \in Runs : pending'[r] = "absent" /\ (run'[r] = "queued" => run[r] = "queued")
    BY <1>7 DEF B!TypeOK, B!WorkerDies
  <2>2. UNCHANGED <<perKey, used>>
    BY <1>7 DEF B!WorkerDies, B!manifest, B!history
  <2>. QED
    BY <2>1, <2>2 DEF TokenInv, B!SingleUse
<1>8. ASSUME B!Restart PROVE TokenInv'
  BY <1>8 DEF TokenInv, B!Restart, B!SingleUse, B!manifest, B!history
<1>. QED
  BY <1>1, <1>2, <1>3, <1>4, <1>5, <1>6, <1>7, <1>8 DEF B!Worker

\* A thread that accepts a single-use token removes it in the same step.
LEMMA TokenBroker == ASSUME B!TypeOK, TokenInv, NEW c \in Clients, B!Broker(c) PROVE TokenInv'
<1>1. ASSUME B!ConsumeToken(c) PROVE TokenInv'
  <2>. DEFINE r == RunOf[c]
  <2>1. r \in Runs
    OBVIOUS
  <2>2. UNCHANGED <<perKey, run>>
    BY <1>1 DEF B!ConsumeToken, B!manifest
  <2>3. \A s \in Runs : s # r => pending'[s] = pending[s] /\ used'[s] = used[s]
    BY <1>1 DEF B!TypeOK, B!ConsumeToken
  <2>4. CASE B!Accepts(r) /\ B!SingleUse(r)
    <3>1. pending'[r] = "absent" /\ used'[r] = used[r] + 1
      BY <1>1, <2>1, <2>4 DEF B!TypeOK, B!ConsumeToken, B!Spends
    <3>2. used[r] = 0 /\ run[r] = "running"
      BY <2>1, <2>4 DEF TokenInv, B!Accepts
    <3>. QED
      BY <2>2, <2>3, <3>1, <3>2 DEF TokenInv, B!SingleUse
  <2>5. CASE ~ (B!Accepts(r) /\ B!SingleUse(r))
    <3>1. B!SingleUse(r) => used'[r] = used[r]
      BY <1>1, <2>5 DEF B!ConsumeToken
    <3>2. pending'[r] \in {pending[r], "absent"}
      BY <1>1, <2>1 DEF B!TypeOK, B!ConsumeToken
    <3>. QED
      BY <2>2, <2>3, <3>1, <3>2 DEF TokenInv, B!SingleUse
  <2>. QED
    BY <2>4, <2>5
<1>2. ASSUME B!FetchCredentials(c) \/ B!Discard(c) PROVE TokenInv'
  <2>1. UNCHANGED <<perKey, run, pending, used>>
    BY <1>2 DEF B!FetchCredentials, B!Discard, B!manifest, B!history
  <2>. QED
    BY <2>1 DEF TokenInv, B!SingleUse
<1>. QED
  BY <1>1, <1>2 DEF B!Broker

\* Nothing a plugin does changes the table of tokens or a run's row.
LEMMA TokenPlugin == ASSUME TokenInv, NEW c \in Clients, B!Plugin(c) PROVE TokenInv'
<1>1. UNCHANGED <<perKey, run, pending, used>>
  BY DEF B!Plugin, B!Get, B!ReadToken, B!NoToken, B!Dial, B!Receive, B!ReplyLost,
         B!PresentAgain, B!Exit, B!Fork,
         B!manifest, B!history
<1>. QED
  BY <1>1 DEF TokenInv, B!SingleUse

\* The invariant that the two theorems below follow from.
LEMMA TokenInvariant == B!Spec => []TokenInv
<1>1. B!Init => TokenInv
  BY DEF B!Init, TokenInv
<1>2. ASSUME B!TypeOK, TokenInv, [B!Next]_B!vars PROVE TokenInv'
  <2>1. CASE B!StoreKey
    BY <1>2, <2>1 DEF TokenInv, B!StoreKey, B!SingleUse, B!manifest, B!history
  <2>2. CASE UNCHANGED B!vars
    BY <1>2, <2>2 DEF TokenInv, B!SingleUse, B!vars
  <2>. QED
    BY <1>2, <2>1, <2>2, TokenWorker, TokenBroker, TokenPlugin DEF B!Next
<1>. QED
  BY <1>1, <1>2, TypeInvariant, PTL DEF B!Spec

\* However many processes present a single-use token, and whatever expires,
\* is finalized or dies meanwhile, the broker accepts it once.
THEOREM AcceptedOnce == ServicesSpec => []SingleUseAcceptedOnce
<1>1. TokenInv => SingleUseAcceptedOnce
  BY DEF TokenInv, SingleUseAcceptedOnce, B!SingleUseAcceptedOnce
<1>. QED
  BY <1>1, TokenInvariant, BrokerMoves, PTL

\* A run that has not started, is being finalized or is over has no token that
\* a request could present.
THEOREM FinishedRunHasNoToken == ServicesSpec => []NoTokenOfFinishedRun
<1>1. TokenInv => NoTokenOfFinishedRun
  BY DEF TokenInv, NoTokenOfFinishedRun, B!NoTokenOfFinishedRun
<1>. QED
  BY <1>1, TokenInvariant, BrokerMoves, PTL

-----------------------------------------------------------------------------
(* Requests in startup mode *)

\* A startup process that has reached the broker waits for the answer, or
\* keeps what it came to, and asks no more.
Once(c) ==
  /\ dialled[c] <= 1
  /\ run[RunOf[c]] = "queued" => client[c].at = "absent"
  /\ client[c].at = "absent" => dialled[c] = 0
  /\ client[c].at = "idle" =>
       dialled[c] = 0 \/ client[c].full = TRUE \/ client[c].failure # "none"
  /\ client[c].at = "dialling" => dialled[c] = 0 /\ client[c].all = TRUE
  /\ client[c].at = "waiting" => thread[c].all = TRUE \/ thread[c].at = "ERROR"

OnceInv == \A c \in Clients : B!SingleUse(RunOf[c]) => Once(c)

\* What a step leaves of a process, whose run has started, is what it was.
LEMMA OnceKept ==
  ASSUME OnceInv, UNCHANGED <<perKey, dialled>>,
         \A r \in Runs : run'[r] = "queued" => run[r] = "queued",
         \A c \in Clients :
           /\ client'[c] = client[c]
           /\ \/ client[c].at # "waiting"
              \/ thread'[c].all = thread[c].all
              \/ thread'[c].at = "ERROR"
           /\ thread[c].at = "ERROR" /\ client[c].at = "waiting" => thread'[c].at = "ERROR"
  PROVE  OnceInv'
<1>. SUFFICES ASSUME NEW c \in Clients, B!SingleUse(RunOf[c]) PROVE Once(c)'
  BY DEF OnceInv, B!SingleUse
<1>1. Once(c) /\ RunOf[c] \in Runs
  BY DEF OnceInv
<1>2. client'[c].at = "waiting" => thread'[c].all = TRUE \/ thread'[c].at = "ERROR"
  BY <1>1 DEF Once
<1>. QED
  BY <1>1, <1>2 DEF Once

\* A process starts without requests; what else the worker does, its death
\* included, leaves no process that would ask again.
LEMMA OnceWorker == ASSUME B!TypeOK, OnceInv, B!Worker PROVE OnceInv'
<1>1. ASSUME NEW r \in Runs, B!Spawn(r) PROVE OnceInv'
  <2>1. /\ client \in [Clients -> B!ClientStates]
        /\ run \in [Runs -> {"queued", "running", "released", "orphaned", "finished"}]
        /\ Main[r] \in Clients /\ RunOf[Main[r]] = r
    BY DEF B!TypeOK
  <2>2. /\ UNCHANGED <<perKey, dialled, thread>>
        /\ run' = [run EXCEPT ![r] = "running"] /\ run[r] = "queued"
        /\ client' = [client EXCEPT ![Main[r]].at = "idle"]
    BY <1>1 DEF B!Spawn, B!manifest, B!history
  <2>3. ASSUME NEW c \in Clients, c # Main[r] PROVE client'[c] = client[c]
    BY <2>1, <2>2, <2>3
  <2>4. client'[Main[r]].at = "idle"
    BY <2>1, <2>2 DEF B!ClientStates
  <2>5. B!SingleUse(r) => dialled[Main[r]] = 0
    BY <2>1, <2>2 DEF OnceInv, Once
  <2>. QED
    BY <2>1, <2>2, <2>3, <2>4, <2>5 DEF OnceInv, Once, B!SingleUse
<1>2. ASSUME NEW r \in Runs,
             B!ReleaseRun(r) \/ B!RecordFinish(r) \/ B!Expire(r) \/ B!SweepOrphan(r)
      PROVE  OnceInv'
  <2>1. \A s \in Runs : run'[s] = "queued" => run[s] = "queued"
    BY <1>2 DEF B!TypeOK, B!ReleaseRun, B!RecordFinish, B!Expire, B!SweepOrphan
  <2>2. UNCHANGED <<perKey, dialled, client, thread>>
    BY <1>2 DEF B!ReleaseRun, B!RecordFinish, B!Expire, B!SweepOrphan, B!manifest, B!history
  <2>. QED
    BY <2>1, <2>2, OnceKept
<1>3. ASSUME B!SweepTokens \/ B!Restart PROVE OnceInv'
  <2>1. UNCHANGED <<perKey, dialled, client, thread, run>>
    BY <1>3 DEF B!SweepTokens, B!Restart, B!manifest, B!history
  <2>. QED
    BY <2>1, OnceKept
<1>4. ASSUME B!WorkerDies PROVE OnceInv'
  <2>1. UNCHANGED <<perKey, dialled, client>>
    BY <1>4 DEF B!WorkerDies, B!manifest, B!history
  <2>2. \A s \in Runs : run'[s] = "queued" => run[s] = "queued"
    BY <1>4 DEF B!TypeOK, B!WorkerDies
  <2>3. \A c \in Clients : client[c].at = "waiting" => thread'[c].at = "ERROR"
    BY <1>4 DEF B!WorkerDies, B!NoThread
  <2>. QED
    BY <2>1, <2>2, <2>3, OnceKept
<1>. QED
  BY <1>1, <1>2, <1>3, <1>4 DEF B!Worker

\* A thread of the broker changes what a process waits for, never who asked.
LEMMA OnceBroker == ASSUME B!TypeOK, OnceInv, NEW c \in Clients, B!Broker(c) PROVE OnceInv'
<1>1. UNCHANGED <<perKey, dialled, client, run>>
  BY DEF B!Broker, B!ConsumeToken, B!FetchCredentials, B!Discard, B!manifest, B!history
<1>2. thread \in [Clients -> B!ThreadStates]
  BY DEF B!TypeOK
<1>3. ASSUME NEW at \in {"accepted", "DENIED", "ERROR"}, thread[c].at # "ERROR", B!Thread(c, at)
      PROVE  OnceInv'
  <2>1. \A d \in Clients :
          thread'[d].all = thread[d].all /\ (thread[d].at = "ERROR" => thread'[d].at = "ERROR")
    BY <1>2, <1>3 DEF B!Thread, B!ThreadStates
  <2>. QED
    BY <1>1, <2>1, OnceKept
<1>4. CASE B!ConsumeToken(c)
  BY <1>3, <1>4 DEF B!ConsumeToken
<1>5. CASE B!FetchCredentials(c)
  <2>1. CASE B!Thread(c, "ERROR")
    BY <1>3, <1>5, <2>1 DEF B!FetchCredentials
  <2>2. CASE thread' = [thread EXCEPT ![c].at = "OK",
                          ![c].keys = IF thread[c].all THEN stored ELSE stored \cap @]
    <3>1. \A d \in Clients : thread'[d].all = thread[d].all
      BY <1>2, <2>2 DEF B!ThreadStates
    <3>2. \A d \in Clients : d # c => thread'[d] = thread[d]
      BY <1>2, <2>2
    <3>. QED
      BY <1>1, <1>5, <3>1, <3>2, OnceKept DEF B!FetchCredentials
  <2>. QED
    BY <1>5, <2>1, <2>2 DEF B!FetchCredentials
<1>6. CASE B!Discard(c)
  <2>1. /\ client[c].at # "waiting"
        /\ \A d \in Clients : d # c => thread'[d] = thread[d]
    BY <1>2, <1>6 DEF B!Discard
  <2>. QED
    BY <1>1, <2>1, OnceKept
<1>. QED
  BY <1>4, <1>5, <1>6 DEF B!Broker

\* A step of one process, described by what it does to that process alone.
LEMMA OnceStep ==
  ASSUME OnceInv, NEW c \in Clients, UNCHANGED <<perKey, run>>,
         \A d \in Clients : d # c =>
           client'[d] = client[d] /\ thread'[d] = thread[d] /\ dialled'[d] = dialled[d],
         B!SingleUse(RunOf[c]) => Once(c)'
  PROVE  OnceInv'
<1>1. ASSUME NEW d \in Clients, d # c, B!SingleUse(RunOf[d]) PROVE Once(d)'
  BY <1>1 DEF OnceInv, Once
<1>. QED
  BY <1>1 DEF OnceInv, B!SingleUse

\* A process that asks has not asked before, and keeps what it came to.
LEMMA OncePlugin == ASSUME B!TypeOK, OnceInv, NEW c \in Clients, B!Plugin(c) PROVE OnceInv'
<1>0. /\ client \in [Clients -> B!ClientStates] /\ thread \in [Clients -> B!ThreadStates]
      /\ dialled \in [Clients -> Nat]
  BY DEF B!TypeOK
<1>01. B!SingleUse(RunOf[c]) => Once(c)
  BY DEF OnceInv
<1>1. CASE B!Get(c)
  <2>1. /\ UNCHANGED <<perKey, run, thread, dialled>>
        /\ client[c].at = "idle" /\ client[c].failure = "none"
    BY <1>1 DEF B!Get, B!manifest
  <2>2. CASE B!GetAtStartup(c)
    <3>1. /\ client' = [client EXCEPT ![c].at = "dialling", ![c].all = TRUE, ![c].want = {}]
          /\ ~ client[c].full
      BY <2>2 DEF B!GetAtStartup
    <3>2. client'[c].at = "dialling" /\ client'[c].all = TRUE
      BY <1>0, <3>1 DEF B!ClientStates
    <3>3. \A d \in Clients : d # c => client'[d] = client[d]
      BY <1>0, <3>1
    <3>4. B!SingleUse(RunOf[c]) => dialled[c] = 0
      BY <2>1, <3>1 DEF OnceInv, Once
    <3>5. B!SingleUse(RunOf[c]) => Once(c)'
      BY <1>01, <2>1, <3>2, <3>4 DEF Once
    <3>. QED
      BY <2>1, <3>3, <3>5, OnceStep
  <2>3. ASSUME NEW keys \in SUBSET Keys, B!GetPerKey(c, keys) PROVE OnceInv'
    <3>1. ~ B!SingleUse(RunOf[c])
      BY <2>3 DEF B!GetPerKey, B!SingleUse
    <3>2. /\ client'[c].at = "dialling"
          /\ \A d \in Clients : d # c => client'[d] = client[d]
      BY <1>0, <2>3 DEF B!GetPerKey, B!ClientStates
    <3>. QED
      BY <2>1, <3>1, <3>2, OnceStep
  <2>. QED
    BY <1>1, <2>2, <2>3 DEF B!Get
<1>2. CASE B!ReadToken(c)
  <2>1. /\ UNCHANGED <<perKey, run, thread, dialled>>
        /\ client[c].at = "dialling"
        /\ \E t \in {"held", "error"} : client' = [client EXCEPT ![c].token = t]
    BY <1>2 DEF B!ReadToken, B!manifest, B!history
  <2>2. /\ client'[c].at = "dialling" /\ client'[c].all = client[c].all
        /\ \A d \in Clients : d # c => client'[d] = client[d]
    BY <1>0, <2>1 DEF B!ClientStates
  <2>3. B!SingleUse(RunOf[c]) => dialled[c] = 0 /\ client[c].all = TRUE
    BY <2>1 DEF OnceInv, Once
  <2>4. B!SingleUse(RunOf[c]) => Once(c)'
    BY <1>01, <2>1, <2>2, <2>3 DEF Once
  <2>. QED
    BY <2>1, <2>2, <2>4, OnceStep
<1>3. ASSUME NEW e \in {"denied", "error"}, B!Fails(c, e), UNCHANGED <<perKey, run, dialled>>,
             client[c].at \in {"dialling", "waiting"},
             \A d \in Clients : d # c => thread'[d] = thread[d]
      PROVE  OnceInv'
  <2>1. /\ client'[c].at = "idle"
        /\ B!SingleUse(RunOf[c]) => client'[c].failure = e
        /\ \A d \in Clients : d # c => client'[d] = client[d]
    BY <1>0, <1>3 DEF B!Fails, B!Keeps, B!ClientStates
  <2>2. B!SingleUse(RunOf[c]) => dialled[c] <= 1
    BY DEF OnceInv, Once
  <2>3. B!SingleUse(RunOf[c]) => Once(c)'
    BY <1>01, <1>3, <2>1, <2>2 DEF Once
  <2>. QED
    BY <1>3, <2>1, <2>3, OnceStep
<1>4. CASE B!NoToken(c)
  BY <1>3, <1>4 DEF B!NoToken, B!manifest, B!history
<1>5. CASE B!ReplyLost(c)
  BY <1>3, <1>5 DEF B!ReplyLost, B!manifest, B!history
<1>6. CASE B!Dial(c)
  <2>1. UNCHANGED <<perKey, run>> /\ client[c].at = "dialling"
    BY <1>6 DEF B!Dial, B!manifest
  <2>2. B!SingleUse(RunOf[c]) => dialled[c] = 0 /\ client[c].all = TRUE
    BY <2>1 DEF OnceInv, Once
  <2>3. CASE up
    <3>1. /\ client' = [client EXCEPT ![c].at = "waiting"]
          /\ thread' = [thread EXCEPT ![c] = [at |-> "received", keys |-> client[c].want,
                                              all |-> client[c].all]]
          /\ dialled' = [dialled EXCEPT ![c] = @ + 1]
      BY <1>6, <2>3 DEF B!Dial
    <3>2. \A d \in Clients : d # c =>
            client'[d] = client[d] /\ thread'[d] = thread[d] /\ dialled'[d] = dialled[d]
      BY <1>0, <3>1
    <3>3. client'[c].at = "waiting" /\ thread'[c].all = client[c].all
      BY <1>0, <3>1 DEF B!ClientStates
    <3>4. dialled'[c] = dialled[c] + 1
      BY <1>0, <3>1
    <3>5. B!SingleUse(RunOf[c]) => dialled'[c] <= 1
      BY <2>2, <3>4
    <3>6. B!SingleUse(RunOf[c]) => Once(c)'
      BY <1>01, <2>1, <2>2, <3>3, <3>5 DEF Once
    <3>. QED
      BY <2>1, <3>2, <3>6, OnceStep
  <2>4. CASE ~up
    <3>1. /\ client' = [client EXCEPT ![c].at = "idle", ![c].want = {}, ![c].all = FALSE]
          /\ UNCHANGED <<thread, dialled>>
      BY <1>6, <2>4 DEF B!Dial
    <3>2. /\ client'[c].at = "idle"
          /\ \A d \in Clients : d # c => client'[d] = client[d]
      BY <1>0, <3>1 DEF B!ClientStates
    <3>3. B!SingleUse(RunOf[c]) => Once(c)'
      BY <1>01, <2>1, <2>2, <3>1, <3>2 DEF Once
    <3>. QED
      BY <2>1, <3>1, <3>2, <3>3, OnceStep
  <2>. QED
    BY <2>3, <2>4
<1>7. CASE B!Receive(c)
  <2>1. /\ UNCHANGED <<perKey, run, dialled>> /\ client[c].at = "waiting"
        /\ \A d \in Clients : d # c => thread'[d] = thread[d]
    BY <1>0, <1>7 DEF B!Receive, B!manifest, B!history
  <2>2. CASE thread[c].at = "OK"
    <3>1. /\ client'[c].at = "idle" /\ client'[c].full = (client[c].full \/ thread[c].all)
          /\ \A d \in Clients : d # c => client'[d] = client[d]
      BY <1>0, <1>7, <2>2 DEF B!Receive, B!ClientStates
    <3>2. B!SingleUse(RunOf[c]) => dialled[c] <= 1 /\ thread[c].all = TRUE
      BY <2>1, <2>2 DEF OnceInv, Once
    <3>3. B!SingleUse(RunOf[c]) => Once(c)'
      BY <1>01, <2>1, <3>1, <3>2 DEF Once
    <3>. QED
      BY <2>1, <3>1, <3>3, OnceStep
  <2>3. CASE thread[c].at \in {"DENIED", "ERROR"}
    BY <1>3, <1>7, <2>1, <2>3 DEF B!Receive
  <2>. QED
    BY <1>7, <2>2, <2>3 DEF B!Receive
<1>8. CASE B!PresentAgain(c)
  <2>1. /\ UNCHANGED <<perKey, run, dialled, client>> /\ client[c].at = "idle"
        /\ \A d \in Clients : d # c => thread'[d] = thread[d]
    BY <1>0, <1>8 DEF B!PresentAgain, B!manifest, B!history
  <2>2. \A d \in Clients : client[d].at = "waiting" => thread'[d] = thread[d]
    BY <2>1
  <2>. QED
    BY <2>1, <2>2, OnceKept
<1>9. CASE B!Exit(c)
  <2>1. /\ UNCHANGED <<perKey, run, dialled, thread>>
        /\ client[c].at # "absent" /\ client'[c].at = "gone"
        /\ \A d \in Clients : d # c => client'[d] = client[d]
    BY <1>0, <1>9 DEF B!Exit, B!NoClient, B!manifest, B!history
  <2>2. B!SingleUse(RunOf[c]) => dialled[c] <= 1
    BY DEF OnceInv, Once
  <2>3. B!SingleUse(RunOf[c]) => Once(c)'
    BY <1>01, <2>1, <2>2 DEF Once
  <2>. QED
    BY <2>1, <2>3, OnceStep
<1>10. ASSUME NEW d \in Clients, B!Fork(c, d) PROVE OnceInv'
  <2>1. /\ UNCHANGED <<perKey, run, dialled, thread>>
        /\ client[c].at = "idle" /\ client[d].at = "absent" /\ RunOf[c] = RunOf[d]
        /\ client'[d] = client[c]
        /\ \A b \in Clients : b # d => client'[b] = client[b]
    BY <1>0, <1>10 DEF B!Fork, B!manifest
  <2>2. B!SingleUse(RunOf[d]) => Once(d)'
    BY <1>01, <2>1 DEF OnceInv, Once, B!SingleUse
  <2>. QED
    BY <2>1, <2>2, OnceStep
<1>. QED
  BY <1>1, <1>2, <1>4, <1>5, <1>6, <1>7, <1>8, <1>9, <1>10 DEF B!Plugin

\* The invariant that the theorem below follows from.
LEMMA OnceInvariant == B!Spec => []OnceInv
<1>1. B!Init => OnceInv
  <2>1. ASSUME B!Init, NEW c \in Clients PROVE Once(c)
    <3>1. dialled[c] = 0 /\ client[c].at = "absent"
      BY <2>1 DEF B!Init, B!NoClient
    <3>. QED
      BY <3>1 DEF Once
  <2>. QED
    BY <2>1 DEF OnceInv
<1>2. ASSUME B!TypeOK, OnceInv, [B!Next]_B!vars PROVE OnceInv'
  <2>1. CASE B!StoreKey \/ UNCHANGED B!vars
    <3>1. UNCHANGED <<perKey, dialled, client, thread, run>>
      BY <2>1 DEF B!StoreKey, B!vars, B!manifest, B!history
    <3>. QED
      BY <1>2, <3>1, OnceKept
  <2>. QED
    BY <1>2, <2>1, OnceWorker, OnceBroker, OncePlugin DEF B!Next
<1>. QED
  BY <1>1, <1>2, TypeInvariant, PTL DEF B!Spec

\* In startup mode a process reaches the broker at most once, whatever it
\* forks, however its request ends, and though the worker may die meanwhile.
THEOREM AskedOnce == ServicesSpec => []B!OneRequestAtStartup
<1>1. OnceInv => B!OneRequestAtStartup
  BY DEF OnceInv, Once, B!OneRequestAtStartup
<1>. QED
  BY <1>1, OnceInvariant, BrokerMoves, PTL
=============================================================================
