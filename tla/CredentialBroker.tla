-------------------------- MODULE CredentialBroker --------------------------
(***************************************************************************)
(* The broker of the jobs worker (credential_broker.py) and its client in  *)
(* the SDK (_broker_client.py).  A run has one token.  By default it may   *)
(* be used once; a run in perKey has one that lasts for the run.  The      *)
(* requests are answered by threads of the worker, which share the table   *)
(* of tokens under a lock, look up credentials outside it, and race the    *)
(* finalization of the run, the expiry of tokens and the worker's death.   *)
(* The clients of a run are its subprocess and the processes it forks.     *)
(***************************************************************************)
EXTENDS Integers, FiniteSets, BrokerProcesses

CONSTANT MaxFaults   \* bound: failed reads, lost replies, deaths of the worker

VARIABLES
  perKey,    \* runs whose manifest says credential_fetch: per_key
  misnamed,  \* runs whose processes name another plugin
  up,        \* the worker, and with it the broker, is alive
  run,       \* each run's life
  pending,   \* the table of tokens: absent, fresh, or past its expires_at
  pipe,      \* the descriptor on which the token is handed over is unread
  stored,    \* the keys in the credentials table
  client,    \* each client's state
  thread,    \* the broker's thread for a client's request
  used,      \* history: how often each run's token was accepted
  dialled,   \* history: requests each client sent that reached the broker
  faults     \* failures so far

vars == <<perKey, misnamed, up, run, pending, pipe, stored, client, thread, used, dialled, faults>>

ClientStates == [at : {"absent", "idle", "dialling", "waiting", "gone"},
                 token : {"unread", "held", "error"},
                 cache : SUBSET Keys, db : BOOLEAN, full : BOOLEAN,
                 missing : SUBSET Keys, want : SUBSET Keys, all : BOOLEAN,
                 failure : {"none", "denied", "error"}]
ThreadStates == [at : {"none", "received", "accepted", "OK", "DENIED", "ERROR"},
                 keys : SUBSET Keys, all : BOOLEAN]

manifest == <<perKey, misnamed>>

TypeOK ==
  /\ perKey \subseteq Runs /\ misnamed \subseteq Runs
  /\ up \in BOOLEAN
  /\ run \in [Runs -> {"queued", "running", "released", "orphaned", "finished"}]
  /\ pending \in [Runs -> {"absent", "fresh", "expired"}]
  /\ pipe \in [Runs -> BOOLEAN]
  /\ stored \subseteq Keys
  /\ client \in [Clients -> ClientStates]
  /\ thread \in [Clients -> ThreadStates]
  /\ used \in [Runs -> Nat] /\ dialled \in [Clients -> Nat]
  /\ faults \in Nat

NoClient == [at |-> "absent", token |-> "unread", cache |-> {}, db |-> FALSE,
             full |-> FALSE, missing |-> {}, want |-> {}, all |-> FALSE,
             failure |-> "none"]
NoThread == [at |-> "none", keys |-> {}, all |-> FALSE]

Init ==
  /\ perKey \in SUBSET Runs /\ misnamed \in SUBSET Runs
  /\ up = TRUE
  /\ run = [r \in Runs |-> "queued"]
  /\ pending = [r \in Runs |-> "absent"]
  /\ pipe = [r \in Runs |-> FALSE]
  /\ stored \in SUBSET Keys
  /\ client = [c \in Clients |-> NoClient]
  /\ thread = [c \in Clients |-> NoThread]
  /\ used = [r \in Runs |-> 0]
  /\ dialled = [c \in Clients |-> 0]
  /\ faults = 0

Fault == faults < MaxFaults /\ faults' = faults + 1
SingleUse(r) == r \notin perKey
history == <<used, dialled>>

----------------------------------------------------------------------------
(* The worker.                                                              *)

(* _broker_handover and the Popen: the token is registered and written to   *)
(* the pipe before the subprocess starts.                                   *)
Spawn(r) ==
  /\ up
  /\ run[r] = "queued"
  /\ run' = [run EXCEPT ![r] = "running"]
  /\ pending' = [pending EXCEPT ![r] = "fresh"]
  /\ pipe' = [pipe EXCEPT ![r] = TRUE]
  /\ client' = [client EXCEPT ![Main[r]].at = "idle"]
  /\ UNCHANGED <<manifest, up, stored, thread, history, faults>>

(* Mutants: a mark in place of the removal, and neither.                    *)
ReleaseRunMarks(r) ==
  /\ up
  /\ run[r] = "running"
  /\ pending' = [pending EXCEPT ![r] = "released"]
  /\ run' = [run EXCEPT ![r] = "released"]
  /\ UNCHANGED <<manifest, up, pipe, stored, client, thread, history, faults>>

ReleaseRunLater(r) ==
  /\ up
  /\ run[r] = "running"
  /\ run' = [run EXCEPT ![r] = "released"]
  /\ UNCHANGED <<manifest, up, pending, pipe, stored, client, thread, history, faults>>

(* _finalize_run: first release_run, then the row.  The processes of the    *)
(* run may still be there.                                                  *)
ReleaseRun(r) ==
  /\ up
  /\ run[r] = "running"
  /\ pending' = [pending EXCEPT ![r] = "absent"]
  /\ run' = [run EXCEPT ![r] = "released"]
  /\ UNCHANGED <<manifest, up, pipe, stored, client, thread, history, faults>>

RecordFinish(r) ==
  /\ up
  /\ run[r] = "released"
  /\ run' = [run EXCEPT ![r] = "finished"]
  /\ UNCHANGED <<manifest, up, pending, pipe, stored, client, thread, history, faults>>

(* Time passes: 30 seconds for a single-use token, 24 hours for the other.  *)
Expire(r) ==
  /\ up
  /\ pending[r] = "fresh"
  /\ pending' = [pending EXCEPT ![r] = "expired"]
  /\ UNCHANGED <<manifest, up, run, pipe, stored, client, thread, history, faults>>

(* Mutant: the sweep takes only tokens meant for one use.                   *)
ExpiredSingleUse(r) == pending[r] = "expired" /\ SingleUse(r)

Expired(r) == pending[r] = "expired"

(* _sweep_loop                                                              *)
SweepTokens ==
  /\ up
  /\ \E r \in Runs : Expired(r)
  /\ pending' = [r \in Runs |-> IF Expired(r) THEN "absent" ELSE pending[r]]
  /\ UNCHANGED <<manifest, up, run, pipe, stored, client, thread, history, faults>>

(* The worker dies, with its threads and its table; a waiting client reads  *)
(* a connection that was cut.                                               *)
WorkerDies ==
  /\ up
  /\ Fault
  /\ up' = FALSE
  /\ run' = [r \in Runs |-> IF run[r] \in {"running", "released"} THEN "orphaned" ELSE run[r]]
  /\ pending' = [r \in Runs |-> "absent"]
  /\ thread' = [c \in Clients |-> IF client[c].at = "waiting"
                                  THEN [NoThread EXCEPT !.at = "ERROR"] ELSE NoThread]
  /\ UNCHANGED <<manifest, pipe, stored, client, history>>

Restart ==
  /\ ~up
  /\ up' = TRUE
  /\ UNCHANGED <<manifest, run, pending, pipe, stored, client, thread, history, faults>>

(* The sweep of orphans marks the rows of a dead worker.                    *)
SweepOrphan(r) ==
  /\ up
  /\ run[r] = "orphaned"
  /\ run' = [run EXCEPT ![r] = "finished"]
  /\ UNCHANGED <<manifest, up, pending, pipe, stored, client, thread, history, faults>>

----------------------------------------------------------------------------
(* A thread of the broker.                                                  *)

Thread(c, at) == thread' = [thread EXCEPT ![c].at = at]

(* Whether _consume_token lets the token be used.                           *)
Accepts(r) == pending[r] = "fresh" /\ r \notin misnamed

(* Mutant: only a refused token is removed.                                 *)
SpendsRefused(r) == pending[r] = "expired" \/ r \in misnamed

(* Whether it removes the token under the lock.                             *)
Spends(r) == SingleUse(r) \/ pending[r] = "expired" \/ r \in misnamed

ConsumeToken(c) ==
  /\ up
  /\ thread[c].at = "received"
  /\ LET r == RunOf[c]
     IN /\ pending' = IF Spends(r) THEN [pending EXCEPT ![r] = "absent"] ELSE pending
        /\ IF Accepts(r)
           THEN Thread(c, "accepted") /\ used' = [used EXCEPT ![r] = @ + 1]
           ELSE Thread(c, "DENIED") /\ UNCHANGED used
  /\ UNCHANGED <<manifest, up, run, pipe, stored, client, dialled, faults>>

(* _fetch_credentials, outside the lock: the keys asked for that are        *)
(* stored, or all of them.                                                  *)
FetchCredentials(c) ==
  /\ up
  /\ thread[c].at = "accepted"
  /\ \/ /\ thread' = [thread EXCEPT ![c].at = "OK",
                        ![c].keys = IF thread[c].all THEN stored ELSE stored \cap @]
        /\ UNCHANGED faults
     \/ /\ Fault
        /\ Thread(c, "ERROR")
  /\ UNCHANGED <<manifest, up, run, pending, pipe, stored, client, history>>

(* The reply finds nobody: the client has given up or gone.                 *)
Discard(c) ==
  /\ thread[c].at \in {"OK", "DENIED", "ERROR"}
  /\ client[c].at # "waiting"
  /\ thread' = [thread EXCEPT ![c] = NoThread]
  /\ UNCHANGED <<manifest, up, run, pending, pipe, stored, client, history, faults>>

----------------------------------------------------------------------------
(* A process of the plugin.                                                 *)

(* os.fork: the child has its parent's memory, and shares the pipe.         *)
Fork(c, d) ==
  /\ client[c].at = "idle"
  /\ client[d].at = "absent"
  /\ RunOf[c] = RunOf[d]
  /\ d # Main[RunOf[d]]
  /\ client' = [client EXCEPT ![d] = client[c]]
  /\ UNCHANGED <<manifest, up, run, pending, pipe, stored, thread, used, dialled, faults>>

(* get_cached in startup mode: everything, once.                            *)
GetAtStartup(c) ==
  /\ SingleUse(RunOf[c])
  /\ ~client[c].full
  /\ client' = [client EXCEPT ![c].at = "dialling", ![c].all = TRUE, ![c].want = {}]

(* get_cached in per-key mode: what of the keys asked for is neither cached *)
(* nor known not to be stored.                                              *)
GetPerKey(c, keys) ==
  LET missing == IF client[c].full THEN {}
                 ELSE keys \ (client[c].cache \cup client[c].missing)
  IN /\ RunOf[c] \in perKey
     /\ missing # {} \/ ~client[c].db
     /\ client' = [client EXCEPT ![c].at = "dialling", ![c].all = FALSE, ![c].want = missing]

Get(c) ==
  /\ client[c].at = "idle"
  /\ client[c].failure = "none"
  /\ GetAtStartup(c) \/ \E keys \in SUBSET Keys : GetPerKey(c, keys)
  /\ UNCHANGED <<manifest, up, run, pending, pipe, stored, thread, used, dialled, faults>>

(* An error other than a denial is kept in startup mode only.               *)
Keeps(c, error) == IF error = "denied" \/ SingleUse(RunOf[c]) THEN error ELSE "none"
Fails(c, error) == client' = [client EXCEPT ![c].at = "idle", ![c].want = {}, ![c].all = FALSE,
                                            ![c].failure = Keeps(c, error)]

(* _read_token: the pipe gives the token to whoever reads it first.         *)
ReadToken(c) ==
  /\ client[c].at = "dialling"
  /\ client[c].token = "unread"
  /\ client' = [client EXCEPT ![c].token = IF pipe[RunOf[c]] THEN "held" ELSE "error"]
  /\ pipe' = [pipe EXCEPT ![RunOf[c]] = FALSE]
  /\ UNCHANGED <<manifest, up, run, pending, stored, thread, history, faults>>

NoToken(c) ==
  /\ client[c].at = "dialling"
  /\ client[c].token = "error"
  /\ Fails(c, "error")
  /\ UNCHANGED <<manifest, up, run, pending, pipe, stored, thread, history, faults>>

(* The connection and the request; refused, the error is not kept.          *)
Dial(c) ==
  /\ client[c].at = "dialling"
  /\ client[c].token = "held"
  /\ thread[c].at = "none"
  /\ IF up
     THEN /\ client' = [client EXCEPT ![c].at = "waiting"]
          /\ thread' = [thread EXCEPT ![c] = [at |-> "received", keys |-> client[c].want,
                                              all |-> client[c].all]]
          /\ dialled' = [dialled EXCEPT ![c] = @ + 1]
     ELSE /\ client' = [client EXCEPT ![c].at = "idle", ![c].want = {}, ![c].all = FALSE]
          /\ UNCHANGED <<thread, dialled>>
  /\ UNCHANGED <<manifest, up, run, pending, pipe, stored, used, faults>>

(* The reply is read and cached.                                            *)
Receive(c) ==
  /\ client[c].at = "waiting"
  /\ thread[c].at \in {"OK", "DENIED", "ERROR"}
  /\ thread' = [thread EXCEPT ![c] = NoThread]
  /\ CASE thread[c].at = "OK" ->
            client' = [client EXCEPT
              ![c].at = "idle", ![c].want = {}, ![c].all = FALSE, ![c].db = TRUE, ![c].cache = @ \cup thread[c].keys,
              ![c].full = @ \/ thread[c].all,
              ![c].missing = IF thread[c].all THEN @
                             ELSE @ \cup (client[c].want \ thread[c].keys)]
       [] thread[c].at = "DENIED" -> Fails(c, "denied")
       [] thread[c].at = "ERROR" -> Fails(c, "error")
  /\ UNCHANGED <<manifest, up, run, pending, pipe, stored, history, faults>>

(* The reply is cut short or does not come within a minute.                 *)
ReplyLost(c) ==
  /\ client[c].at = "waiting"
  /\ Fault
  /\ Fails(c, "error")
  /\ UNCHANGED <<manifest, up, run, pending, pipe, stored, thread, history>>

(* Plugins are code of their own: a process that has read the token may     *)
(* present it to the socket itself, past the SDK and what it remembers.     *)
PresentAgain(c) ==
  /\ SingleUse(RunOf[c])
  /\ client[c].at = "idle"
  /\ client[c].token = "held"
  /\ up
  /\ thread[c].at = "none"
  /\ thread' = [thread EXCEPT ![c] = [at |-> "received", keys |-> {}, all |-> TRUE]]
  /\ UNCHANGED <<manifest, up, run, pending, pipe, stored, client, history, faults>>

Exit(c) ==
  /\ client[c].at \in {"idle", "dialling", "waiting"}
  /\ client' = [client EXCEPT ![c] = [NoClient EXCEPT !.at = "gone"]]
  /\ UNCHANGED <<manifest, up, run, pending, pipe, stored, thread, history, faults>>

(* An operator stores a credential while runs use them.                     *)
StoreKey ==
  /\ \E k \in Keys \ stored : stored' = stored \cup {k}
  /\ UNCHANGED <<manifest, up, run, pending, pipe, client, thread, history, faults>>

Worker == \/ \E r \in Runs : \/ Spawn(r) \/ ReleaseRun(r) \/ RecordFinish(r)
                             \/ Expire(r) \/ SweepOrphan(r)
          \/ SweepTokens \/ WorkerDies \/ Restart
Broker(c) == ConsumeToken(c) \/ FetchCredentials(c) \/ Discard(c)
Plugin(c) == \/ Get(c) \/ ReadToken(c) \/ NoToken(c) \/ Dial(c) \/ Receive(c)
             \/ ReplyLost(c) \/ PresentAgain(c) \/ Exit(c) \/ \E d \in Clients : Fork(c, d)

Next == Worker \/ StoreKey \/ \E c \in Clients : Broker(c) \/ Plugin(c)

Spec == Init /\ [][Next]_vars

(* PM2 restarts the worker, time passes, and the worker's threads run; of   *)
(* runs and plugins nothing is assumed.                                     *)
FairSpec == Spec /\ WF_vars(Restart) /\ WF_vars(SweepTokens)
                 /\ \A r \in Runs : WF_vars(Expire(r))
                 /\ \A c \in Clients : WF_vars(Broker(c))

----------------------------------------------------------------------------
(* Safety.                                                                  *)

(* However many processes present it, and whatever expires or dies          *)
(* meanwhile, a single-use token is accepted once.                          *)
SingleUseAcceptedOnce == \A r \in Runs : SingleUse(r) => used[r] <= 1

(* A run that is being finalized, or whose row is final, has no token left  *)
(* in the table, so no request that comes later is accepted.                *)
NoTokenOfFinishedRun ==
  \A r \in Runs : run[r] \in {"queued", "released", "orphaned", "finished"}
                   => pending[r] = "absent"

(* In startup mode a process reaches the broker once; what its request came *)
(* to is what it keeps, and no second request hides it behind a denial.     *)
OneRequestAtStartup ==
  \A c \in Clients : SingleUse(RunOf[c]) => dialled[c] <= 1

(* Liveness: no token stays in the table for ever, even if no run is ever   *)
(* finalized.                                                               *)
TokensLeave == \A r \in Runs : pending[r] # "absent" ~> pending[r] = "absent"
=============================================================================
