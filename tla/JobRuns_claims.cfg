SPECIFICATION Spec
CONSTANTS
  sync1 = sync1
  hook1 = hook1
  NoJob = NoJob
  NoProc = NoProc
  SyncJobs <- MCSyncJobs
  HookJobs <- MCHookJobs
  FirstRunHook <- MCFirstRunHook
  Policy <- QueuePolicy
  Clients = {c1}
  Schedulers = {}
  Workers = {w1, w2}
  Procs = {p1, p2}
  Ops = {"cancel", "retention", "standalone"}
  StaleBeats = 1
  MaxRuns = 2
  MaxFaults = 1
SYMMETRY ProcWorkerSymmetry
INVARIANTS ExclusiveClaim
