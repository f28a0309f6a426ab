SPECIFICATION Spec
CONSTANTS
  sync1 = sync1
  hook1 = hook1
  NoJob = NoJob
  NoProc = NoProc
  SyncJobs <- MCSyncJobs
  HookJobs <- MCHookJobs
  FirstRunHook <- MCFirstRunHook
  Policy <- CancelPolicy
  Clients = {c1}
  Schedulers = {}
  Workers = {w1}
  Procs = {p1, p2}
  Ops = {"cancel", "force", "pause", "resume"}
  StaleBeats = 1
  MaxRuns = 2
  MaxFaults = 1
SYMMETRY ProcSymmetry
INVARIANTS TypeOK NoAbandonedChild
PROPERTIES OnlyExecutorRewritesFinished ImplementsLifecycle
