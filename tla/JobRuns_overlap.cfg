SPECIFICATION Spec
CONSTANTS
  sync1 = sync1
  hook1 = hook1
  NoJob = NoJob
  NoProc = NoProc
  SyncJobs <- MCSyncJobs
  HookJobs <- MCHookJobs
  FirstRunHook <- MCFirstRunHook
  Policy <- SkipPolicy
  Clients = {c1}
  Schedulers = {s1}
  Workers = {w1}
  Procs = {p1}
  Ops = {}
  StaleBeats = 1
  MaxRuns = 2
  MaxFaults = 0
INVARIANTS OneInFlight
