SPECIFICATION Spec
CONSTANTS
  Crons <- MCCrons
  Period <- MCPeriod
  NoCron = NoCron
  BadCron = BadCron
  Schedulers = {sch}
  PollInterval = 6
  Jitter = 1
  Slack = 1
  Window = 6
  NoRow = NoRow
  Null = Null
  Faults = {"crash", "database", "operator"}
  MaxFaults = 1
  StartTimes <- MCStartTimes
  Horizon = 34
INVARIANTS TypeOK OneScheduled FiredOnceUnlessForgotten NoSlotGoesBy UninstalledIsForgotten
CHECK_DEADLOCK FALSE
