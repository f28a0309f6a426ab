SPECIFICATION ServicesSpec
CONSTANTS
  Senders = {"rules", "bridge", "broker"}
  Runners = {w1}
  MaxRules = 2
  Cooldown = 2
  MaxStall = 1
  MaxFaults = 1
  Closed = Closed
  Findings = {f1}
  Webhooks = {h1, h2}
  r1 = r1
  c1 = c1
  c2 = c2
  k1 = k1
  Runs = {r1}
  Clients = {c1, c2}
  RunOf <- RunOfDef
  Main <- MainDef
  Keys = {k1}
INVARIANTS
  BothTypeOK SilencedOnlyBehindAFailure SpacedByCooldown AlertedWasHeard DetectedOnce
  BrokerTypeOK SingleUseAcceptedOnce NoTokenOfFinishedRun
PROPERTIES
  SuccessMeansDecided UndeliveredIsRetried TokensLeave
CHECK_DEADLOCK FALSE
