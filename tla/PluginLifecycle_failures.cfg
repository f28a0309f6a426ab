SPECIFICATION Spec
CONSTANTS
  None = None
  Partial = Partial
  MaxVersion = 3
  MaxStamp = 1
  MaxFaults = 2
  MaxAtOnce = 1
  Workers = {w1}
  Kinds = {"install", "update", "uninstall", "settings"}
INVARIANTS
  TypeOK
  UpdateKeepsItsWord
  UninstalledIsGone
  SettledHasTables
  NothingLeftBehind
PROPERTIES
  ImplementsPresence
