SPECIFICATION Spec
CONSTANTS
  None = None
  Partial = Partial
  MaxVersion = 2
  MaxStamp = 0
  MaxFaults = 0
  MaxAtOnce = 1
  Workers = {w1}
  Kinds = {"install", "update"}
PROPERTIES
  RecordedStaysRecorded
CHECK_DEADLOCK FALSE
