SPECIFICATION Spec
CONSTANTS
  None = None
  Partial = Partial
  MaxVersion = 2
  MaxStamp = 1
  MaxFaults = 1
  MaxAtOnce = 2
  Workers = {w1, w2}
  Kinds = {"install", "update"}
SYMMETRY Interchangeable
INVARIANTS
  SwapKeepsACopy
