SPECIFICATION Spec
CONSTANTS
  Callers = {c1}
  c1 = c1
  Versions = {2}
  Length <- Lengths
  Threshold = 2
  Requested = 1
  MaxParts = 2
  MinPartSize = 1
  MaxRetries = 1
  MaxLate = 1
  Traits = {"openFails"}
CHECK_DEADLOCK FALSE
PROPERTY AbortedBeforeReturn
