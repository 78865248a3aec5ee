SPECIFICATION Spec
CONSTANTS
  Callers = {c1}
  c1 = c1
  Versions = {1, 2, 3}
  Length <- Lengths
  Threshold = 2
  Requested = 1
  MaxParts = 3
  MinPartSize = 2
  MaxRetries = 1
  MaxLate = 1
  Traits = {"edits", "openFails"}
CHECK_DEADLOCK FALSE
INVARIANTS TypeOK PartsInPlace OkMeansStored
PROPERTIES CallsReturn
