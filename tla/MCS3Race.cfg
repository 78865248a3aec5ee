SPECIFICATION Spec
CONSTANTS
  Callers = {c1, c2}
  c1 = c1
  c2 = c2
  Versions = {1, 2}
  Length <- Lengths
  Threshold = 2
  Requested = 1
  MaxParts = 2
  MinPartSize = 1
  MaxRetries = 1
  MaxLate = 1
  Traits = {}
CHECK_DEADLOCK FALSE
INVARIANTS LimitsKept
PROPERTIES ImplementsAtomicPut AbortedBeforeReturn
