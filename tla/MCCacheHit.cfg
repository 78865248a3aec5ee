SPECIFICATION Spec
CONSTANTS
  Callers = {1, 2}
  MayCall = {"cache"}
  Versions = {1}
  Pages = {}
  Length <- Lengths
  Hole = Hole
  Retries = 1
  MaxChunk = 2
  Traits = {}
CHECK_DEADLOCK FALSE
INVARIANT CacheServesWhole
