SPECIFICATION Spec
CONSTANTS
  Callers = {1, 2}
  MayCall = {"cache", "ftp-force", "ftp", "s3", "async", "progress"}
  Versions = {1, 2, 3}
  Pages = {3}
  Length <- Lengths
  Hole = Hole
  Retries = 1
  MaxChunk = 2
  Traits = {"replaces", "faults", "cuts"}
CHECK_DEADLOCK FALSE
INVARIANTS TypeOK SettledWhole StoresResource
PROPERTIES CallsReturn
