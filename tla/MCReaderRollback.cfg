SPECIFICATION Spec
CONSTANTS
  NoHeader = NoHeader
  Versions = {1, 2}
  Length <- GrowingLength
  Etag <- OwnValidator
  LastModified <- OwnValidator
  HeaderSets <- AllHeaders
  Traits = {"replaces", "rollback", "restarts"}
  MaxRetries = 2
  MaxChunk = 2
INVARIANT NoSplice
