SPECIFICATION Spec
CONSTANTS
  NoHeader = NoHeader
  Versions = {1, 2, 3}
  Length <- GrowingLength
  Etag <- OwnValidator
  LastModified <- OwnValidator
  HeaderSets <- AnyHeaders
  Traits = {"replaces", "restarts", "badRange", "unframed"}
  MaxRetries = 3
  MaxChunk = 2
INVARIANTS TypeOK Contiguous NoSplice EofComplete RequestsBounded
PROPERTIES ReadReturns
