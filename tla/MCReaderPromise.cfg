SPECIFICATION Spec
CONSTANTS
  NoHeader = NoHeader
  Versions = {1, 2}
  Length <- ShrinkingLength
  Etag <- OwnValidator
  LastModified <- OwnValidator
  HeaderSets <- ValidatedHeaders
  Traits = {"replaces", "rollback", "badRange"}
  MaxRetries = 5
  MaxChunk = 2
PROPERTY ImplementsByteStream
