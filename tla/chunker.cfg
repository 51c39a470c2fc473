SPECIFICATION ChunkSpec
CONSTANTS
  TargetChunkTokens = 13
  MinChunkTokens = 10
  MaxChunkTokens = 16
  OverlapTokens = 2
  Headings <- AllHeadings
  Documents <- SomeDocuments
INVARIANT ChunkTypeOK
INVARIANT TextAndLabelsKept
INVARIANT ChunksAreWhole
CHECK_DEADLOCK FALSE
