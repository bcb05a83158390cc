CONSTANTS
  ChunkSizes = {1, 3}
  ReadSizes = {1, 3}
  BufferSize = 3
  MaxTyped = 5
  MaxPosted = 2
SPECIFICATION FairSpec
INVARIANT TypeOK
INVARIANT StreamIntact
PROPERTY EveryKeyIsRead
