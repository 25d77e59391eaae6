CONSTANTS
  PageSize = 8
  PageCount = 3
  CacheSize = 2
  CodePages <- MCCodePages
  Words <- MCWords
  Blocks <- MCBlocks
  WordSizes <- MCWordSizes
  BlockSizes <- MCBlockSizes
  Starts <- MCStarts
  MaxOps = 2
SPECIFICATION Spec
INVARIANT PagesInv
PROPERTY FlatMemorySpec
CHECK_DEADLOCK FALSE
