SPECIFICATION FairSpec
CONSTANTS
  Places <- MCPlaces
  Links <- MCLinks
  Values <- MCValues
  GlobalValues <- MCGlobalValues
  TextValues <- MCTextValues
  Word = 4992
  SmallEnd = 500
  SliceEnd = 2500
  MaxCount = 4
  MaxBlocks = 10
INVARIANT SnapshotWhole
INVARIANT HeapInv
PROPERTY RunEnds
CHECK_DEADLOCK FALSE
