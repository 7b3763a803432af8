\* Chunks of 1, 3 and 6 bytes; 4 are a pack, 5 the limit.
CONSTANTS
  DnPack = 4
  DnTail = 1
  DnQr = 3
  Low = 2
  MaxQueue = 5
  Sizes = {1, 3, 6}
  MaxChunks = 4
SPECIFICATION FairSpec
INVARIANTS LossExplained InOrder
PROPERTIES BatchIsSent FlusherEnds
CHECK_DEADLOCK FALSE
