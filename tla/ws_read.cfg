CONSTANTS
  w1 = w1
  w2 = w2
  c1 = c1
  c2 = c2
  r1 = r1
  r2 = r2
  Writers = {}
  Readers = {r1, r2}
  Closers = {c1}
  Timer = Timer
  Nobody = Nobody
  NoMessage = NoMessage
  UpPack = 3
  MaxQueue = 4
  WriteSizes = {}
  FrameSizes = {0, 1, 2}
  MaxWrites = 0
  MaxFrames = 2
SPECIFICATION FairSpec
INVARIANTS ReadStream
PROPERTIES CloseReleasesReaders
CHECK_DEADLOCK FALSE
