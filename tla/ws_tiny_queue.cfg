\* A queue limit below the flush threshold, and writes of both sizes.
CONSTANTS
  w1 = w1
  w2 = w2
  c1 = c1
  c2 = c2
  r1 = r1
  r2 = r2
  Writers = {w1, w2}
  Readers = {}
  Closers = {c1}
  Timer = Timer
  Nobody = Nobody
  NoMessage = NoMessage
  UpPack = 4
  MaxQueue = 2
  WriteSizes = {1, 3, 4}
  FrameSizes = {}
  MaxWrites = 3
  MaxFrames = 0
SPECIFICATION FairSpec
INVARIANTS QueueBounded
PROPERTIES QueueDrains CloseCompletes ImplementsStream
CHECK_DEADLOCK FALSE
