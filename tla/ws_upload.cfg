\* Two writers and a closer; every write fits the queue (as with the defaults).
CONSTANTS
  w1 = w1
  w2 = w2
  c1 = c1
  c2 = c2
  r1 = r1
  r2 = r2
  Writers = {w1, w2}
  Readers = {}
  Closers = {c1, c2}
  Timer = Timer
  Nobody = Nobody
  NoMessage = NoMessage
  UpPack = 3
  MaxQueue = 4
  WriteSizes = {1, 2, 3}
  FrameSizes = {}
  MaxWrites = 4
  MaxFrames = 0
SPECIFICATION Spec
SYMMETRY Symmetry
INVARIANTS SizeExact LossReported
CHECK_DEADLOCK FALSE
