\* Two channels that are each replaced once, one caller.
CONSTANTS
  N = 2
  Callers = {p}
  Rtts = {2}
  DialTimeout = 5
  TieWindow = 1
  MaxSessions = 2
SPECIFICATION FairSpec
INVARIANTS RttOfSlot NoneLeftOpen FailureExplained
PROPERTIES SlotRecovers
CHECK_DEADLOCK FALSE
