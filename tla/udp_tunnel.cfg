\* Two addresses on the client's side, two targets.
CONSTANTS
  Sources = {s1, s2}
  Targets = {t1, t2}
  None = None
  MaxPackets = 2
  MaxReplies = 1
SPECIFICATION FairSpec
INVARIANTS UploadOrdered NothingLeft
PROPERTIES BothEnd
CHECK_DEADLOCK FALSE
