\* Two clients with the same UUID.
CONSTANTS
  a = a
  b = b
  x = x
  ch = ch
  ua = ua
  ux = ux
  None = None
  UuidOf <- MCUuidOf
  Allowed = {ua}
  Clients = {a, b}
  Channels = {}
  Ids = {1}
  MaxLinks = 2
  MaxPings = 0
  MaxFaults = 1
SPECIFICATION FairSpec
INVARIANTS OneSession EntryIsLive
PROPERTIES Reconnects LinksEnd
CHECK_DEADLOCK FALSE
