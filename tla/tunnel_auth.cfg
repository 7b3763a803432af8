\* An allowed client, one that is not, and a pool channel; two streams on
\* a link, whose channel ids can collide.
CONSTANTS
  a = a
  b = b
  x = x
  ch = ch
  ua = ua
  ux = ux
  None = None
  UuidOf <- MCUuidOf
  Allowed = {ua}
  Clients = {a, x}
  Channels = {ch}
  Ids = {1, 2}
  MaxLinks = 1
  MaxPings = 2
  MaxFaults = 1
SPECIFICATION Spec
INVARIANTS AuthBeforeRelay Agreement NoStaleChannel NoPanic
CHECK_DEADLOCK FALSE
