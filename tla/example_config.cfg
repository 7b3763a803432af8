\* One key of each kind.
CONSTANTS
  Given = {"dial_timeout", "concur", "dns_server", "dn_qr"}
  Uuids <- MCUuids
  MaxUuids = 2
SPECIFICATION Spec
INVARIANTS DocumentedLoads
CHECK_DEADLOCK FALSE
