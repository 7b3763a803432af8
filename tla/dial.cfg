\* Three attempts, two addresses of each family, up to four in an answer.
CONSTANTS
  IPv4 = {a4, b4}
  IPv6 = {a6, b6}
  Mapped = {b4}
  Name = Name
  Dialers = {0, 1, 2}
  MaxAnswer = 4
  None = None
SPECIFICATION FairDialSpec
INVARIANTS FamilyHonoured PreferenceKept OneOpen NoSendOnClosed FailureIsTotal
PROPERTIES Answered
CHECK_DEADLOCK FALSE
