\* 16 values of a byte: a length field holds up to 255.
CONSTANTS
  Base = 16
  Conversations <- MCConversations
SPECIFICATION FormatsSpec
INVARIANTS MessagesKept EchFound
CHECK_DEADLOCK FALSE
