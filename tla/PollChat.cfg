SPECIFICATION MCSpec
CONSTANTS
  Client <- MCClient
  Listening = Listening
  None = None
  POLL_MAX = 3
  MaxFd = 3
  Window = 2
  MaxLines = 2
INVARIANTS
  SlotsAgree
  NotAllWait
CHECK_DEADLOCK FALSE
PROPERTIES
  MessagesRead
