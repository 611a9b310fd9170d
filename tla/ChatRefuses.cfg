SPECIFICATION Spec
CONSTANTS
  Talker = talker
  Second = second
  Silent = silent
  Clients <- MCClients
  Port <- MCPort
  Script <- MCScript
  MAX_CLIENTS = 2
  POLL_MAX = 3
  BufSize = 2
PROPERTIES
  RefusesOnlyWhenFull
