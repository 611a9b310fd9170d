SPECIFICATION FairSpec
CONSTANTS
  Talker = talker
  Second = second
  Silent = silent
  Clients <- MCClients
  Port <- MCPort
  Script <- MCScript
  MAX_CLIENTS = 2
  POLL_MAX = 3
  BufSize = 2
INVARIANTS
  TypeOK
  DescriptorsAgree
  MembersListed
  WholeLines
  EveryMemberHears
PROPERTIES
  EveryByteRead
