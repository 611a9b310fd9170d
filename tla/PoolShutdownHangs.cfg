SPECIFICATION FairSpec
CONSTANTS
  Workers = {w1}
  owner = owner
  Threads <- MCThreads
  m_core_size = 1
  Elements = {r1}
  Throwing = {}
  Interruptible = {}
  Kind <- MCKind
  None = None
  m_max = 1
PROPERTIES
  ShutdownTerminates
