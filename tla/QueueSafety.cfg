SPECIFICATION Spec
CONSTANTS
  Producers = {p1, p2}
  Consumers = {c1, c2}
  Interrupters = {i1}
  Threads <- MCThreads
  Elements = {e1, e2}
  None = None
  m_max = 2
SYMMETRY Symmetry
INVARIANTS
  TypeOK
  NoLostWakeUp
  SawIsStillTrue
  AtMostOneMissed
PROPERTIES
  FifoSpec
