SPECIFICATION FairSpec
CONSTANTS
  Workers = {w1, w2}
  owner = owner
  Threads <- MCThreads
  m_core_size = 2
  Elements = {r1, t1, i1}
  Throwing = {t1}
  Interruptible = {i1}
  Kind <- MCKind
  None = None
  m_max = 2
INVARIANTS
  TypeOK
  InterruptsLiveThread
  WorkerCount
  TaskPlace
  ReturnedClean
  AtMostOneStranded
PROPERTIES
  ExecutorSpec
  EveryTaskRuns
  ShutdownSettles
