SPECIFICATION FairSpec
CONSTANTS
  Delay10 = {a}
  Delay25 = {}
  Delay30 = {}
  Delay59 = {d}
  Tasks <- MCTasks
  delay_time <- MCDelayTime
  None = None
  SIZE = 3
  MIN_UNIT = 10
  SHORT = 10
  Workers = {w}
  m_max = 1
  MaxStall = 4
INVARIANTS
  TypeOK
  PunctualIfAlone
  OffByWholeRotations
  NoneForgotten
  PoolOpenWhileTicking
PROPERTIES
  PoolSpec
  EveryTaskFires
  CloseJoins
