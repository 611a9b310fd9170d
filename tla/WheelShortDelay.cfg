SPECIFICATION Spec
CONSTANTS
  Delay10 = {a}
  Delay25 = {}
  Delay30 = {}
  Delay59 = {}
  Tasks <- MCTasks
  delay_time <- MCDelayTime
  None = None
  SIZE = 3
  MIN_UNIT = 10
  SHORT = 10
  Workers = {w}
  m_max = 1
  MaxStall = 1
INVARIANTS
  SlotInRange
