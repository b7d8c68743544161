CONSTANTS
  m1 = m1
  m2 = m2
  m3 = m3
  Machines = {m1, m2}
  Node = {0, 1}
  NoId = 255
  None = None
  UpCap = 1
  DownCap = 1
  MaxLost = 1
  MaxSends = 4
  MaxFaults = 1
SPECIFICATION LiveSpec
PROPERTIES KnownIsReached EveryWriteEnds
CHECK_DEADLOCK FALSE
