CONSTANTS
  Tasks = {t1}
  External = {e1}
  Conns = {c1}
  Threads = {w1, w2, p1}
  Workers = {w1, w2}
  Destroyer = p1
  NoThread = NoThread
  NoConn = NoConn
SPECIFICATION TDFairSpec
INVARIANTS
  NoWorkerLeftAsleep
  SettledWhenDestroyed
PROPERTIES
  DestructorReturns
  AwakeWorkerDrains
  NoTaskAtHandDropped
CHECK_DEADLOCK FALSE
