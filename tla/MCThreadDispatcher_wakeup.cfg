CONSTANTS
  Tasks = {t1}
  External = {}
  Conns = {c1}
  Threads = {w1, w2, p1}
  Workers = {w1, w2}
  Destroyer = p1
  NoThread = NoThread
  NoConn = NoConn
SPECIFICATION TDFairSpec
PROPERTIES
  EveryTaskSettles
CHECK_DEADLOCK FALSE
