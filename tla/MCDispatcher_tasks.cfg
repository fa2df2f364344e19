CONSTANTS
  Tasks = {t1, t2}
  External = {}
  Conns = {c1}
  Threads = {p1, p2}
  NoThread = NoThread
  NoConn = NoConn
SPECIFICATION FairSpec
INVARIANTS
  OneTaskAtATime
  NoTaskLost
  NeverWaitsForOwnQueue
  NoCallbackAfterScope
PROPERTIES
  SettledOnce
  ImplementsTaskQueue
  EveryTaskSettles
  DestructorsReturn
CHECK_DEADLOCK FALSE
