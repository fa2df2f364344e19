CONSTANTS
  main = main
  pool = pool
  mainThread = mainThread
  w1 = w1
  w2 = w2
  w3 = w3
  request = request
  response = response
  extra = extra
  widget = widget
  private1 = private1
  private2 = private2
  Nobody = Nobody
  Dispatchers = {main, pool}
  Threads = {mainThread, w1, w2, w3}
  Tasks = {request, response, extra}
  Conns = {widget, private1, private2}
  DispatcherOf <- OnTwoDispatchers
  ConnOf <- ChainConns
  Body <- ChainBody
  Script <- ChainScript
  Serves <- FourServers
SPECIFICATION FairSpec
INVARIANTS
  NetInv
  NoDeadlock
PROPERTIES
  ChainEnds
CHECK_DEADLOCK FALSE
