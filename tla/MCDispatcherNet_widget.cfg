CONSTANTS
  main = main
  pool = pool
  mainThread = mainThread
  w1 = w1
  w2 = w2
  w3 = w3
  request = request
  response = response
  extra = extra
  widget = widget
  private1 = private1
  private2 = private2
  Nobody = Nobody
  Dispatchers = {main, pool}
  Threads = {mainThread, w1}
  Tasks = {request, response}
  Conns = {widget, private1, private2}
  DispatcherOf <- WidgetDispatcher
  ConnOf <- WidgetConns
  Body <- WidgetBody
  Script <- WidgetScript
  Serves <- TwoServers
SPECIFICATION Spec
INVARIANTS
  NoDeadlock
CHECK_DEADLOCK FALSE
