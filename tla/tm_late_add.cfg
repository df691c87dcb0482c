SPECIFICATION FairSpec
CONSTANTS
  main = main
  a = a
  b = b
  plain = plain
  nesting = nesting
  Client = {main, a, b}
  w1 = w1
  w2 = w2
  Worker = {w1, w2}
  Runnable = {plain, nesting}
  NoRequest = NoRequest
  NoTask = NoTask
  NoThread = NoThread
  Body <- Bodies
  Script <- LateAddScript
  InitialWorkers = 1
  MaxPending = 1
  SizeMax = 7
CHECK_DEADLOCK FALSE
PROPERTIES AddedTaskIsExecuted
