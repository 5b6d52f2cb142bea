SPECIFICATION SSpec
CONSTANTS
  NULL = NULL
  PCB_TABLE_SIZE = 4
  PQ_SIZE = 2
  NUM_SEMAPHORES = 0
  SIG_TABLE_SIZE = 1
  TICK_SPLIT = 10
  UINT_MAX = 7
  Calls = {"CREATE", "STOP", "SETPRIO", "SLEEP"}
  Millis = {0, 5, 20, 30}
  MaxPid = 3
  MaxSem = 0
  MaxFrames = 0
  MaxWaiters = 1
INVARIANTS WakesOnTime WakesOnlySleepers
PROPERTY ImplementsQueues
