SPECIFICATION Spec
CONSTANTS
  NULL = NULL
  PCB_TABLE_SIZE = 4
  PQ_SIZE = 1
  NUM_SEMAPHORES = 0
  SIG_TABLE_SIZE = 1
  TICK_SPLIT = 10
  UINT_MAX = 7
  Calls = {"CREATE", "STOP", "WAIT"}
  Millis = {}
  MaxPid = 3
  MaxSem = 0
  MaxFrames = 0
  MaxWaiters = 2
INVARIANT JoinComplete
