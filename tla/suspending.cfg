SPECIFICATION SuspendSpec
CONSTANTS
  NULL = NULL
  PCB_TABLE_SIZE = 5
  PQ_SIZE = 1
  NUM_SEMAPHORES = 1
  SIG_TABLE_SIZE = 1
  TICK_SPLIT = 10
  UINT_MAX = 7
  Calls = {"CREATE", "YIELD", "STOP", "WAIT", "P", "V", "SLEEP", "KILL"}
  Millis = {10, 20}
  MaxPid = 4
  MaxSem = 1
  MaxFrames = 1
  MaxWaiters = 1
INVARIANT JoinComplete
PROPERTIES JoinSafe BlockedKeepOrder SleepersKeepTime
