SPECIFICATION Spec
CONSTANTS
  NULL = NULL
  PCB_TABLE_SIZE = 4
  PQ_SIZE = 2
  NUM_SEMAPHORES = 1
  SIG_TABLE_SIZE = 1
  TICK_SPLIT = 10
  UINT_MAX = 7
  Calls = {"CREATE", "YIELD", "STOP", "SETPRIO", "P", "V"}
  Millis = {}
  MaxPid = 3
  MaxSem = 1
  MaxFrames = 0
  MaxWaiters = 1
INVARIANTS TypeOK SemaphoreQueues ResumesOwner PidFindsOwner NextAssertion RankedIInv
PROPERTY ImplementsQueues
