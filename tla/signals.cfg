SPECIFICATION GSpec
CONSTANTS
  NULL = NULL
  PCB_TABLE_SIZE = 3
  PQ_SIZE = 1
  NUM_SEMAPHORES = 0
  SIG_TABLE_SIZE = 3
  TICK_SPLIT = 10
  UINT_MAX = 7
  Calls = {"CREATE", "WAIT", "SLEEP", "KILL", "SIGNAL", "SIGRETURN"}
  Millis = {20}
  MaxPid = 2
  MaxSem = 0
  MaxFrames = 3
  MaxWaiters = 1
INVARIANTS ResumesOwner MaskMatchesHandler PendingIsMasked HandlersNestUpwards
