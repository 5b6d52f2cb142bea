SPECIFICATION RSpec
CONSTANTS
  NULL = NULL
  PCB_TABLE_SIZE = 3
  PQ_SIZE = 1
  NUM_SEMAPHORES = 0
  SIG_TABLE_SIZE = 2
  TICK_SPLIT = 10
  UINT_MAX = 7
  Calls = {"CREATE", "KILL", "SIGNAL", "SIGRETURN", "OPEN", "CLOSE", "READ", "IOCTL", "WRITE"}
  Millis = {}
  MaxPid = 3
  MaxSem = 0
  MaxFrames = 1
  MaxWaiters = 1
  FD_TABLE_SIZE = 1
  BUF_LEN = 2
  DeviceNumbers = {2}
  Sizes = {2}
  Commands = {"COMMAND_EOF"}
  Keys = {"none", "a", "newline", "CTRL_D"}
  Eofs = {"a"}
INVARIANTS DTypeOK OneDescriptor BlockedReader ReadCountsBytes KeysInOrder
