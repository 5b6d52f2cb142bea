SPECIFICATION USpec
CONSTANTS
  NULL = NULL
  PCB_TABLE_SIZE = 4
  PQ_SIZE = 1
  NUM_SEMAPHORES = 0
  SIG_TABLE_SIZE = 2
  TICK_SPLIT = 10
  UINT_MAX = 7
  Calls = {"CREATE","KILL","SIGNAL","UNSIGNAL","SIGRETURN","OPEN","CLOSE","READ","IOCTL","STOP","WAIT","SLEEP"}
  Millis = {10}
  MaxPid = 4
  MaxSem = 0
  MaxFrames = 2
  MaxWaiters = 1
  FD_TABLE_SIZE = 2
  BUF_LEN = 1
  DeviceNumbers = {2}
  Sizes = {2}
  Commands = {"COMMAND_ECHO_ON"}
  Keys = {"c","newline","CTRL_D"}
  Eofs = {"nul"}
  BUFFERSIZE = 4
  CHUNK = 2
  T_MILLIS = 10
  KillTargets = {3}
INVARIANTS KeyboardHandedOver RootIndexInBuffer EchoMatchesPrompt OneLogin
