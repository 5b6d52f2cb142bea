SPECIFICATION ASpec
CONSTANTS
  NULL = NULL
  freemem = 3
  HOLESTART = 16
  HOLEEND = 20
  maxaddr = 29
  MEM_HEADER_SIZE = 2
  MIN_STACK_SIZE = 2
  GRAIN = 2
  ULONG_MAX = 63
  Requests = {1, 3, 6, 63}
INVARIANTS SlotsApart FreeListOrdered NothingLost FreshWhenEmpty RoomForStack OwnersCanFree
