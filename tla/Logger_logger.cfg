SPECIFICATION FairSpec
CONSTANTS
  client = client
  w1 = w1
  w2 = w2
  Client <- client
  Worker <- Workers
  Slots = 2
  Calls = 1
  Lives = 2
CHECK_DEADLOCK FALSE
INVARIANTS
  OwnBuffer
  SlotsSuffice
PROPERTIES
  ThreadsGetThrough
