\* With the FIFO idle, requests at every moment; an odd and an even period, and one of
\* a tick, which is raised to 2.  With the FIFO in use, every clear, push and pop.
SPECIFICATION MCSpec
CONSTANTS
  Periods = {1, 5, 8}
  IDLE_POLL_TICKS = 3
  MaxRequests = 4
  MaxHeld = 12
  Items = {a, b, c}
  Depth = 3
  LevelSize = 4
  PtrSize = 4
  NoWord = NoWord
INVARIANT Consistent
PROPERTIES ImplementsQueue WholeCycles DoesAsAsked
