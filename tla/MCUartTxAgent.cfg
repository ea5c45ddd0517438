SPECIFICATION FairSpec
CONSTANTS
  Formats <- BothFormats
  Timeouts = {0, 1}
  HasRts = TRUE
  None = None
  MaxTickets = 2
  MaxWork = 4
INVARIANTS TicketsKept FramesWhole
PROPERTY WaitsEnd
CHECK_DEADLOCK FALSE
