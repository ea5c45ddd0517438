SPECIFICATION Spec
CONSTANTS
  Formats <- ShortOnly
  Timeouts = {0}
  HasRts = TRUE
  None = None
  MaxTickets = 2
  MaxWork = 4
INVARIANT TakesQueued
CHECK_DEADLOCK FALSE
