\* Two tests and a task on one net; one block more than two awaits need.
SPECIFICATION FairSpec
CONSTANTS
  Tests = {t1, t2}
  Tasks = {k1}
  Nets = {n1}
  Data = {d1, d2, d3}
  None = None
  WriteValues = {"0", "1"}
  DutValues = {"x"}
  Delays = {0, 1}
  MaxTime = 1
  MaxWork = 4
INVARIANTS TypeOK BlocksSafe OneWaker FramesSafe NestingSafe
PROPERTIES ReadSeesSettled TimersFire ChangesWake
CHECK_DEADLOCK FALSE
