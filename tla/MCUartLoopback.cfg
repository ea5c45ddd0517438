SPECIFICATION FairSpec
CONSTANTS
  OVERSAMPLE = 8
  AccSize = 4
  Incs = {1, 3}
  Bytes <- TwoBytes
  Cfgs <- Running
  MaxFlight = 2
INVARIANTS LoopsBack NoDrift
PROPERTIES ImplementsSerialLine AllArrive
