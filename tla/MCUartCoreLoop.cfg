SPECIFICATION FairSpec
CONSTANTS
  OVERSAMPLE = 9
  AccSize = 4
  Inc = 3
  Bytes <- TwoBytes
  Sends <- Alternately
  TX_FIFO_DEPTH = 1
  RX_FIFO_DEPTH = 2
  HAS_RTS_CTS = TRUE
  RTS_DEASSERT_LEVEL = 1
  RTS_ASSERT_LEVEL = 0
  Setups <- ThreeSetups
  Unknown = Unknown
INVARIANTS KeepsAll StopsOnCts
PROPERTIES ImplementsByteStream Launches
