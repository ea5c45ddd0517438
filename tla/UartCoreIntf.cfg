SPECIFICATION IntfFairSpec
CONSTANTS
  TxDepth = 2
  RxDepth = 2
  Timeout = 2
  MaxOps = 4
  MaxChars = 4
INVARIANTS PushOnce PopsWhatItReads IdleMeansSent DropsCounted
PROPERTY CallsReturn
