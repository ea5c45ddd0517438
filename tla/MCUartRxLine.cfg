SPECIFICATION Spec
CONSTANTS
  OVERSAMPLE = 8
  AccSize = 8
  Inc = 7
  BitClks = 9
  Bytes <- TwoBytes
  Cfgs <- ThreeFormats
  Breaks = {0, 4}
  Glitches = {2}
  NoRecord = NoRecord
INVARIANT DecodesAll
