SPECIFICATION Spec
CONSTANTS
    Designs <- MCDesigns
    Length <- MCLength
    Width = 4
    Strings <- MCStrings
    Numbers = {5}
    Driven <- MCDriven
    MaxUnread = 4
INVARIANTS
    NumOfSamples
    HexAgrees
PROPERTIES
    WritesOnce
CHECK_DEADLOCK FALSE
