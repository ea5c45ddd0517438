\* As in MCAwaitValues; the promise of README.md:169 is violated by a second read.
SPECIFICATION Spec
CONSTANTS
    Designs <- MCDesigns
    Length <- MCLength
    Width = 4
    Strings <- MCStrings
    Numbers = {5}
    Driven <- MCDriven
    MaxUnread = 4
INVARIANT NumIsLatest
CHECK_DEADLOCK FALSE
