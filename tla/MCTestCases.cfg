\* Every case, alone and after every other, on the core it is written for.
SPECIFICATION FairSpec
CONSTANTS
  None = None
  Programs <- RegisteredCases
  Plans <- MCPlans
  FlowPlans <- MCFlowPlans
INVARIANTS
  NoFailures
  CleanHandover
PROPERTIES
  LinesStable
  CasesEnd
