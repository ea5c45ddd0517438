SPECIFICATION Spec
CONSTANTS
  Registrations <- MCRegistrations
  PlanCalls <- MCPlanCalls
  TagCalls <- MCTagCalls
  AfterNames <- MCAfterNames
  MaxAfter = 3
INVARIANTS Complete InOrder NoNeedlessReordering HooksEnclose
