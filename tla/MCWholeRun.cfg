SPECIFICATION FairSpec
CONSTANTS
  Raised = Raised
  Absent = Absent
  Eps = 1
  Calls <- MCCalls
  Traces <- MCTraces
  ChainResults <- MCChainResults
  LegacyResults <- MCLegacyResults
INVARIANTS ReportsAreTrue ReferenceKeepsItsContract
PROPERTIES CancelIsHonoured
CHECK_DEADLOCK FALSE
