CONSTANTS
  ProcCounts <- MCProcCounts
  SampleCounts <- MCSampleCounts
SPECIFICATION Spec
INVARIANTS
  ProbesOnValidRanks
  ProbesBalanced
CHECK_DEADLOCK FALSE
