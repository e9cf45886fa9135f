CONSTANTS
  NumRanks = 3
  NPoints = 2
  MaxSteps = 2
SPECIFICATION Spec
INVARIANTS
  TypeOK
  RecordsAveraged
