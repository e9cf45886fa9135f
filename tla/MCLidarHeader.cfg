\* output_txt's first call: is the header line written?
CONSTANTS
  MaxRestarts = 3
  MaxRuns = 1
  MaxTime = 2
  NPoints = 2
  DefaultOutput = "NETCDF"
  IoFailures = FALSE
  Configs <- MCWritingConfigs
SPECIFICATION Spec
INVARIANTS
  TxtHeaderFirst
CHECK_DEADLOCK FALSE
