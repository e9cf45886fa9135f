\* Restarts, I/O errors and every branch of load() and output().
CONSTANTS
  MaxRestarts = 3
  MaxRuns = 4
  MaxTime = 2
  NPoints = 2
  DefaultOutput = "NETCDF"
  IoFailures = TRUE
  Configs <- MCConfigs
SPECIFICATION Spec
INVARIANTS
  TypeOK
  SamplesPersist
  OneFilePerRun
  RestartsExhaustedOnlyWhenAllTaken
\* The simulation ends: at the final time, or after the last restart.
CHECK_DEADLOCK FALSE
