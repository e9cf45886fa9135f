\* Team sizes 1-3, views of each rank 1-3, scratch reserved per thread.
CONSTANTS
  TeamSizes = {1, 2, 3}
  Requests <- MCRequests
  BytesPerTeam = 0
  BytesPerThread = 6
SPECIFICATION Spec
INVARIANTS
  TypeOK
  NoScratchRace
  FilledViewsIntact
\* A team ends when every thread has filled its views.
CHECK_DEADLOCK FALSE
