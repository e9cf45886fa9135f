\* The three elements; the tables are constants, so there is nothing to vary.
SPECIFICATION Spec
INVARIANTS
  ShiftedShapesNodal
\* The evaluation ends once every entry is written.
CHECK_DEADLOCK FALSE
