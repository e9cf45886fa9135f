CONSTANTS
  Orders <- MCOrders
  Boxes <- MCBoxes
SPECIFICATION Spec
INVARIANTS
  TypeOK
  VolumeMetricExact
\* The computation ends once every node is written.
CHECK_DEADLOCK FALSE
