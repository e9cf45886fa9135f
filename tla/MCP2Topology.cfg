CONSTANTS
  Entries <- MCEntries
SPECIFICATION Spec
INVARIANTS
  TypeOK
  SideNodesFormFace
  SideNodesOrdered
CHECK_DEADLOCK FALSE
