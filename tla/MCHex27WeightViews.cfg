CONSTANTS
  NumIps <- MCNumIps
  ArrayIps <- MCArrayIps
  NodesPerElement <- MCNodesPerElement
SPECIFICATION Spec
INVARIANTS
  TypeOK
  CopyFaithful
CHECK_DEADLOCK FALSE
