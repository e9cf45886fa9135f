CONSTANTS
  IpsPerDirection <- MCIpsPerDirection
  IpJacobian <- MCIpJacobian
  IpWeight <- MCIpWeight
  Layouts <- MCLayouts
SPECIFICATION Spec
INVARIANTS
  TypeOK
PROPERTIES
  AreaVectorsRefined
CHECK_DEADLOCK FALSE
