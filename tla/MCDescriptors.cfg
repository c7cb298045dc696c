SPECIFICATION Spec
CONSTANTS
  Address <- MCAddress
  TSSAddress <- MCTSSAddress
  TSSLimit <- MCTSSLimit
  Devices <- MCDevices
INVARIANTS
  SelectorsName
  VectorsReach
  LinesServed
\* A panic stops the machine.
CHECK_DEADLOCK FALSE
