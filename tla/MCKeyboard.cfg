SPECIFICATION Spec
CONSTANTS
  BootCfgs <- MCBootCfgs
  ScanSets <- MCAnySet
  TwoPorts = TRUE
  MaxFaults = 1
  Keys <- MCKeys
  Others <- MCOthers
  Prefixed <- MCOthers
  Locks <- MCLocks
  MaxTyped = 7
INVARIANTS
  InStep
  ComesUp
  PrintsPresses
PROPERTY
  InitEnds
\* The typing stops at its bound.
CHECK_DEADLOCK FALSE
