SPECIFICATION Spec
CONSTANTS
  MaxBus = 1
  MaxDev = 1
  MaxFunc = 2
  MachineFunctions <- MCFunctions
  StrangeFunctions <- MCStrange
  MAX_DEV_COUNT = 5
  RamPages = {3, 9}
INVARIANTS
  ProtectedSafely
  EnumeratesAll
  OverrunsOnlyIfTooMany
PROPERTY BootEnds
\* The loader halts.
CHECK_DEADLOCK FALSE
