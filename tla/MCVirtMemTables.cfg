SPECIFICATION VSpec
CONSTANTS
  N = 12
  BootMap <- MCBootMap
  KernelPages = 1
  Requests <- MCRequests
  MaxAllocID = 9
  ENTRIES_COUNT = 4
  PDTAddress = 6
  PTAddress = 7
  TestedPages <- MCTested
  Leftover <- MCLeftover
  VideoPage = 1
  Device <- MCDevice
  Sizes <- MCSizes
  MaxHeld = 2
  MaxUsed = 12
INVARIANT TablesReserved
\* The manager stops when the id bound is met.
CHECK_DEADLOCK FALSE
