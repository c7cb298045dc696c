SPECIFICATION Spec
CONSTANTS
  N = 9
  BootMap <- MCBootMap
  KernelPages = 1
  Requests <- MCRequests
  MaxAllocID = 9
INVARIANTS
  FreePtrIsFirstUsable
  PagesAccounted
  NeverPanics
PROPERTIES
  FreeReleasesBlock
  SinglePageServed
  ImplementsContract
\* The manager stops when it hangs, and callers may stop at the id bound.
CHECK_DEADLOCK FALSE
