SPECIFICATION Spec
CONSTANT Work = 3
INVARIANTS
  EOIsMatch
  ClockRuns
  ByteHasRequest
PROPERTIES
  ClockTicks
  ByteRead
