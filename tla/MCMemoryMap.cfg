SPECIFICATION Spec
CONSTANTS
  WORD = 32
  PAGE_SIZE_BYTES = 4
  KERNEL_MEMORY_REGION_SIZE_BYTES = 4
  EntryWords = {5, 6}
  Gaps <- MCGaps
  Sizes <- MCSizes
  States <- MCStates
  TestedBytes = 12
  MaxRegions = 3
  ListRoom = 16
INVARIANTS
  ListIsMap
  AlignedMapBoots
  SearchFinds
\* The constructor ends.
CHECK_DEADLOCK FALSE
