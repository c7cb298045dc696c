SPECIFICATION Spec
CONSTANTS
  SECTOR_SIZE = 32
  SecPerClus = 4
  RES_SEC_COUNT = 2
  SIZE_RANGE = 512
  Disks <- MCDisks
  FileSizes <- MCFileSizes
  MaxAdds = 6
INVARIANTS
  ReadsBack
  ChainsApart
  FullRefused
\* The program ends.
CHECK_DEADLOCK FALSE
