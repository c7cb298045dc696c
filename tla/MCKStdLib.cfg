SPECIFICATION Spec
CONSTANTS
  PageWords = 3
  NPages = 10
  Capacity = 2
  Keys = {1, 2, 257}
  Values = {5, 6}
  Items = {7, 8}
  MaxItems = 5
  DirtyPages = {2}
\* Memory ends.
CHECK_DEADLOCK FALSE
INVARIANTS
  VectorIsStack
  TableIsMap
