SPECIFICATION Spec
CONSTANTS
  HeapSize = 32
  Sizes = {1, 3}
  Alignments = {8}
CHECK_DEADLOCK FALSE
INVARIANTS
  ListSorted
  BlocksTile
