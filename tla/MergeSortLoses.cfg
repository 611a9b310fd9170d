SPECIFICATION SortSpec
CONSTANTS
  Values = {1, 2}
  MaxLength = 3
INVARIANTS
  MergeSortKeepsAll
CHECK_DEADLOCK FALSE
