CONSTANTS
  Keys = {1, 2, 3}
  LEAF_NODE_MAX_CELLS = 3
  INTERNAL_NODE_MAX_CELLS = 3
  Pads <- MCPads
  Junk = {2}
  Ascending = FALSE
  MaxRows = 10
SPECIFICATION Spec
CHECK_DEADLOCK FALSE
INVARIANT RowsKept
INVARIANT FileMatchesSaved
