CONSTANTS
  Keys = {0, 1, 2, 3, 4, 5, 6, 7, 8}
  LEAF_NODE_MAX_CELLS = 3
  INTERNAL_NODE_MAX_CELLS = 3
  Pads <- MCPads
  Junk = {0, 2}
  Ascending = TRUE
  MaxRows = 9
SPECIFICATION Spec
CHECK_DEADLOCK FALSE
INVARIANT FindsEveryRow
