CONSTANTS
  Programs <- BackReference
  Heaps <- AllHeaps
SPECIFICATION Spec
INVARIANT NoDuplicateObjects
CHECK_DEADLOCK FALSE
