\* Documents may part what existing pointers share.
CONSTANTS
  Programs <- Aliasing
  MaxDocuments = 2
SPECIFICATION Spec
INVARIANT NothingDangles
CHECK_DEADLOCK FALSE
