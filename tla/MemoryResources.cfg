CONSTANTS
  Programs <- AllPrograms
  MaxDocuments = 2
SPECIFICATION Spec
INVARIANTS
  ReleasedAsAllocated
  InUseStays
  NothingDangles
  NothingLeaks
PROPERTY AllocatedAsDocumented
CHECK_DEADLOCK FALSE
