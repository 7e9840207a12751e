CONSTANTS
  Programs <- AllPrograms
  Heaps <- AllHeaps
SPECIFICATION Spec
INVARIANTS
  GraphIsRebuilt
  EndsInStep
  NoneReadTwice
  TruncatedGraphIsSafe
PROPERTY LinksAreFinal
CHECK_DEADLOCK FALSE
