\* The reader's version may differ, and a part of the document may be missing.
CONSTANTS
  ValueSizes = {1, 2}
  MaxItems = 3
  MaxDepth = 2
  MaxBytes = 14
SPECIFICATION Spec
INVARIANTS
  ReadsWhatWasWritten
  InStep
  VersionsAreNoError
  WindowsNest
  TruncationIsNoticed
  TruncatedReadsAreSafe
CHECK_DEADLOCK FALSE
