CONSTANTS
  W = 4
  Digits = 4
  Unit = 64
  ScratchWidth = 8
  Endianness = "LittleEndian"
  WriterSystem = "LittleEndian"
  ReaderSystem = "LittleEndian"
  Fields <- FewFields
  MaxWeight = 3
  MaxDamaged = 0
  AlignsFirst = FALSE
SPECIFICATION Spec
INVARIANTS
  SameVersionReadsAll
CHECK_DEADLOCK FALSE
