CONSTANTS
  W = 4
  Digits = 4
  Unit = 64
  ScratchWidth = 8
  Endianness = "LittleEndian"
  WriterSystem = "LittleEndian"
  ReaderSystem = "LittleEndian"
  Fields <- Texts
  MaxWeight = 2
  MaxDamaged = 1
  AlignsFirst = TRUE
SPECIFICATION Spec
INVARIANTS
  ArraysEnd
CHECK_DEADLOCK FALSE
