CONSTANTS
  W = 4
  Digits = 4
  Unit = 64
  ScratchWidth = 8
  Endianness = "BigEndian"
  WriterSystem = "LittleEndian"
  ReaderSystem = "BigEndian"
  Fields <- EveryKind
  MaxWeight = 4
  MaxDamaged = 3
  AlignsFirst = TRUE
SPECIFICATION Spec
INVARIANTS
  SameVersionReadsAll
  StaysAllowed
PROPERTY CompactIsLossless
CHECK_DEADLOCK FALSE
