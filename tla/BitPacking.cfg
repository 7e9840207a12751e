CONSTANTS
  W = 2
  ScratchWidth = 4
  Endianness = "LittleEndian"
  WriterSystem = "BigEndian"
  ReaderSystem = "LittleEndian"
  BitFields <- SomeBits
  ByteFields <- SomeBytes
  MaxOps = 5
SPECIFICATION Spec
INVARIANTS
  RoundTrip
  MeasuredInStep
  TruncationIsNoticed
  AcceptsOnlyWritten
PROPERTY ImplementsStream
CHECK_DEADLOCK FALSE
