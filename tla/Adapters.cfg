\* A client of the input buffer that passes any position; one of the output
\* adapter over a container that starts empty and is grown, with the growth
\* policy scaled down; and a program with a stream that may become full.
CONSTANTS
  Size = 4
  ReadSizes = {1, 2, 3}
  ReadPositions = {0, 1, 2, 3, 4, 5, 7}
  Blocks <- MCBlocks
  Positions = {0, 1, 3, 6}
  Initial <- MCEmpty
  Resizable = TRUE
  Pad = 1
  Line = 2
  Slack = {0, 1}
  MaxBytes = 6
  ArraySize = 3
  Requested = {2}
  Rooms = {3, 5}
  WriteSizes = {1, 2, 4}
  GetSizes = {1, 2}
  MaxSent = 5
SPECIFICATION AdaptersSpec
INVARIANTS
  WindowInBuffer
  
  CacheIsFresh
  WrittenInBuffer
  MeasureAgrees
  ReadsInOrder
PROPERTIES
  FirstErrorIsFinal
  ReadsAllOrNothing
  ImplementsCursor
  ImplementsFile
  ImplementsLog
  SoonerOrLater
