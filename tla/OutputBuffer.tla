---------------------------- MODULE OutputBuffer ----------------------------
(***************************************************************************)
(* One OutputBufferAdapter over a container that the adapter grows, or     *)
(* over one of fixed size, and a MeasureSize adapter that is given the     *)
(* same calls.  A client writes values and blocks and moves the write      *)
(* position to and fro.                                                    *)
(***************************************************************************)
EXTENDS OutputBufferOps

CONSTANTS Blocks,     \* what is written: non-empty sequences of bytes
          Positions,  \* arguments of currentWritePos(pos)
          Initial,    \* what the container holds when the adapter is built
          Resizable,  \* ContainerTraits<Buffer>::isResizable
          Pad,        \* the growth policy adds this many bytes (128 in the code)
          Line,       \* and rounds down to a multiple of this (64 in the code)
          Slack,      \* how much more than asked for the container may reserve
          MaxBytes    \* bound: the client stays below this offset

ASSUME BlocksAssumption == Blocks \subseteq Seq(Nat) \ {<< >>}
ASSUME PositionsAssumption == Positions \subseteq Nat
ASSUME InitialAssumption == Initial \in Seq(Nat)
ASSUME ResizableAssumption == Resizable \in BOOLEAN
ASSUME PolicyAssumption == Pad \in Nat /\ Line \in Nat \ {0} /\ Slack \subseteq Nat
ASSUME MaxBytesAssumption == MaxBytes \in Nat

VARIABLES wr,        \* the adapter and its container
          capacity,  \* container.capacity()
          measure,   \* the MeasureSize adapter
          touched    \* ghost: the offsets a write has reached

vars == <<wr, capacity, measure, touched>>

Init == /\ wr = NewWriter(Initial)
        /\ capacity \in { Len(Initial) + s : s \in Slack \union {0} }
        /\ measure = NewMeasure
        /\ touched = {}

\* The rounding comes after the comparison.
GrownSize_Bug(minSize) ==
  LET new == Larger(Larger((Len(wr.bytes) * 3) \div 2 + Pad, minSize), capacity)
  IN  new - (new % Line)

\* increaseBufferSize: 1.5 times the size, plus Pad, rounded down to a
\* Line, but no less than what is needed or already reserved.
GrownSize(minSize) ==
  LET new == (Len(wr.bytes) * 3) \div 2 + Pad
  IN  Larger(Larger(new - (new % Line), minSize), capacity)

\* What happens to the allocation when maybeResize is called with newOffset:
\* a resize within the capacity stays in place, one beyond it moves.
Moves(newOffset) == NeedsRoom(wr, newOffset) /\ GrownSize(newOffset) > capacity

Block(newOffset) == IF Moves(newOffset) THEN wr.block + 1 ELSE wr.block

Reserve(newOffset) ==
  IF Moves(newOffset)
    THEN \E s \in Slack : capacity' = GrownSize(newOffset) + s
    ELSE UNCHANGED capacity

\* The assertion of the non-resizable maybeResize, and the bound.
HasRoom(newOffset) ==
  /\ newOffset <= MaxBytes
  /\ Resizable \/ newOffset <= wr.bufferSize

Write(data) ==
  LET newOffset == wr.currOffset + Len(data)
  IN  /\ HasRoom(newOffset)
      /\ wr' = WriteBytes(wr, data, GrownSize(newOffset), Block(newOffset))
      /\ Reserve(newOffset)
      /\ measure' = MeasureWrite(measure, Len(data))
      /\ touched' = touched \union (wr.currOffset + 1 .. newOffset)

CurrentWritePos(p) ==
  /\ HasRoom(p)
  /\ wr' = SetWritePos(wr, p, GrownSize(p), Block(p))
  /\ Reserve(p)
  /\ measure' = MeasureSetPos(measure, p)
  /\ UNCHANGED touched

Next == \/ \E data \in Blocks : Write(data)
        \/ \E p \in Positions : CurrentWritePos(p)

Spec == Init /\ [][Next]_vars

-----------------------------------------------------------------------------
\* Types.
TypeOK == /\ wr \in Writer(Nat)
          /\ capacity \in Nat
          /\ measure \in [ currPos : Nat, biggestCurrentPos : Nat ]
          /\ touched \subseteq Nat

\* The two members the adapter caches, and that every write trusts, agree
\* with the container: its size, and the allocation its iterator is into.
CacheIsFresh == wr.bufferSize = Len(wr.bytes) /\ wr.beginIt = wr.block

\* Every offset that counts as written lies inside the container, whatever
\* the growth policy made of the request.
WrittenInBuffer == WrittenBytesCount(wr) <= Len(wr.bytes)

\* The number of bytes the client takes out of the buffer never shrinks,
\* whichever way the write position moves.
WrittenNeverShrinks == [][WrittenBytesCount(wr') >= WrittenBytesCount(wr)]_vars

\* MeasureSize, given the same calls, reports the same position and size.
MeasureAgrees == /\ MeasuredBytesCount(measure) = WrittenBytesCount(wr)
                 /\ measure.currPos = GetWritePos(wr)

\* Offsets with no write on them are not the client's bytes.
Hole == -1

File == INSTANCE WriteFile WITH
  pos  <- GetWritePos(wr),
  file <- [ i \in 1 .. WrittenBytesCount(wr) |->
              IF i \in touched THEN wr.bytes[i] ELSE Hole ]

\* The adapter implements the file: however often the buffer was grown or
\* moved in between, it holds the last byte written at every position.
ImplementsFile == File!Spec

=============================================================================
