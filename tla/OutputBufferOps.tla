-------------------------- MODULE OutputBufferOps ---------------------------
(***************************************************************************)
(* OutputBufferAdapter (include/bitsery/adapter/buffer.h) and the          *)
(* container it writes to, as operators on one record.  The adapter caches *)
(* the container's size (_bufferSize) and its first iterator (_beginIt);   *)
(* the container itself is the sequence "bytes" and the number "block" of  *)
(* the allocation that holds it, which a reallocation changes.             *)
(*                                                                         *)
(* "size" is the size increaseBufferSize gives the container if it is      *)
(* called, and "block" the allocation it is in then.  The growth policy is *)
(* the traits' and is modelled in OutputBuffer.  For a container that      *)
(* cannot be resized the caller guarantees the assertion of maybeResize,   *)
(* and neither is used.                                                    *)
(*                                                                         *)
(* Operators named _Bug are seeded faults, as in InputBufferOps.           *)
(***************************************************************************)
EXTENDS Integers, Sequences

Writer(Byte) ==
  [ currOffset : Nat, bufferSize : Nat, biggestCurrentPos : Nat,
    beginIt : Nat, bytes : Seq(Byte), block : Nat ]

NewWriter(bytes) ==
  [ currOffset |-> 0, bufferSize |-> Len(bytes), biggestCurrentPos |-> 0,
    beginIt |-> 0, bytes |-> bytes, block |-> 0 ]

Larger(m, n) == IF m > n THEN m ELSE n

\* The old bytes are not carried over.
Resized_Loses_Bug(bytes, size) == [ i \in 1 .. size |-> 0 ]

\* container.resize(size): the old bytes stay, the new ones are zero.
Resized(bytes, size) ==
  [ i \in 1 .. size |-> IF i <= Len(bytes) THEN bytes[i] ELSE 0 ]

\* The cached iterator is not refreshed.
DoResize_Bug(w, size, block) ==
  [ w EXCEPT !.bytes = Resized(w.bytes, size), !.block = block,
             !.bufferSize = size ]

\* doResize: the container grows, then both cached members are refreshed.
DoResize(w, size, block) ==
  [ w EXCEPT !.bytes = Resized(w.bytes, size), !.block = block,
             !.beginIt = block, !.bufferSize = size ]

\* maybeResize
NeedsRoom(w, newOffset) == newOffset > w.bufferSize

MaybeResize(w, newOffset, size, block) ==
  IF NeedsRoom(w, newOffset) THEN DoResize(w, size, block) ELSE w

\* copy_n to _beginIt + _currOffset
Overwrite(bytes, from, data) ==
  [ i \in 1 .. Len(bytes) |->
      IF i \in from + 1 .. from + Len(data) THEN data[i - from] ELSE bytes[i] ]

\* writeInternalImpl
WriteBytes(w, data, size, block) ==
  LET r == MaybeResize(w, w.currOffset + Len(data), size, block)
  IN  [ r EXCEPT !.bytes = Overwrite(r.bytes, w.currOffset, data),
                 !.currOffset = w.currOffset + Len(data) ]

\* currentWritePos(pos): both the position left behind and the new one count
\* as written.
SetWritePos(w, pos, size, block) ==
  [ MaybeResize(w, pos, size, block) EXCEPT
      !.biggestCurrentPos = Larger(@, Larger(w.currOffset, pos)),
      !.currOffset = pos ]

\* currentWritePos()
GetWritePos(w) == w.currOffset

WrittenBytesCount(w) == Larger(w.currOffset, w.biggestCurrentPos)

-----------------------------------------------------------------------------
(***************************************************************************)
(* BasicMeasureSize (include/bitsery/adapter/measure_size.h): the same     *)
(* interface, counting only.                                               *)
(***************************************************************************)
NewMeasure == [ currPos |-> 0, biggestCurrentPos |-> 0 ]

MeasureWrite(m, n) == [ m EXCEPT !.currPos = @ + n ]

\* Only the new position counts.
MeasureSetPos_Bug(m, pos) ==
  [ biggestCurrentPos |-> Larger(m.biggestCurrentPos, pos), currPos |-> pos ]

MeasureSetPos(m, pos) ==
  [ biggestCurrentPos |-> Larger(m.biggestCurrentPos, Larger(m.currPos, pos)),
    currPos |-> pos ]

MeasuredBytesCount(m) == Larger(m.currPos, m.biggestCurrentPos)

=============================================================================
