--------------------------- MODULE InputBufferOps ---------------------------
(***************************************************************************)
(* InputBufferAdapter (include/bitsery/adapter/buffer.h) as operators on   *)
(* one record, so that extensions that make several calls in one handler   *)
(* (Growable, the bit-packing wrapper) can compose them.                   *)
(*                                                                         *)
(* The adapter keeps no error field.  An error is ENCODED in the offsets:  *)
(* there is one exactly when _currOffset > _endReadOffset, and its code is *)
(* the difference of the two.  This module keeps that encoding.            *)
(*                                                                         *)
(* The configuration is CheckAdapterErrors = true.  size_t is unbounded:   *)
(* offsets are sums of a size_t and a 32-bit length and do not wrap in 64  *)
(* bits.  Sequences are indexed from 1, offsets from 0.                    *)
(*                                                                         *)
(* An operator whose name ends in _Bug is a seeded fault: the same call    *)
(* with a plausible slip.  No specification uses it; the properties must   *)
(* notice when it takes the place of the definition that follows it.       *)
(***************************************************************************)
EXTENDS ReaderErrors, Sequences

Reader == [ currOffset : Nat, endReadOffset : Nat, bufferSize : Nat,
            overflowOnReadEndPos : BOOLEAN ]

NewReader(size) ==
  [ currOffset |-> 0, endReadOffset |-> size, bufferSize |-> size,
    overflowOnReadEndPos |-> TRUE ]

\* ReaderError error() const
GetError(r) ==
  IF r.currOffset <= r.endReadOffset
    THEN NoError
    ELSE r.currOffset - r.endReadOffset

\* Every error wins, not only the first.
RaiseError_Bug(r, e) ==
  [ r EXCEPT !.endReadOffset = 0, !.bufferSize = 0, !.currOffset = e ]

\* The buffer size survives the error.
RaiseError_KeepsSize_Bug(r, e) ==
  IF r.currOffset <= r.endReadOffset
    THEN [ r EXCEPT !.endReadOffset = 0, !.currOffset = e ]
    ELSE r

\* The read end position survives the error.
RaiseError_KeepsEnd_Bug(r, e) ==
  IF r.currOffset <= r.endReadOffset
    THEN [ r EXCEPT !.bufferSize = 0, !.currOffset = r.endReadOffset + e ]
    ELSE r

\* void error(ReaderError): the first error wins, and empties the window.
RaiseError(r, e) ==
  IF r.currOffset <= r.endReadOffset
    THEN [ r EXCEPT !.endReadOffset = 0, !.bufferSize = 0, !.currOffset = e ]
    ELSE r

\* currentReadPos(pos): checked against the buffer, not against the window.
SetReadPos(r, pos) ==
  IF r.bufferSize >= pos /\ GetError(r) = NoError
    THEN [ r EXCEPT !.currOffset = pos ]
    ELSE RaiseError(r, DataOverflow)

\* currentReadPos()
GetReadPos(r) == IF GetError(r) = NoError THEN r.currOffset ELSE 0

\* A position past the buffer is accepted.
SetReadEndPos_Bug(r, pos) ==
  IF GetError(r) = NoError
    THEN [ r EXCEPT !.overflowOnReadEndPos = (pos = 0),
                    !.endReadOffset = IF pos = 0 THEN r.bufferSize ELSE pos ]
    ELSE RaiseError(r, DataOverflow)

\* currentReadEndPos(pos): 0 stands for "the end of the buffer", and is the
\* only setting under which running out of data is an error.
SetReadEndPos(r, pos) ==
  IF r.bufferSize >= pos /\ GetError(r) = NoError
    THEN [ r EXCEPT !.overflowOnReadEndPos = (pos = 0),
                    !.endReadOffset = IF pos = 0 THEN r.bufferSize ELSE pos ]
    ELSE RaiseError(r, DataOverflow)

\* currentReadEndPos()
GetReadEndPos(r) == IF r.overflowOnReadEndPos THEN 0 ELSE r.endReadOffset

Fits(r, n) == r.currOffset + n <= r.endReadOffset

\* The cursor moves over a value that is not there.
ReadBytes_Bug(r, n) ==
  IF Fits(r, n) THEN [ r EXCEPT !.currOffset = @ + n ]
  ELSE IF r.overflowOnReadEndPos THEN RaiseError(r, DataOverflow)
  ELSE [ r EXCEPT !.currOffset = r.endReadOffset ]

\* Running out of data is not reported.
ReadBytes_Silent_Bug(r, n) ==
  IF Fits(r, n) THEN [ r EXCEPT !.currOffset = @ + n ] ELSE r

\* readInternalImpl: the cursor moves by all of n or not at all.
ReadBytes(r, n) ==
  IF Fits(r, n) THEN [ r EXCEPT !.currOffset = @ + n ]
  ELSE IF r.overflowOnReadEndPos THEN RaiseError(r, DataOverflow)
  ELSE r

Zeros(n) == [ i \in 1 .. n |-> 0 ]

\* The part of a value that is there is copied, the rest is zeroed.
BytesRead_Bug(r, data, n) ==
  [ i \in 1 .. n |->
      IF r.currOffset + i <= Len(data) THEN data[r.currOffset + i] ELSE 0 ]

\* What readInternalImpl leaves in the caller's variable.
BytesRead(r, data, n) ==
  IF Fits(r, n)
    THEN SubSeq(data, r.currOffset + 1, r.currOffset + n)
    ELSE Zeros(n)

IsCompletedSuccessfully(r) == r.currOffset = r.bufferSize

=============================================================================
