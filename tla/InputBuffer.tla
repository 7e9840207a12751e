---------------------------- MODULE InputBuffer -----------------------------
(***************************************************************************)
(* The life of one InputBufferAdapter: any sequence of calls of its public *)
(* interface.  A call is atomic, the library is single threaded.           *)
(*                                                                         *)
(* The client passes any position.  Growable does not keep to less: it     *)
(* takes both of its positions from a header, and of bytes no writer wrote *)
(* a header of 0 to 3 puts the read end before the position, and an inner  *)
(* session that claims to be longer than the outer one puts the position   *)
(* past the read end that is restored (growable.h:66, :70-71).  The        *)
(* adapter then reports an error nobody raised.                            *)
(*                                                                         *)
(* The names of the specification say Reader where another adapter's say   *)
(* nothing, so that both can be extended by one module.                    *)
(***************************************************************************)
EXTENDS InputBufferOps

CONSTANTS Size,           \* bytes in the buffer
          ReadSizes,      \* sizes of the values and blocks that are read
          ReadPositions   \* arguments of currentReadPos and currentReadEndPos

ASSUME SizeAssumption == Size \in Nat
ASSUME ReadSizesAssumption == ReadSizes \subseteq Nat \ {0}
ASSUME ReadPositionsAssumption == ReadPositions \subseteq Nat

VARIABLES rd,   \* the adapter
          out   \* what the last readBytes/readBuffer left in its argument

readerVars == <<rd, out>>

\* The buffer's bytes: all different and none zero, so that a property can
\* tell which of them a read returned.
Data == [ i \in 1 .. Size |-> i ]

ReaderInit == rd = NewReader(Size) /\ out = << >>

Read(n) == rd' = ReadBytes(rd, n) /\ out' = BytesRead(rd, Data, n)

CurrentReadPos(p) == rd' = SetReadPos(rd, p) /\ UNCHANGED out

CurrentReadEndPos(p) == rd' = SetReadEndPos(rd, p) /\ UNCHANGED out

Error(e) == rd' = RaiseError(rd, e) /\ UNCHANGED out

ReaderNext == \/ \E n \in ReadSizes : Read(n)
              \/ \E p \in ReadPositions : CurrentReadPos(p)
              \/ \E p \in ReadPositions : CurrentReadEndPos(p)
              \/ \E e \in RealErrors : Error(e)

ReaderSpec == ReaderInit /\ [][ReaderNext]_readerVars

Failed == GetError(rd) # NoError

\* The read position and the read end have passed each other.
Crossed == Failed /\ GetReadEndPos(rd) # 0

-----------------------------------------------------------------------------
\* Types: the adapter's fields are offsets, what a read leaves are bytes.
ReaderTypeOK == /\ rd \in Reader
                /\ out \in Seq(0 .. Size)

\* Whatever positions the client sets, no read window reaches past the
\* buffer the adapter was built over: readInternalImpl bounds its copy by
\* the window only.
WindowInBuffer == rd.endReadOffset <= Size /\ rd.bufferSize <= Size

\* Once error() reports an error no call changes the adapter any more: the
\* code stays the first one, and reads, seeks and limits have no effect
\* (tests/adapter.cpp, "SettingMultipleErrorsAlwaysReturnsFirstError").
FirstErrorIsFinal == [][Failed => rd' = rd]_readerVars

ReadWhole(n) ==
  /\ ~Failed
  /\ rd'.currOffset = rd.currOffset + n
  /\ \A i \in 1 .. n : out'[i] = Data[rd.currOffset + i]

ReadNothing(n) == out' = Zeros(n) /\ (Failed' \/ rd' = rd)

AllOrNothing == \A n \in ReadSizes : Read(n) => ReadWhole(n) \/ ReadNothing(n)

\* A read is all or nothing: it produces exactly the bytes between the old
\* and the new position, or it produces zeros and does not advance - in
\* particular after an error, and where a value straddles the read end.
ReadsAllOrNothing == [][AllOrNothing]_readerVars

\* error() names one of the enumerators of ReaderError, unless position and
\* read end have passed each other: it then is their distance.
ErrorIsEnumerator == GetError(rd) \in ReaderError \/ (Crossed /\ GetError(rd) < Size)

\* Success means that the position is at the buffer's end, and that no error
\* was raised, by the client or by the adapter.  A reader whose position
\* passed the read end may have both, success and an error nobody raised.
CompletionIsHonest ==
  IsCompletedSuccessfully(rd) => rd.currOffset = Size /\ (Failed => Crossed)

\* For every client the adapter that encodes errors in its offsets
\* implements the cursor that has an explicit error.
Cursor == INSTANCE ReadCursor WITH
  Positions <- ReadPositions, Errors <- RealErrors, Overflow <- DataOverflow,
  pos <- GetReadPos(rd), limit <- GetReadEndPos(rd), err <- GetError(rd)

ImplementsCursor == Cursor!Spec

=============================================================================
