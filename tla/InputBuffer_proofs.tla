------------------------- MODULE InputBuffer_proofs -------------------------
(***************************************************************************)
(* Theorems about InputBuffer, for buffers of every size, reads of every   *)
(* length and every set of positions.                                      *)
(***************************************************************************)
EXTENDS InputBuffer, SequenceTheorems, TLAPS

LEMMA DataType == Data \in Seq(0 .. Size) /\ Len(Data) = Size
BY SizeAssumption DEF Data

\* A read that fits copies bytes of the buffer, any other one copies zeros.
LEMMA BytesReadType ==
  ASSUME NEW r \in Reader, r.endReadOffset <= Size, NEW n \in ReadSizes
  PROVE  /\ BytesRead(r, Data, n) \in Seq(0 .. Size)
         /\ Fits(r, n) => \A i \in 1 .. n :
              BytesRead(r, Data, n)[i] = Data[r.currOffset + i]
<1>1. n \in Nat \ {0} /\ r.currOffset \in Nat /\ r.endReadOffset \in Nat
  BY ReadSizesAssumption DEF Reader
<1>2. CASE Fits(r, n)
  <2>. DEFINE m == r.currOffset + 1
              k == r.currOffset + n
  <2>1. m \in Int /\ k \in Int /\ m \in Nat \ {0} /\ k <= Size
    BY <1>1, <1>2, SizeAssumption DEF Fits
  <2>2. \A i \in m .. k : i \in 1 .. Size
    BY <2>1, SizeAssumption
  <2>3. \A i \in m .. k : Data[i] \in 0 .. Size
    BY <2>2, SizeAssumption DEF Data
  <2>4. /\ SubSeq(Data, m, k) \in Seq(0 .. Size)
        /\ \A i \in 1 .. k - m + 1 : SubSeq(Data, m, k)[i] = Data[m + i - 1]
    <3>. HIDE DEF m, k
    <3>. QED BY <2>1, <2>3, SubSeqProperties
  <2>5. k - m + 1 = n /\ \A i \in 1 .. n : m + i - 1 = r.currOffset + i
    BY <1>1
  <2>. QED
    BY <1>2, <2>4, <2>5 DEF BytesRead
<1>3. CASE ~Fits(r, n)
  BY <1>1, <1>3, SizeAssumption DEF BytesRead, Zeros
<1>. QED
  BY <1>2, <1>3

\* A reader whose window lies in the buffer.
Bounded == { r \in Reader : r.endReadOffset <= Size /\ r.bufferSize <= Size }

LEMMA RaiseErrorBounded ==
  ASSUME NEW r \in Bounded, NEW e \in Nat
  PROVE  RaiseError(r, e) \in Bounded
<1>. DEFINE f == [ r EXCEPT !.endReadOffset = 0, !.bufferSize = 0, !.currOffset = e ]
<1>1. r \in Reader
  BY DEF Bounded
<1>2. f \in Reader
  BY <1>1 DEF Reader
<1>3. f.endReadOffset = 0 /\ f.bufferSize = 0
  BY <1>1 DEF Reader
<1>4. f \in Bounded
  <2>. HIDE DEF f
  <2>. QED BY <1>2, <1>3, SizeAssumption DEF Bounded
<1>. QED
  BY <1>4 DEF RaiseError

LEMMA ReadBytesBounded ==
  ASSUME NEW r \in Bounded, NEW n \in Nat
  PROVE  ReadBytes(r, n) \in Bounded
<1>1. [ r EXCEPT !.currOffset = @ + n ] \in Bounded
  BY DEF Bounded, Reader
<1>2. RaiseError(r, DataOverflow) \in Bounded
  BY RaiseErrorBounded DEF DataOverflow
<1>. QED
  BY <1>1, <1>2 DEF ReadBytes

LEMMA SetReadPosBounded ==
  ASSUME NEW r \in Bounded, NEW p \in Nat
  PROVE  SetReadPos(r, p) \in Bounded
<1>1. [ r EXCEPT !.currOffset = p ] \in Bounded
  BY DEF Bounded, Reader
<1>2. RaiseError(r, DataOverflow) \in Bounded
  BY RaiseErrorBounded DEF DataOverflow
<1>. QED
  BY <1>1, <1>2 DEF SetReadPos

LEMMA SetReadEndPosBounded ==
  ASSUME NEW r \in Bounded, NEW p \in Nat
  PROVE  SetReadEndPos(r, p) \in Bounded
<1>. DEFINE o == (p = 0)
            end == IF p = 0 THEN r.bufferSize ELSE p
            f == [ r EXCEPT !.overflowOnReadEndPos = o, !.endReadOffset = end ]
<1>1. ASSUME r.bufferSize >= p PROVE f \in Bounded
  <2>1. r \in Reader /\ r.bufferSize \in Nat /\ r.bufferSize <= Size
    BY DEF Bounded, Reader
  <2>2. end \in Nat /\ end <= Size
    BY <1>1, <2>1, SizeAssumption
  <2>3. o \in BOOLEAN
    OBVIOUS
  <2>4. f \in Reader /\ f.endReadOffset = end /\ f.bufferSize = r.bufferSize
    <3>. HIDE DEF o, end
    <3>. QED BY <2>1, <2>2, <2>3 DEF Reader
  <2>. QED
    BY <2>1, <2>2, <2>4 DEF Bounded
<1>2. RaiseError(r, DataOverflow) \in Bounded
  BY RaiseErrorBounded DEF DataOverflow
<1>. QED
  BY <1>1, <1>2 DEF SetReadEndPos

IInv == rd \in Bounded /\ out \in Seq(0 .. Size)

LEMMA InvInit == ReaderInit => IInv
BY SizeAssumption DEF ReaderInit, IInv, Bounded, NewReader, Reader

LEMMA InvNext == IInv /\ [ReaderNext]_readerVars => IInv'
<1>. SUFFICES ASSUME IInv, [ReaderNext]_readerVars PROVE IInv'
  OBVIOUS
<1>. USE DEF IInv
<1>1. ASSUME NEW n \in ReadSizes, Read(n) PROVE IInv'
  <2>1. out' \in Seq(0 .. Size)
    BY <1>1, BytesReadType DEF Read, Bounded
  <2>2. rd' \in Bounded
    BY <1>1, ReadBytesBounded, ReadSizesAssumption DEF Read
  <2>. QED
    BY <2>1, <2>2
<1>2. ASSUME NEW p \in ReadPositions, CurrentReadPos(p) PROVE IInv'
  BY <1>2, ReadPositionsAssumption, SetReadPosBounded DEF CurrentReadPos
<1>3. ASSUME NEW p \in ReadPositions, CurrentReadEndPos(p) PROVE IInv'
  BY <1>3, ReadPositionsAssumption, SetReadEndPosBounded DEF CurrentReadEndPos
<1>4. ASSUME NEW e \in RealErrors, Error(e) PROVE IInv'
  BY <1>4, RaiseErrorBounded
  DEF Error, RealErrors, ReaderError, NoError, InvalidPointer
<1>5. CASE UNCHANGED readerVars
  BY <1>5 DEF readerVars
<1>. QED
  BY <1>1, <1>2, <1>3, <1>4, <1>5 DEF ReaderNext

\* Type correctness of the adapter under any client.
THEOREM TypeCorrect == ReaderSpec => []ReaderTypeOK
<1>1. IInv => ReaderTypeOK
  BY DEF IInv, Bounded, ReaderTypeOK
<1>. QED
  BY InvInit, InvNext, <1>1, PTL DEF ReaderSpec

\* No client can open a read window that reaches past the buffer.
THEOREM WindowSafe == ReaderSpec => []WindowInBuffer
<1>1. IInv => WindowInBuffer
  BY DEF IInv, Bounded, WindowInBuffer
<1>. QED
  BY InvInit, InvNext, <1>1, PTL DEF ReaderSpec

\* An error is final under any client, whatever is called after it.
THEOREM ErrorsAreFinal == ReaderSpec => FirstErrorIsFinal
<1>1. IInv /\ [ReaderNext]_readerVars => [Failed => rd' = rd]_readerVars
  <2>. SUFFICES ASSUME IInv, ReaderNext, Failed PROVE rd' = rd
    BY DEF readerVars
  <2>. USE DEF IInv, Bounded
  <2>1. rd.currOffset > rd.endReadOffset /\ rd.currOffset \in Nat /\ rd.endReadOffset \in Nat
    BY DEF Failed, GetError, NoError, Reader
  <2>2. ASSUME NEW n \in ReadSizes, Read(n) PROVE rd' = rd
    BY <2>1, <2>2, ReadSizesAssumption DEF Read, ReadBytes, Fits, RaiseError
  <2>3. ASSUME NEW p \in ReadPositions, CurrentReadPos(p) PROVE rd' = rd
    BY <2>1, <2>3 DEF CurrentReadPos, SetReadPos, RaiseError, Failed
  <2>4. ASSUME NEW p \in ReadPositions, CurrentReadEndPos(p) PROVE rd' = rd
    BY <2>1, <2>4 DEF CurrentReadEndPos, SetReadEndPos, RaiseError, Failed
  <2>5. ASSUME NEW e \in RealErrors, Error(e) PROVE rd' = rd
    BY <2>1, <2>5 DEF Error, RaiseError
  <2>. QED
    BY <2>2, <2>3, <2>4, <2>5 DEF ReaderNext
<1>. QED
  BY InvInit, InvNext, <1>1, PTL DEF ReaderSpec, FirstErrorIsFinal

\* A read delivers bytes of the buffer and advances past them, or delivers
\* zeros and stays, under any client.
THEOREM ReadsAreAtomic == ReaderSpec => ReadsAllOrNothing
<1>1. IInv => AllOrNothing
  <2>. SUFFICES ASSUME IInv, NEW n \in ReadSizes, Read(n)
                PROVE  ReadWhole(n) \/ ReadNothing(n)
    BY DEF AllOrNothing
  <2>. USE DEF IInv, Bounded
  <2>1. n \in Nat \ {0} /\ rd.currOffset \in Nat /\ rd.endReadOffset \in Nat
    BY ReadSizesAssumption DEF Reader
  <2>2. CASE Fits(rd, n)
    <3>1. \A i \in 1 .. n : out'[i] = Data[rd.currOffset + i]
      BY <2>2, BytesReadType DEF Read
    <3>2. ~Failed
      BY <2>1, <2>2 DEF Failed, GetError, NoError, Fits
    <3>3. rd'.currOffset = rd.currOffset + n
      BY <2>1, <2>2 DEF Read, ReadBytes, Reader
    <3>. QED
      BY <3>1, <3>2, <3>3 DEF ReadWhole
  <2>3. CASE ~Fits(rd, n)
    <3>1. out' = Zeros(n)
      BY <2>3 DEF Read, BytesRead
    <3>2. CASE rd.overflowOnReadEndPos
      <4>1. rd' = RaiseError(rd, DataOverflow)
        BY <2>3, <3>2 DEF Read, ReadBytes
      <4>2. Failed'
        BY <4>1, <2>1
        DEF RaiseError, Failed, GetError, NoError, DataOverflow, Reader
      <4>. QED
        BY <3>1, <4>2 DEF ReadNothing
    <3>3. CASE ~rd.overflowOnReadEndPos
      BY <2>3, <3>1, <3>3 DEF Read, ReadBytes, ReadNothing
    <3>. QED
      BY <3>2, <3>3
  <2>. QED
    BY <2>2, <2>3
<1>. QED
  BY InvInit, InvNext, <1>1, PTL DEF ReaderSpec, ReadsAllOrNothing

-----------------------------------------------------------------------------
(***************************************************************************)
(* A reader is always in one of three shapes: a window inside the buffer   *)
(* with the position inside the window; after an error, an empty window    *)
(* with the code in the position; or, for a client that does not keep to   *)
(* its limits, a position behind the window's end that nobody raised an    *)
(* error for.  The last two are final.                                     *)
(***************************************************************************)
Healthy(r) == /\ r.bufferSize = Size
              /\ r.currOffset <= r.endReadOffset
              /\ r.endReadOffset <= Size
              /\ r.overflowOnReadEndPos => r.endReadOffset = Size
              /\ ~r.overflowOnReadEndPos => r.endReadOffset > 0

Dead(r) == r.bufferSize = 0 /\ r.endReadOffset = 0 /\ r.currOffset \in RealErrors

Passed(r) == /\ r.bufferSize = Size /\ ~r.overflowOnReadEndPos
             /\ 0 < r.endReadOffset
             /\ r.endReadOffset < r.currOffset /\ r.currOffset <= Size

Final(r) == Dead(r) \/ Passed(r)

BInv == rd \in Reader /\ (Healthy(rd) \/ Final(rd))

LEMMA ReaderFields ==
  ASSUME NEW r \in Reader
  PROVE  /\ r.currOffset \in Nat /\ r.endReadOffset \in Nat /\ r.bufferSize \in Nat
         /\ r.overflowOnReadEndPos \in BOOLEAN
BY DEF Reader

LEMMA HealthyGetters ==
  ASSUME NEW r \in Reader, Healthy(r)
  PROVE  /\ GetError(r) = 0
         /\ GetReadPos(r) = r.currOffset
         /\ r.overflowOnReadEndPos => GetReadEndPos(r) = 0
         /\ ~r.overflowOnReadEndPos => GetReadEndPos(r) = r.endReadOffset
BY DEF Healthy, GetError, GetReadPos, GetReadEndPos, NoError

LEMMA DeadGetters ==
  ASSUME NEW r \in Reader, Dead(r)
  PROVE  /\ GetError(r) = r.currOffset /\ GetError(r) \in RealErrors
         /\ GetError(r) # 0 /\ GetReadPos(r) = 0 /\ GetReadEndPos(r) = 0
<1>1. r.currOffset \in 1 .. 4 /\ r.endReadOffset = 0
  BY DEF Dead, RealErrors, ReaderError, NoError, InvalidPointer
<1>. QED
  BY <1>1 DEF Dead, GetError, GetReadPos, GetReadEndPos, NoError

LEMMA HealthyRaise ==
  ASSUME NEW r \in Reader, Healthy(r), NEW e \in RealErrors
  PROVE  /\ RaiseError(r, e) \in Reader
         /\ Dead(RaiseError(r, e))
         /\ RaiseError(r, e).currOffset = e
<1>. DEFINE f == [ r EXCEPT !.endReadOffset = 0, !.bufferSize = 0, !.currOffset = e ]
<1>1. e \in Nat
  BY DEF RealErrors, ReaderError, NoError, InvalidPointer
<1>2. /\ f \in Reader
      /\ f.endReadOffset = 0 /\ f.bufferSize = 0 /\ f.currOffset = e
  BY <1>1 DEF Reader
<1>3. RaiseError(r, e) = f
  BY DEF Healthy, RaiseError
<1>. QED
  BY <1>2, <1>3 DEF Dead

LEMMA PassedGetters ==
  ASSUME NEW r \in Reader, Passed(r)
  PROVE  /\ GetError(r) = r.currOffset - r.endReadOffset
         /\ GetError(r) \in 1 .. Size - 1
         /\ GetReadPos(r) = 0 /\ GetReadEndPos(r) = r.endReadOffset
         /\ GetReadEndPos(r) # 0
BY ReaderFields, SizeAssumption DEF Passed, GetError, GetReadPos, GetReadEndPos, NoError

LEMMA FinalGetters ==
  ASSUME NEW r \in Reader, Final(r)
  PROVE  GetError(r) # 0 /\ r.currOffset > r.endReadOffset
<1>1. CASE Dead(r)
  BY <1>1, DeadGetters DEF Dead, RealErrors, ReaderError, NoError, InvalidPointer
<1>2. CASE Passed(r)
  BY <1>2, PassedGetters, ReaderFields, SizeAssumption DEF Passed
<1>. QED
  BY <1>1, <1>2 DEF Final

LEMMA FinalRaise ==
  ASSUME NEW r \in Reader, Final(r), NEW e
  PROVE  RaiseError(r, e) = r
BY FinalGetters, ReaderFields DEF RaiseError

LEMMA OverflowIsReal == DataOverflow \in RealErrors
BY DEF DataOverflow, RealErrors, ReaderError, NoError, InvalidPointer

\* The three outcomes of a read, and what each does to the window.
LEMMA HealthyRead ==
  ASSUME NEW r \in Reader, Healthy(r), NEW n \in Nat \ {0}
  PROVE  LET q == ReadBytes(r, n)
         IN  \/ /\ r.currOffset + n <= r.endReadOffset
                /\ q \in Reader /\ Healthy(q)
                /\ q.currOffset = r.currOffset + n
                /\ GetReadEndPos(q) = GetReadEndPos(r)
             \/ /\ ~Fits(r, n) /\ ~r.overflowOnReadEndPos
                /\ q = r
             \/ /\ ~Fits(r, n) /\ r.overflowOnReadEndPos
                /\ q = RaiseError(r, DataOverflow)
<1>. DEFINE f == [ r EXCEPT !.currOffset = @ + n ]
<1>1. CASE Fits(r, n)
  <2>1. /\ f \in Reader /\ f.currOffset = r.currOffset + n
        /\ f.endReadOffset = r.endReadOffset /\ f.bufferSize = r.bufferSize
        /\ f.overflowOnReadEndPos = r.overflowOnReadEndPos
    BY DEF Reader
  <2>2. r.currOffset + n <= r.endReadOffset /\ ReadBytes(r, n) = f
    BY <1>1 DEF Fits, ReadBytes
  <2>. HIDE DEF f
  <2>3. Healthy(f)
    BY <2>1, <2>2 DEF Healthy
  <2>4. GetReadEndPos(f) = GetReadEndPos(r)
    BY <2>1 DEF GetReadEndPos
  <2>. QED
    BY <2>1, <2>2, <2>3, <2>4
<1>2. CASE ~Fits(r, n)
  BY <1>2, ReaderFields DEF ReadBytes
<1>. QED
  BY <1>1, <1>2

LEMMA FinalRead ==
  ASSUME NEW r \in Reader, Final(r), NEW n \in Nat \ {0}
  PROVE  ReadBytes(r, n) = r /\ ~Fits(r, n)
<1>1. ~Fits(r, n)
  BY FinalGetters, ReaderFields DEF Fits
<1>. QED
  BY <1>1, FinalRaise DEF ReadBytes

LEMMA HealthySeek ==
  ASSUME NEW r \in Reader, Healthy(r), NEW p \in Nat
  PROVE  LET q == SetReadPos(r, p)
         IN  \/ /\ p <= r.endReadOffset
                /\ q \in Reader /\ Healthy(q) /\ q.currOffset = p
                /\ GetReadEndPos(q) = GetReadEndPos(r)
             \/ /\ p > r.endReadOffset /\ p <= Size /\ ~r.overflowOnReadEndPos
                /\ q \in Reader /\ Passed(q)
                /\ q.currOffset = p /\ q.endReadOffset = r.endReadOffset
             \/ q = RaiseError(r, DataOverflow)
<1>. DEFINE f == [ r EXCEPT !.currOffset = p ]
<1>1. CASE r.bufferSize >= p
  <2>1. /\ f \in Reader /\ f.currOffset = p
        /\ f.endReadOffset = r.endReadOffset /\ f.bufferSize = r.bufferSize
        /\ f.overflowOnReadEndPos = r.overflowOnReadEndPos
    BY DEF Reader
  <2>2. p <= Size
    BY <1>1 DEF Healthy
  <2>3. SetReadPos(r, p) = f
    BY <1>1, HealthyGetters DEF SetReadPos, NoError
  <2>. HIDE DEF f
  <2>4. CASE p <= r.endReadOffset
    <3>1. Healthy(f) /\ GetReadEndPos(f) = GetReadEndPos(r)
      BY <2>1, <2>4 DEF Healthy, GetReadEndPos
    <3>. QED
      BY <2>1, <2>3, <2>4, <3>1
  <2>5. CASE p > r.endReadOffset
    <3>1. ~r.overflowOnReadEndPos /\ r.endReadOffset > 0
      BY <2>2, <2>5, SizeAssumption, ReaderFields DEF Healthy
    <3>2. Passed(f)
      BY <2>1, <2>2, <2>5, <3>1 DEF Healthy, Passed
    <3>. QED
      BY <2>1, <2>2, <2>3, <2>5, <3>1, <3>2
  <2>. QED
    BY <2>4, <2>5, ReaderFields
<1>2. CASE ~(r.bufferSize >= p)
  BY <1>2 DEF SetReadPos
<1>. QED
  BY <1>1, <1>2

LEMMA HealthyLimit ==
  ASSUME NEW r \in Reader, Healthy(r), NEW p \in Nat
  PROVE  LET q == SetReadEndPos(r, p)
         IN  \/ /\ p = 0 \/ p \in r.currOffset .. Size
                /\ q \in Reader /\ Healthy(q)
                /\ q.currOffset = r.currOffset /\ GetReadEndPos(q) = p
             \/ /\ p # 0 /\ p < r.currOffset
                /\ q \in Reader /\ Passed(q)
                /\ q.currOffset = r.currOffset /\ q.endReadOffset = p
             \/ q = RaiseError(r, DataOverflow)
<1>. DEFINE o == (p = 0)
            end == IF p = 0 THEN r.bufferSize ELSE p
            f == [ r EXCEPT !.overflowOnReadEndPos = o, !.endReadOffset = end ]
<1>1. CASE r.bufferSize >= p
  <2>1. end \in Nat /\ o \in BOOLEAN
    BY ReaderFields
  <2>2. /\ f \in Reader /\ f.currOffset = r.currOffset
        /\ f.endReadOffset = end /\ f.bufferSize = r.bufferSize
        /\ f.overflowOnReadEndPos = o
    <3>. HIDE DEF o, end
    <3>. QED BY <2>1 DEF Reader
  <2>3. SetReadEndPos(r, p) = f
    BY <1>1, HealthyGetters DEF SetReadEndPos, NoError
  <2>. HIDE DEF f
  <2>4. p <= Size
    BY <1>1 DEF Healthy
  <2>5. CASE p = 0 \/ p \in r.currOffset .. Size
    <3>1. Healthy(f) /\ GetReadEndPos(f) = p
      BY <1>1, <2>2, <2>5, SizeAssumption, ReaderFields DEF Healthy, GetReadEndPos
    <3>. QED
      BY <2>2, <2>3, <2>5, <3>1
  <2>6. CASE p # 0 /\ p < r.currOffset
    <3>1. r.currOffset <= Size /\ r.bufferSize = Size /\ end = p /\ ~o
      BY <2>6, SizeAssumption, ReaderFields DEF Healthy
    <3>2. ~f.overflowOnReadEndPos
      <4>. HIDE DEF o
      <4>. QED BY <2>2, <3>1
    <3>3. /\ f.bufferSize = Size /\ f.endReadOffset = p
          /\ f.currOffset = r.currOffset
      <4>. HIDE DEF end
      <4>. QED BY <2>2, <3>1
    <3>4. Passed(f)
      <4>. HIDE DEF o, end
      <4>. QED BY <2>6, <3>1, <3>2, <3>3 DEF Passed
    <3>. QED
      BY <2>2, <2>3, <2>6, <3>3, <3>4
  <2>. QED
    BY <2>4, <2>5, <2>6, SizeAssumption, ReaderFields
<1>2. CASE ~(r.bufferSize >= p)
  BY <1>2 DEF SetReadEndPos
<1>. QED
  BY <1>1, <1>2

LEMMA BInvInit == ReaderInit => BInv
BY SizeAssumption DEF ReaderInit, BInv, Healthy, NewReader, Reader

LEMMA BInvNext == BInv /\ [ReaderNext]_readerVars => BInv'
<1>. SUFFICES ASSUME BInv, [ReaderNext]_readerVars PROVE BInv'
  OBVIOUS
<1>. USE DEF BInv, Final
<1>1. Healthy(rd) => \A e \in RealErrors : /\ RaiseError(rd, e) \in Reader
                                          /\ Dead(RaiseError(rd, e))
  BY HealthyRaise
<1>2. Final(rd) => \A e : RaiseError(rd, e) = rd
  BY FinalRaise
<1>3. Final(rd) => GetError(rd) # NoError
  BY FinalGetters DEF NoError
<1>4. ASSUME NEW n \in ReadSizes, Read(n) PROVE BInv'
  <2>1. n \in Nat \ {0} /\ rd' = ReadBytes(rd, n)
    BY <1>4, ReadSizesAssumption DEF Read
  <2>2. CASE Healthy(rd)
    BY <1>1, <2>1, <2>2, HealthyRead, OverflowIsReal
  <2>3. CASE Final(rd)
    BY <2>1, <2>3, FinalRead
  <2>. QED
    BY <2>2, <2>3
<1>5. ASSUME NEW p \in ReadPositions, CurrentReadPos(p) PROVE BInv'
  <2>1. p \in Nat /\ rd' = SetReadPos(rd, p)
    BY <1>5, ReadPositionsAssumption DEF CurrentReadPos
  <2>2. CASE Healthy(rd)
    BY <1>1, <2>1, <2>2, HealthySeek, OverflowIsReal
  <2>3. CASE Final(rd)
    BY <1>2, <1>3, <2>1, <2>3 DEF SetReadPos
  <2>. QED
    BY <2>2, <2>3
<1>6. ASSUME NEW p \in ReadPositions, CurrentReadEndPos(p) PROVE BInv'
  <2>1. p \in Nat /\ rd' = SetReadEndPos(rd, p)
    BY <1>6, ReadPositionsAssumption DEF CurrentReadEndPos
  <2>2. CASE Healthy(rd)
    BY <1>1, <2>1, <2>2, HealthyLimit, OverflowIsReal
  <2>3. CASE Final(rd)
    BY <1>2, <1>3, <2>1, <2>3 DEF SetReadEndPos
  <2>. QED
    BY <2>2, <2>3
<1>7. ASSUME NEW e \in RealErrors, Error(e) PROVE BInv'
  BY <1>1, <1>2, <1>7 DEF Error
<1>8. CASE UNCHANGED readerVars
  BY <1>8 DEF readerVars, Healthy, Dead, Passed
<1>. QED
  BY <1>4, <1>5, <1>6, <1>7, <1>8 DEF ReaderNext

\* Whatever the client does, it sees the codes it or the adapter raised, and
\* one that is a distance only when its position passed its limit.
THEOREM ErrorsAreEnumerators == ReaderSpec => []ErrorIsEnumerator
<1>1. BInv => ErrorIsEnumerator
  <2>1. BInv /\ Healthy(rd) => ErrorIsEnumerator
    BY HealthyGetters DEF BInv, ErrorIsEnumerator, ReaderError, NoError, InvalidPointer
  <2>2. BInv /\ Dead(rd) => ErrorIsEnumerator
    BY DeadGetters DEF BInv, ErrorIsEnumerator, RealErrors
  <2>3. BInv /\ Passed(rd) => ErrorIsEnumerator
    BY PassedGetters, SizeAssumption
    DEF BInv, ErrorIsEnumerator, Crossed, Failed, NoError
  <2>. QED
    BY <2>1, <2>2, <2>3 DEF BInv, Final
<1>. QED
  BY BInvInit, BInvNext, <1>1, PTL DEF ReaderSpec

\* Whatever the client does, success means that its position is at the
\* buffer's end, and that no error was raised.
THEOREM CompletionMeansCompletion == ReaderSpec => []CompletionIsHonest
<1>1. BInv => CompletionIsHonest
  <2>1. Dead(rd) => ~IsCompletedSuccessfully(rd)
    BY DEF Dead, IsCompletedSuccessfully, RealErrors, NoError
  <2>2. BInv /\ Healthy(rd) => ~Failed
    BY HealthyGetters DEF BInv, Failed, NoError
  <2>3. BInv /\ Passed(rd) => Crossed
    BY PassedGetters, SizeAssumption DEF BInv, Crossed, Failed, NoError
  <2>. QED
    BY <2>1, <2>2, <2>3
    DEF BInv, Final, CompletionIsHonest, IsCompletedSuccessfully, Healthy, Passed
<1>. QED
  BY BInvInit, BInvNext, <1>1, PTL DEF ReaderSpec

-----------------------------------------------------------------------------
\* Facts about the abstract cursor that need the types of its constants.
LEMMA CursorEnd == Cursor!End = Size
BY DataType DEF Cursor!End

LEMMA CursorStep == BInv /\ [ReaderNext]_readerVars => [Cursor!Next]_Cursor!vars
<1>. SUFFICES ASSUME BInv, ReaderNext PROVE Cursor!Next \/ UNCHANGED Cursor!vars
  BY DEF readerVars, Cursor!vars
<1>. USE DEF BInv
<1>. DEFINE Stops(e) == /\ rd' = RaiseError(rd, e)
                        /\ e \in RealErrors
<1>1. ASSUME Healthy(rd), NEW e, Stops(e) PROVE Cursor!Stop(e)
  <2>1. rd' \in Reader /\ Dead(rd') /\ rd'.currOffset = e
    BY <1>1, HealthyRaise
  <2>2. GetError(rd') = e /\ GetReadPos(rd') = 0 /\ GetReadEndPos(rd') = 0
    BY <2>1, DeadGetters
  <2>. QED
    BY <2>2 DEF Cursor!Stop, Cursor!None, GetError, GetReadPos, GetReadEndPos
<1>2. Healthy(rd) => Cursor!Until = rd.endReadOffset
  BY HealthyGetters, CursorEnd DEF Healthy, Cursor!Until, Cursor!None
<1>3. Final(rd) => \A e : RaiseError(rd, e) = rd
  BY FinalRaise
<1>4. Final(rd) => GetError(rd) # NoError
  BY FinalGetters DEF NoError
<1>5. ASSUME NEW n \in ReadSizes, Read(n) PROVE Cursor!Next
  <2>1. n \in Nat \ {0} /\ rd' = ReadBytes(rd, n) /\ out' = BytesRead(rd, Data, n)
    BY <1>5, ReadSizesAssumption DEF Read
  <2>2. ~Fits(rd, n) => out' = Cursor!Blank(n)
    BY <2>1 DEF BytesRead, Zeros, Cursor!Blank
  <2>3. CASE Final(rd)
    <3>1. Cursor!ReadFailed(n)
      BY <2>1, <2>2, <2>3, FinalRead, FinalGetters DEF Cursor!ReadFailed, Cursor!None
    <3>. QED
      BY <3>1 DEF Cursor!Next
  <2>4. CASE Healthy(rd) /\ rd.currOffset + n <= rd.endReadOffset
    <3>1. /\ rd' \in Reader /\ Healthy(rd') /\ rd'.currOffset = rd.currOffset + n
          /\ GetReadEndPos(rd') = GetReadEndPos(rd)
      BY <2>1, <2>4, HealthyRead DEF Fits
    <3>2. /\ GetError(rd) = 0 /\ GetError(rd') = 0
          /\ GetReadPos(rd') = GetReadPos(rd) + n /\ GetReadPos(rd) = rd.currOffset
      BY <2>4, <3>1, HealthyGetters
    <3>3. out' = SubSeq(Data, GetReadPos(rd) + 1, GetReadPos(rd) + n)
      BY <2>1, <2>4, <3>2 DEF BytesRead, Fits
    <3>4. Cursor!ReadAll(n)
      BY <1>2, <2>4, <3>1, <3>2, <3>3 DEF Cursor!ReadAll, Cursor!None
    <3>. QED
      BY <3>4 DEF Cursor!Next
  <2>5. CASE Healthy(rd) /\ ~Fits(rd, n) /\ ~rd.overflowOnReadEndPos
    <3>1. rd' = rd
      BY <2>1, <2>5 DEF ReadBytes
    <3>2. GetReadEndPos(rd) = rd.endReadOffset /\ rd.endReadOffset > 0
      BY <2>5, HealthyGetters DEF Healthy
    <3>3. GetReadPos(rd) + n > GetReadEndPos(rd) /\ GetError(rd) = 0
      BY <2>1, <2>5, <3>2, HealthyGetters, ReaderFields DEF Fits
    <3>4. Cursor!ReadAbsent(n)
      BY <2>2, <2>5, <3>1, <3>2, <3>3, ReaderFields
      DEF Cursor!ReadAbsent, Cursor!None
    <3>. QED
      BY <3>4 DEF Cursor!Next
  <2>6. CASE Healthy(rd) /\ ~Fits(rd, n) /\ rd.overflowOnReadEndPos
    <3>1. Stops(DataOverflow)
      BY <2>1, <2>6, OverflowIsReal DEF ReadBytes
    <3>2. /\ GetError(rd) = 0 /\ GetReadEndPos(rd) = 0
          /\ GetReadPos(rd) + n > Size
      BY <2>1, <2>6, HealthyGetters, ReaderFields, SizeAssumption DEF Fits, Healthy
    <3>3. Cursor!ReadPastEnd(n)
      BY <1>1, <2>2, <2>6, <3>1, <3>2, CursorEnd DEF Cursor!ReadPastEnd, Cursor!None
    <3>. QED
      BY <3>3 DEF Cursor!Next
  <2>. QED
    BY <2>3, <2>4, <2>5, <2>6 DEF Fits
<1>6. ASSUME NEW p \in ReadPositions, CurrentReadPos(p)
      PROVE  Cursor!Next \/ UNCHANGED Cursor!vars
  <2>1. p \in Nat /\ rd' = SetReadPos(rd, p) /\ out' = out
    BY <1>6, ReadPositionsAssumption DEF CurrentReadPos
  <2>2. CASE Final(rd)
    BY <1>3, <1>4, <2>1, <2>2 DEF SetReadPos, Cursor!vars
  <2>3. CASE Healthy(rd)
    <3>2. \/ /\ p <= rd.endReadOffset
             /\ rd' \in Reader /\ Healthy(rd') /\ rd'.currOffset = p
             /\ GetReadEndPos(rd') = GetReadEndPos(rd)
          \/ /\ p > rd.endReadOffset /\ p <= Size /\ ~rd.overflowOnReadEndPos
             /\ rd' \in Reader /\ Passed(rd')
             /\ rd'.currOffset = p /\ rd'.endReadOffset = rd.endReadOffset
          \/ rd' = RaiseError(rd, DataOverflow)
      BY <2>1, <2>3, HealthySeek
    <3>3. ASSUME rd' = RaiseError(rd, DataOverflow) PROVE Cursor!Next
      BY <1>1, <2>1, <2>3, <3>3, OverflowIsReal, HealthyGetters
      DEF Cursor!Next, Cursor!Fail, Cursor!None
    <3>4. ASSUME p <= rd.endReadOffset, rd' \in Reader, Healthy(rd'),
                 rd'.currOffset = p, GetReadEndPos(rd') = GetReadEndPos(rd)
          PROVE  Cursor!Seek(p)
      <4>1. GetError(rd) = 0 /\ GetError(rd') = 0 /\ GetReadPos(rd') = p
        BY <2>3, <3>4, HealthyGetters
      <4>. QED
        BY <1>2, <2>1, <2>3, <3>4, <4>1 DEF Cursor!Seek, Cursor!None
    <3>5. ASSUME p > rd.endReadOffset, p <= Size, ~rd.overflowOnReadEndPos,
                 rd' \in Reader, Passed(rd'), rd'.currOffset = p,
                 rd'.endReadOffset = rd.endReadOffset
          PROVE  Cursor!SeekPastLimit(p)
      <4>1. /\ GetError(rd) = 0 /\ GetReadEndPos(rd) = rd.endReadOffset
            /\ rd.endReadOffset > 0 /\ rd.endReadOffset \in Nat
        BY <2>3, <3>5, HealthyGetters, ReaderFields DEF Healthy
      <4>2. /\ GetError(rd') = p - rd.endReadOffset /\ GetReadPos(rd') = 0
            /\ GetReadEndPos(rd') = rd.endReadOffset
        BY <3>5, PassedGetters
      <4>3. p \in rd.endReadOffset + 1 .. Size
        BY <2>1, <3>5, <4>1, SizeAssumption
      <4>. QED
        BY <2>1, <4>1, <4>2, <4>3, CursorEnd
        DEF Cursor!SeekPastLimit, Cursor!Cross, Cursor!None
    <3>. QED
      BY <3>2, <3>3, <3>4, <3>5 DEF Cursor!Next
  <2>. QED
    BY <2>2, <2>3
<1>7. ASSUME NEW p \in ReadPositions, CurrentReadEndPos(p)
      PROVE  Cursor!Next \/ UNCHANGED Cursor!vars
  <2>1. p \in Nat /\ rd' = SetReadEndPos(rd, p) /\ out' = out
    BY <1>7, ReadPositionsAssumption DEF CurrentReadEndPos
  <2>2. CASE Final(rd)
    BY <1>3, <1>4, <2>1, <2>2 DEF SetReadEndPos, Cursor!vars
  <2>3. CASE Healthy(rd)
    <3>2. \/ /\ p = 0 \/ p \in rd.currOffset .. Size
             /\ rd' \in Reader /\ Healthy(rd')
             /\ rd'.currOffset = rd.currOffset /\ GetReadEndPos(rd') = p
          \/ /\ p # 0 /\ p < rd.currOffset
             /\ rd' \in Reader /\ Passed(rd')
             /\ rd'.currOffset = rd.currOffset /\ rd'.endReadOffset = p
          \/ rd' = RaiseError(rd, DataOverflow)
      BY <2>1, <2>3, HealthyLimit
    <3>3. ASSUME rd' = RaiseError(rd, DataOverflow) PROVE Cursor!Next
      BY <1>1, <2>1, <2>3, <3>3, OverflowIsReal, HealthyGetters
      DEF Cursor!Next, Cursor!Fail, Cursor!None
    <3>4. ASSUME p = 0 \/ p \in rd.currOffset .. Size, rd' \in Reader, Healthy(rd'),
                 rd'.currOffset = rd.currOffset, GetReadEndPos(rd') = p
          PROVE  Cursor!SetLimit(p)
      <4>1. /\ GetError(rd) = 0 /\ GetError(rd') = 0
            /\ GetReadPos(rd) = rd.currOffset /\ GetReadPos(rd') = rd.currOffset
        BY <2>3, <3>4, HealthyGetters
      <4>. QED
        BY <2>1, <3>4, <4>1, CursorEnd DEF Cursor!SetLimit, Cursor!None
    <3>5. ASSUME p # 0, p < rd.currOffset, rd' \in Reader, Passed(rd'),
                 rd'.currOffset = rd.currOffset, rd'.endReadOffset = p
          PROVE  Cursor!LimitBeforePos(p)
      <4>1. GetError(rd) = 0 /\ GetReadPos(rd) = rd.currOffset
        BY <2>3, HealthyGetters
      <4>2. /\ GetError(rd') = rd.currOffset - p /\ GetReadPos(rd') = 0
            /\ GetReadEndPos(rd') = p
        BY <3>5, PassedGetters
      <4>. QED
        BY <2>1, <3>5, <4>1, <4>2
        DEF Cursor!LimitBeforePos, Cursor!Cross, Cursor!None
    <3>. QED
      BY <3>2, <3>3, <3>4, <3>5 DEF Cursor!Next
  <2>. QED
    BY <2>2, <2>3
<1>8. ASSUME NEW e \in RealErrors, Error(e)
      PROVE  Cursor!Next \/ UNCHANGED Cursor!vars
  <2>1. rd' = RaiseError(rd, e) /\ out' = out
    BY <1>8 DEF Error
  <2>2. CASE Final(rd)
    BY <1>3, <2>1, <2>2 DEF Cursor!vars
  <2>3. CASE Healthy(rd)
    BY <1>1, <2>1, <2>3, HealthyGetters DEF Cursor!Next, Cursor!Fail, Cursor!None
  <2>. QED
    BY <2>2, <2>3
<1>. QED
  BY <1>5, <1>6, <1>7, <1>8 DEF ReaderNext

\* Whatever the client does, the adapter that keeps its error in its offsets
\* implements the cursor that has an error of its own.
THEOREM ImplementsTheCursor == ReaderSpec => ImplementsCursor
<1>1. ReaderInit => Cursor!Init
  <2>1. ReaderInit => rd \in Reader /\ Healthy(rd) /\ rd.overflowOnReadEndPos /\ rd.currOffset = 0
    BY SizeAssumption DEF ReaderInit, NewReader, Reader, Healthy
  <2>. QED
    BY <2>1, HealthyGetters DEF ReaderInit, Cursor!Init, Cursor!None
<1>. QED
  BY BInvInit, BInvNext, CursorStep, <1>1, PTL
  DEF ReaderSpec, ImplementsCursor, Cursor!Spec

=============================================================================
