------------------------ MODULE OutputBuffer_proofs -------------------------
(***************************************************************************)
(* Theorems about OutputBuffer, for every container, growth policy and     *)
(* client.                                                                 *)
(***************************************************************************)
EXTENDS OutputBuffer, TLAPS

\* Whatever the policy's constants, the container ends up large enough.
LEMMA GrownSizeIsEnough ==
  ASSUME NEW n \in Nat, wr \in Writer(Nat), capacity \in Nat
  PROVE  GrownSize(n) \in Nat /\ GrownSize(n) >= n
<1>. DEFINE size == Len(wr.bytes)
            half == (size * 3) \div 2
            new == half + Pad
            base == new - (new % Line)
<1>1. size \in Nat
  BY DEF Writer
<1>2. new \in Nat /\ Line \in Nat \ {0}
  <2>1. half \in Nat
    <3>. HIDE DEF size
    <3>. QED BY <1>1
  <2>. HIDE DEF half
  <2>. QED BY <2>1, PolicyAssumption
<1>3. base \in Int
  <2>. HIDE DEF new
  <2>. QED BY <1>2
<1>4. GrownSize(n) = Larger(Larger(base, n), capacity)
  BY DEF GrownSize
<1>. HIDE DEF base
<1>. QED
  BY <1>3, <1>4 DEF Larger

LEMMA ResizedType ==
  ASSUME NEW b \in Seq(Nat), NEW size \in Nat
  PROVE  /\ Resized(b, size) \in Seq(Nat)
         /\ Len(Resized(b, size)) = size
         /\ \A i \in 1 .. size : i <= Len(b) => Resized(b, size)[i] = b[i]
BY DEF Resized

LEMMA OverwriteType ==
  ASSUME NEW b \in Seq(Nat), NEW from \in Nat, NEW data \in Seq(Nat)
  PROVE  /\ Overwrite(b, from, data) \in Seq(Nat)
         /\ Len(Overwrite(b, from, data)) = Len(b)
         /\ \A i \in 1 .. Len(b) :
              Overwrite(b, from, data)[i] =
                IF i \in from + 1 .. from + Len(data) THEN data[i - from] ELSE b[i]
<1>1. \A i \in from + 1 .. from + Len(data) : data[i - from] \in Nat
  <2>1. \A i \in from + 1 .. from + Len(data) : i - from \in 1 .. Len(data)
    OBVIOUS
  <2>. QED
    BY <2>1
<1>. QED
  BY <1>1 DEF Overwrite

\* A writer whose cached members are fresh, and that has not outrun its
\* container.
Sound(w) ==
  /\ w \in Writer(Nat)
  /\ w.bufferSize = Len(w.bytes) /\ w.beginIt = w.block
  /\ w.currOffset <= Len(w.bytes) /\ w.biggestCurrentPos <= Len(w.bytes)

LEMMA MaybeResizeSound ==
  ASSUME NEW w, Sound(w), NEW n \in Nat, NEW size \in Nat, NEW block \in Nat,
         NeedsRoom(w, n) => size >= n
  PROVE  LET r == MaybeResize(w, n, size, block)
         IN  /\ Sound(r) /\ n <= Len(r.bytes) /\ Len(w.bytes) <= Len(r.bytes)
             /\ r.currOffset = w.currOffset
             /\ r.biggestCurrentPos = w.biggestCurrentPos
             /\ \A i \in 1 .. Len(w.bytes) : r.bytes[i] = w.bytes[i]
<1>. DEFINE b == Resized(w.bytes, size)
            f == [ w EXCEPT !.bytes = b, !.block = block, !.beginIt = block,
                            !.bufferSize = size ]
<1>1. w \in Writer(Nat) /\ w.bytes \in Seq(Nat) /\ Len(w.bytes) \in Nat
  BY DEF Sound, Writer
<1>2. CASE NeedsRoom(w, n)
  <2>1. size > Len(w.bytes)
    BY <1>1, <1>2 DEF NeedsRoom, Sound
  <2>2. /\ b \in Seq(Nat) /\ Len(b) = size
        /\ \A i \in 1 .. Len(w.bytes) : b[i] = w.bytes[i]
    <3>1. \A i \in 1 .. Len(w.bytes) : i \in 1 .. size /\ i <= Len(w.bytes)
      BY <1>1, <2>1
    <3>2. /\ Resized(w.bytes, size) \in Seq(Nat) /\ Len(Resized(w.bytes, size)) = size
          /\ \A i \in 1 .. size :
               i <= Len(w.bytes) => Resized(w.bytes, size)[i] = w.bytes[i]
      BY <1>1, ResizedType
    <3>. QED
      BY <3>1, <3>2
  <2>3. /\ f \in Writer(Nat) /\ f.bytes = b /\ f.block = block /\ f.beginIt = block
        /\ f.bufferSize = size /\ f.currOffset = w.currOffset
        /\ f.biggestCurrentPos = w.biggestCurrentPos
    <3>. HIDE DEF b
    <3>. QED BY <1>1, <2>2 DEF Writer
  <2>4. MaybeResize(w, n, size, block) = f
    BY <1>2 DEF MaybeResize, DoResize
  <2>5. w.currOffset <= Len(w.bytes) /\ w.biggestCurrentPos <= Len(w.bytes)
    BY DEF Sound
  <2>6. w.currOffset \in Nat /\ w.biggestCurrentPos \in Nat
    BY <1>1 DEF Writer
  <2>7. size >= n
    BY <1>2
  <2>. HIDE DEF b, f
  <2>8. Sound(f)
    BY <1>1, <2>1, <2>2, <2>3, <2>5, <2>6 DEF Sound
  <2>. QED
    BY <1>1, <2>1, <2>2, <2>3, <2>4, <2>7, <2>8
<1>3. CASE ~NeedsRoom(w, n)
  <2>1. MaybeResize(w, n, size, block) = w
    BY <1>3 DEF MaybeResize
  <2>2. n <= Len(w.bytes)
    BY <1>1, <1>3 DEF NeedsRoom, Sound
  <2>. QED
    BY <1>1, <2>1, <2>2
<1>. QED
  BY <1>2, <1>3

\* What a write makes of a sound writer.
WriteEffect(w, data, q) ==
  LET to == w.currOffset + Len(data)
  IN  /\ Sound(q) /\ q.currOffset = to
      /\ q.biggestCurrentPos = w.biggestCurrentPos
      /\ Len(w.bytes) <= Len(q.bytes)
      /\ \A i \in w.currOffset + 1 .. to : q.bytes[i] = data[i - w.currOffset]
      /\ \A i \in 1 .. Len(w.bytes) :
           i \notin w.currOffset + 1 .. to => q.bytes[i] = w.bytes[i]

LEMMA WriteBytesSound ==
  ASSUME NEW w, Sound(w), NEW data \in Seq(Nat), NEW size \in Nat, NEW block \in Nat,
         NeedsRoom(w, w.currOffset + Len(data)) => size >= w.currOffset + Len(data)
  PROVE  WriteEffect(w, data, WriteBytes(w, data, size, block))
<1>. DEFINE to == w.currOffset + Len(data)
            r == MaybeResize(w, to, size, block)
            b == Overwrite(r.bytes, w.currOffset, data)
            f == [ r EXCEPT !.bytes = b, !.currOffset = to ]
<1>1. /\ w \in Writer(Nat) /\ w.currOffset \in Nat /\ Len(data) \in Nat /\ to \in Nat
      /\ w.bytes \in Seq(Nat)
  BY DEF Sound, Writer
<1>2. /\ Sound(r) /\ to <= Len(r.bytes) /\ Len(w.bytes) <= Len(r.bytes)
      /\ r.biggestCurrentPos = w.biggestCurrentPos
      /\ \A i \in 1 .. Len(w.bytes) : r.bytes[i] = w.bytes[i]
  <2>. HIDE DEF to
  <2>1. NeedsRoom(w, to) => size >= to
    BY DEF to
  <2>. QED BY <1>1, <2>1, MaybeResizeSound
<1>3. WriteBytes(w, data, size, block) = f
  BY DEF WriteBytes
<1>4. r \in Writer(Nat) /\ r.bytes \in Seq(Nat) /\ Len(r.bytes) \in Nat
  <2>. HIDE DEF r
  <2>. QED BY <1>2 DEF Sound, Writer
<1>5. /\ b \in Seq(Nat) /\ Len(b) = Len(r.bytes)
      /\ \A i \in 1 .. Len(r.bytes) :
           b[i] = IF i \in w.currOffset + 1 .. to THEN data[i - w.currOffset] ELSE r.bytes[i]
  <2>. HIDE DEF r
  <2>. DEFINE c == r.bytes
              o == w.currOffset
  <2>1. c \in Seq(Nat) /\ o \in Nat
    BY <1>1, <1>4
  <2>2. /\ Overwrite(c, o, data) \in Seq(Nat)
        /\ Len(Overwrite(c, o, data)) = Len(c)
        /\ \A i \in 1 .. Len(c) : Overwrite(c, o, data)[i] =
             IF i \in o + 1 .. o + Len(data) THEN data[i - o] ELSE c[i]
    <3>. HIDE DEF c, o
    <3>. QED BY <2>1, OverwriteType
  <2>. QED BY <2>2
<1>6. /\ f \in Writer(Nat) /\ f.bytes = b /\ f.currOffset = to
      /\ f.bufferSize = r.bufferSize /\ f.beginIt = r.beginIt /\ f.block = r.block
      /\ f.biggestCurrentPos = r.biggestCurrentPos
  <2>. HIDE DEF r, b, to
  <2>. QED BY <1>1, <1>4, <1>5 DEF Writer
<1>. HIDE DEF r, b, f
<1>7. Sound(f)
  BY <1>2, <1>5, <1>6 DEF Sound
<1>8. \A i \in w.currOffset + 1 .. to : i \in 1 .. Len(r.bytes)
  BY <1>1, <1>2, <1>4
<1>9. \A i \in 1 .. Len(w.bytes) : i \in 1 .. Len(r.bytes)
  BY <1>1, <1>2, <1>4
<1>. QED
  BY <1>2, <1>3, <1>5, <1>6, <1>7, <1>8, <1>9 DEF WriteEffect

LEMMA SetWritePosSound ==
  ASSUME NEW w, Sound(w), NEW p \in Nat, NEW size \in Nat, NEW block \in Nat,
         NeedsRoom(w, p) => size >= p
  PROVE  LET q == SetWritePos(w, p, size, block)
         IN  /\ Sound(q) /\ q.currOffset = p
             /\ q.biggestCurrentPos =
                  Larger(w.biggestCurrentPos, Larger(w.currOffset, p))
             /\ Len(w.bytes) <= Len(q.bytes)
             /\ \A i \in 1 .. Len(w.bytes) : q.bytes[i] = w.bytes[i]
<1>. DEFINE r == MaybeResize(w, p, size, block)
            top == Larger(r.biggestCurrentPos, Larger(w.currOffset, p))
            f == [ r EXCEPT !.biggestCurrentPos = top, !.currOffset = p ]
<1>1. /\ Sound(r) /\ p <= Len(r.bytes) /\ Len(w.bytes) <= Len(r.bytes)
      /\ r.biggestCurrentPos = w.biggestCurrentPos /\ r.currOffset = w.currOffset
      /\ \A i \in 1 .. Len(w.bytes) : r.bytes[i] = w.bytes[i]
  BY MaybeResizeSound
<1>2. SetWritePos(w, p, size, block) = f
  BY DEF SetWritePos
<1>. HIDE DEF r
<1>3. /\ r \in Writer(Nat) /\ r.biggestCurrentPos \in Nat /\ r.currOffset \in Nat
      /\ Len(r.bytes) \in Nat
      /\ r.biggestCurrentPos <= Len(r.bytes) /\ r.currOffset <= Len(r.bytes)
  BY <1>1 DEF Sound, Writer
<1>4. top \in Nat /\ top <= Len(r.bytes)
  BY <1>1, <1>3 DEF Larger
<1>5. /\ f \in Writer(Nat) /\ f.currOffset = p /\ f.biggestCurrentPos = top
      /\ f.bytes = r.bytes /\ f.bufferSize = r.bufferSize
      /\ f.beginIt = r.beginIt /\ f.block = r.block
  <2>. HIDE DEF top
  <2>. QED BY <1>3, <1>4 DEF Writer
<1>6. Sound(f)
  <2>. HIDE DEF f, top
  <2>. QED BY <1>1, <1>4, <1>5 DEF Sound
<1>. HIDE DEF f
<1>. QED
  BY <1>1, <1>2, <1>5, <1>6

-----------------------------------------------------------------------------
(***************************************************************************)
(* The inductive invariant: the writer is sound, the measuring adapter is  *)
(* in step with it, and nothing was written beyond what counts as written. *)
(***************************************************************************)
Measure == [ currPos : Nat, biggestCurrentPos : Nat ]

IInv == /\ Sound(wr) /\ capacity \in Nat
        /\ measure \in Measure
        /\ measure.currPos = wr.currOffset
        /\ measure.biggestCurrentPos = wr.biggestCurrentPos
        /\ touched \subseteq 1 .. WrittenBytesCount(wr)

LEMMA SoundFields ==
  ASSUME NEW w, Sound(w)
  PROVE  /\ w.currOffset \in Nat /\ w.biggestCurrentPos \in Nat /\ w.block \in Nat
         /\ w.bytes \in Seq(Nat) /\ Len(w.bytes) \in Nat
         /\ WrittenBytesCount(w) \in Nat
         /\ w.currOffset <= WrittenBytesCount(w)
         /\ w.biggestCurrentPos <= WrittenBytesCount(w)
         /\ WrittenBytesCount(w) <= Len(w.bytes)
BY DEF Sound, Writer, WrittenBytesCount, Larger

LEMMA ReserveType ==
  ASSUME IInv, NEW n \in Nat, Reserve(n)
  PROVE  capacity' \in Nat
<1>1. GrownSize(n) \in Nat
  BY GrownSizeIsEnough DEF IInv, Sound
<1>. QED
  BY <1>1, PolicyAssumption DEF Reserve, IInv

\* What a write does to the adapters, without its bookkeeping.
LEMMA WriteStep ==
  ASSUME IInv, NEW data \in Blocks, Write(data)
  PROVE  /\ data \in Seq(Nat) /\ Len(data) \in Nat \ {0}
         /\ wr.currOffset + Len(data) \in Nat
         /\ WriteEffect(wr, data, wr')
         /\ capacity' \in Nat
<1>. DEFINE to == wr.currOffset + Len(data)
            size == GrownSize(to)
            block == Block(to)
<1>1. /\ Sound(wr) /\ wr \in Writer(Nat) /\ wr.currOffset \in Nat /\ capacity \in Nat
      /\ wr.block \in Nat
  BY SoundFields DEF IInv, Sound
<1>2. data \in Seq(Nat) /\ Len(data) \in Nat \ {0}
  <2>1. data \in Seq(Nat) /\ data # << >>
    BY BlocksAssumption
  <2>. QED BY <2>1
<1>3. to \in Nat
  BY <1>1, <1>2
<1>4. size \in Nat /\ size >= to
  <2>. HIDE DEF to
  <2>. QED BY <1>1, <1>3, GrownSizeIsEnough
<1>5. block \in Nat
  <2>. HIDE DEF to
  <2>. QED BY <1>1 DEF Block
<1>6. wr' = WriteBytes(wr, data, size, block) /\ Reserve(to)
  BY DEF Write
<1>7. capacity' \in Nat
  <2>. HIDE DEF to
  <2>. QED BY <1>3, <1>6, ReserveType
<1>8. NeedsRoom(wr, wr.currOffset + Len(data)) => size >= wr.currOffset + Len(data)
  BY <1>4
<1>. HIDE DEF size, block
<1>9. WriteEffect(wr, data, WriteBytes(wr, data, size, block))
  BY <1>1, <1>2, <1>4, <1>5, <1>8, WriteBytesSound
<1>. QED
  BY <1>2, <1>3, <1>6, <1>7, <1>9

\* What moving the write position does to the adapters.
LEMMA MoveStep ==
  ASSUME IInv, NEW p \in Positions, CurrentWritePos(p)
  PROVE  /\ p \in Nat /\ Sound(wr') /\ wr'.currOffset = p
         /\ wr'.biggestCurrentPos =
              Larger(wr.biggestCurrentPos, Larger(wr.currOffset, p))
         /\ Len(wr.bytes) <= Len(wr'.bytes)
         /\ \A i \in 1 .. Len(wr.bytes) : wr'.bytes[i] = wr.bytes[i]
         /\ capacity' \in Nat
<1>. DEFINE size == GrownSize(p)
            block == Block(p)
<1>1. /\ Sound(wr) /\ wr \in Writer(Nat) /\ capacity \in Nat /\ wr.block \in Nat
      /\ p \in Nat
  BY SoundFields, PositionsAssumption DEF IInv, Sound
<1>2. size \in Nat /\ size >= p
  BY <1>1, GrownSizeIsEnough
<1>3. block \in Nat
  BY <1>1 DEF Block
<1>4. wr' = SetWritePos(wr, p, size, block) /\ Reserve(p)
  BY DEF CurrentWritePos
<1>5. capacity' \in Nat
  BY <1>1, <1>4, ReserveType
<1>. HIDE DEF size, block
<1>. QED
  BY <1>1, <1>2, <1>3, <1>4, <1>5, SetWritePosSound

LEMMA InvInit == Init => IInv
<1>. SUFFICES ASSUME Init PROVE IInv
  OBVIOUS
<1>1. wr = NewWriter(Initial) /\ Len(Initial) \in Nat
  BY InitialAssumption DEF Init
<1>2. Sound(wr) /\ wr.currOffset = 0 /\ wr.biggestCurrentPos = 0
  BY <1>1, InitialAssumption DEF NewWriter, Sound, Writer
<1>3. capacity \in Nat
  BY <1>1, PolicyAssumption DEF Init
<1>. QED
  BY <1>2, <1>3 DEF Init, IInv, NewMeasure, Measure

LEMMA InvNext == IInv /\ [Next]_vars => IInv'
<1>. SUFFICES ASSUME IInv, [Next]_vars PROVE IInv'
  OBVIOUS
<1>1. ASSUME NEW data \in Blocks, Write(data) PROVE IInv'
  <2>. DEFINE to == wr.currOffset + Len(data)
  <2>1. /\ Len(data) \in Nat \ {0} /\ Sound(wr') /\ wr'.currOffset = to
        /\ wr'.biggestCurrentPos = wr.biggestCurrentPos /\ capacity' \in Nat
    BY <1>1, WriteStep DEF WriteEffect
  <2>2. /\ measure' \in Measure /\ measure'.currPos = to
        /\ measure'.biggestCurrentPos = wr.biggestCurrentPos
    BY <1>1, <2>1 DEF Write, MeasureWrite, IInv, Measure
  <2>3. /\ wr.currOffset \in Nat /\ WrittenBytesCount(wr) \in Nat
        /\ WrittenBytesCount(wr') \in Nat
        /\ to <= WrittenBytesCount(wr')
        /\ WrittenBytesCount(wr) <= WrittenBytesCount(wr')
    BY <2>1, SoundFields DEF IInv, WrittenBytesCount, Larger
  <2>4. touched' = touched \union (wr.currOffset + 1 .. to)
    BY <1>1 DEF Write
  <2>5. touched' \subseteq 1 .. WrittenBytesCount(wr')
    <3>1. touched \subseteq 1 .. WrittenBytesCount(wr)
      BY DEF IInv
    <3>2. to \in Nat
      BY <2>1, <2>3
    <3>. HIDE DEF to
    <3>3. \A i \in wr.currOffset + 1 .. to : i \in 1 .. WrittenBytesCount(wr')
      BY <2>3, <3>2
    <3>4. \A i \in 1 .. WrittenBytesCount(wr) : i \in 1 .. WrittenBytesCount(wr')
      BY <2>3
    <3>. QED
      BY <2>4, <3>1, <3>3, <3>4
  <2>. QED
    BY <2>1, <2>2, <2>5 DEF IInv
<1>2. ASSUME NEW p \in Positions, CurrentWritePos(p) PROVE IInv'
  <2>1. /\ p \in Nat /\ Sound(wr') /\ wr'.currOffset = p /\ capacity' \in Nat
        /\ wr'.biggestCurrentPos =
             Larger(wr.biggestCurrentPos, Larger(wr.currOffset, p))
    BY <1>2, MoveStep
  <2>2. /\ wr.currOffset \in Nat /\ wr.biggestCurrentPos \in Nat
        /\ WrittenBytesCount(wr) \in Nat /\ WrittenBytesCount(wr') \in Nat
        /\ WrittenBytesCount(wr) <= WrittenBytesCount(wr')
    BY <2>1, SoundFields DEF IInv, WrittenBytesCount, Larger
  <2>3. /\ measure' \in Measure /\ measure'.currPos = p
        /\ measure'.biggestCurrentPos = wr'.biggestCurrentPos
    BY <1>2, <2>1, <2>2 DEF CurrentWritePos, MeasureSetPos, IInv, Measure, Larger
  <2>4. touched' \subseteq 1 .. WrittenBytesCount(wr')
    BY <1>2, <2>2 DEF CurrentWritePos, IInv
  <2>. QED
    BY <2>1, <2>3, <2>4 DEF IInv
<1>3. CASE UNCHANGED vars
  BY <1>3 DEF vars, IInv, Sound, WrittenBytesCount
<1>. QED
  BY <1>1, <1>2, <1>3 DEF Next

\* Type correctness of the adapters and the ghost.
THEOREM TypeCorrect == Spec => []TypeOK
<1>1. IInv => TypeOK
  <2>1. IInv => touched \subseteq Nat
    BY SoundFields DEF IInv
  <2>. QED
    BY <2>1 DEF IInv, TypeOK, Sound, Measure
<1>. QED
  BY InvInit, InvNext, <1>1, PTL DEF Spec

\* The cached size and iterator are never stale, under any growth policy.
THEOREM CachesStayFresh == Spec => []CacheIsFresh
<1>1. IInv => CacheIsFresh
  BY DEF IInv, CacheIsFresh, Sound
<1>. QED
  BY InvInit, InvNext, <1>1, PTL DEF Spec

\* What counts as written is in the container, under any growth policy.
THEOREM WrittenStaysInBuffer == Spec => []WrittenInBuffer
<1>1. IInv => WrittenInBuffer
  BY SoundFields DEF IInv, WrittenInBuffer
<1>. QED
  BY InvInit, InvNext, <1>1, PTL DEF Spec

\* MeasureSize measures what the buffer adapter writes, for every client.
THEOREM MeasureIsExact == Spec => []MeasureAgrees
<1>1. IInv => MeasureAgrees
  BY DEF IInv, MeasureAgrees, MeasuredBytesCount, WrittenBytesCount, GetWritePos
<1>. QED
  BY InvInit, InvNext, <1>1, PTL DEF Spec

\* The written size only grows, for every client.
THEOREM WrittenIsMonotone == Spec => WrittenNeverShrinks
<1>1. IInv /\ [Next]_vars => [WrittenBytesCount(wr') >= WrittenBytesCount(wr)]_vars
  <2>. SUFFICES ASSUME IInv, Next PROVE WrittenBytesCount(wr') >= WrittenBytesCount(wr)
    BY DEF vars
  <2>1. ASSUME NEW data \in Blocks, Write(data)
        PROVE  WrittenBytesCount(wr') >= WrittenBytesCount(wr)
    BY <2>1, WriteStep, SoundFields DEF IInv, WriteEffect, WrittenBytesCount, Larger
  <2>2. ASSUME NEW p \in Positions, CurrentWritePos(p)
        PROVE  WrittenBytesCount(wr') >= WrittenBytesCount(wr)
    BY <2>2, MoveStep, SoundFields DEF IInv, WrittenBytesCount, Larger
  <2>. QED
    BY <2>1, <2>2 DEF Next
<1>. QED
  BY InvInit, InvNext, <1>1, PTL DEF Spec, WrittenNeverShrinks

-----------------------------------------------------------------------------
Mapped == [ i \in 1 .. WrittenBytesCount(wr) |->
              IF i \in touched THEN wr.bytes[i] ELSE Hole ]

LEMMA FileStep == IInv /\ [Next]_vars => [File!Next]_File!vars
<1>. SUFFICES ASSUME IInv, [Next]_vars PROVE [File!Next]_File!vars
  OBVIOUS
<1>. DEFINE W == WrittenBytesCount(wr)
<1>1. /\ W \in Nat /\ W <= Len(wr.bytes) /\ wr.currOffset \in Nat /\ wr.currOffset <= W
      /\ wr.biggestCurrentPos \in Nat /\ Len(wr.bytes) \in Nat
  BY SoundFields DEF IInv
<1>2. Len(Mapped) = W
  <2>. HIDE DEF W
  <2>1. Mapped = [ i \in 1 .. W |-> IF i \in touched THEN wr.bytes[i] ELSE Hole ]
    BY DEF Mapped, W
  <2>. QED BY <1>1, <2>1
<1>3. ASSUME NEW data \in Blocks, Write(data) PROVE File!Write(data)
  <2>. DEFINE to == wr.currOffset + Len(data)
              next == [ i \in 1 .. File!Higher(W, to) |->
                          IF i \in wr.currOffset + 1 .. to
                            THEN data[i - wr.currOffset] ELSE Mapped[i] ]
  <2>1. /\ Len(data) \in Nat \ {0} /\ to \in Nat /\ Sound(wr') /\ wr'.currOffset = to
        /\ wr'.biggestCurrentPos = wr.biggestCurrentPos
        /\ \A i \in wr.currOffset + 1 .. to : wr'.bytes[i] = data[i - wr.currOffset]
        /\ \A i \in 1 .. Len(wr.bytes) :
             i \notin wr.currOffset + 1 .. to => wr'.bytes[i] = wr.bytes[i]
    BY <1>3, WriteStep DEF WriteEffect
  <2>2. WrittenBytesCount(wr') = File!Higher(W, to)
    BY <1>1, <2>1 DEF WrittenBytesCount, Larger, File!Higher
  <2>3. touched' = touched \union (wr.currOffset + 1 .. to)
    BY <1>3 DEF Write
  <2>4. ASSUME NEW i \in 1 .. File!Higher(W, to)
        PROVE  (IF i \in touched' THEN wr'.bytes[i] ELSE Hole) = next[i]
    <3>1. CASE i \in wr.currOffset + 1 .. to
      BY <2>1, <2>3, <3>1
    <3>2. CASE i \notin wr.currOffset + 1 .. to
      <4>1. i \in 1 .. W /\ i \in 1 .. Len(wr.bytes)
        BY <1>1, <2>1, <3>2 DEF File!Higher
      <4>2. Mapped[i] = IF i \in touched THEN wr.bytes[i] ELSE Hole
        BY <4>1 DEF Mapped
      <4>. QED
        BY <2>1, <2>3, <3>2, <4>1, <4>2
    <3>. QED
      BY <3>1, <3>2
  <2>5. Mapped' = next
    <3>. HIDE DEF next
    <3>1. Mapped' = [ i \in 1 .. File!Higher(W, to) |->
                        IF i \in touched' THEN wr'.bytes[i] ELSE Hole ]
      BY <2>2 DEF Mapped, Hole
    <3>2. next = [ i \in 1 .. File!Higher(W, to) |-> next[i] ]
      BY DEF next
    <3>. QED
      BY <2>4, <3>1, <3>2
  <2>. QED
    BY <1>2, <2>1, <2>5 DEF File!Write, Mapped, GetWritePos
<1>4. ASSUME NEW p \in Positions, CurrentWritePos(p) PROVE File!MoveTo(p)
  <2>. DEFINE next == [ i \in 1 .. File!Higher(W, p) |->
                          IF i <= W THEN Mapped[i] ELSE Hole ]
  <2>1. /\ p \in Nat /\ Sound(wr') /\ wr'.currOffset = p
        /\ wr'.biggestCurrentPos =
             Larger(wr.biggestCurrentPos, Larger(wr.currOffset, p))
        /\ \A i \in 1 .. Len(wr.bytes) : wr'.bytes[i] = wr.bytes[i]
    BY <1>4, MoveStep
  <2>2. WrittenBytesCount(wr') = File!Higher(W, p)
    BY <1>1, <2>1 DEF WrittenBytesCount, Larger, File!Higher
  <2>3. touched' = touched /\ touched \subseteq 1 .. W
    BY <1>4 DEF CurrentWritePos, IInv
  <2>4. ASSUME NEW i \in 1 .. File!Higher(W, p)
        PROVE  (IF i \in touched' THEN wr'.bytes[i] ELSE Hole) = next[i]
    <3>1. CASE i <= W
      <4>1. i \in 1 .. W /\ i \in 1 .. Len(wr.bytes)
        BY <1>1, <2>1, <3>1 DEF File!Higher
      <4>2. Mapped[i] = IF i \in touched THEN wr.bytes[i] ELSE Hole
        BY <4>1 DEF Mapped
      <4>. QED
        BY <2>1, <2>3, <3>1, <4>1, <4>2
    <3>2. CASE ~(i <= W)
      BY <1>1, <2>3, <3>2
    <3>. QED
      BY <3>1, <3>2
  <2>5. Mapped' = next
    <3>. HIDE DEF next
    <3>1. Mapped' = [ i \in 1 .. File!Higher(W, p) |->
                        IF i \in touched' THEN wr'.bytes[i] ELSE Hole ]
      BY <2>2 DEF Mapped, Hole
    <3>2. next = [ i \in 1 .. File!Higher(W, p) |-> next[i] ]
      BY DEF next
    <3>. QED
      BY <2>4, <3>1, <3>2
  <2>. QED
    BY <1>2, <2>1, <2>5 DEF File!MoveTo, File!Extended, Mapped, GetWritePos
<1>5. CASE UNCHANGED vars
  BY <1>5 DEF vars, File!vars, GetWritePos, WrittenBytesCount
<1>. QED
  BY <1>3, <1>4, <1>5 DEF Next, File!Next

\* The adapter, with its cached members, growth policy and high-water mark,
\* implements the file of bytes for every client and container.
THEOREM ImplementsTheFile == Spec => ImplementsFile
<1>1. Init => File!Init
  <2>. SUFFICES ASSUME Init PROVE File!Init
    OBVIOUS
  <2>1. wr.currOffset = 0 /\ WrittenBytesCount(wr) = 0
    BY DEF Init, NewWriter, WrittenBytesCount, Larger
  <2>. QED
    BY <2>1 DEF File!Init, GetWritePos
<1>. QED
  BY InvInit, InvNext, FileStep, <1>1, PTL DEF Spec, ImplementsFile, File!Spec

=============================================================================
