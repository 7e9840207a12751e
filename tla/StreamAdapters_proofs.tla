----------------------- MODULE StreamAdapters_proofs -----------------------
(***************************************************************************)
(* Theorems about StreamAdapters, for every size of the buffers and the    *)
(* streams, every mixture of values and every place the adapter is moved   *)
(* to.                                                                     *)
(***************************************************************************)
EXTENDS StreamAdapters, SequenceTheorems, TLAPS

\* The first m bytes the program wrote, and the n behind the first m.
Prefix(m) == [ i \in 1 .. m |-> i ]
Behind(m, n) == [ i \in 1 .. n |-> m + i ]

LEMMA FewerType ==
  ASSUME NEW m \in Nat, NEW n \in Nat
  PROVE  /\ Fewer(m, n) \in Nat /\ Fewer(m, n) <= m /\ Fewer(m, n) <= n
         /\ Fewer(m, n) \in {m, n}
BY DEF Fewer

LEMMA PrefixType ==
  ASSUME NEW m \in Nat
  PROVE  Prefix(m) \in Seq(Nat) /\ Len(Prefix(m)) = m
BY DEF Prefix

LEMMA BehindType ==
  ASSUME NEW m \in Nat, NEW n \in Nat
  PROVE  Behind(m, n) \in Seq(Nat) /\ Len(Behind(m, n)) = n
BY DEF Behind

LEMMA Joined ==
  ASSUME NEW a \in Seq(Nat), NEW b \in Seq(Nat), NEW s \in Seq(Nat),
         Len(s) = Len(a) + Len(b),
         \A i \in 1 .. Len(a) : s[i] = a[i],
         \A i \in 1 .. Len(b) : s[Len(a) + i] = b[i]
  PROVE  a \o b = s
<1>. DEFINE c == a \o b
<1>1. /\ c \in Seq(Nat) /\ Len(c) = Len(a) + Len(b)
      /\ \A i \in 1 .. Len(a) + Len(b) : c[i] = IF i <= Len(a) THEN a[i] ELSE b[i - Len(a)]
  BY ConcatProperties
<1>. HIDE DEF c
<1>2. ASSUME NEW i \in 1 .. Len(c) PROVE c[i] = s[i]
  <2>1. CASE i <= Len(a)
    BY <1>1, <2>1, SMTT(30)
  <2>2. CASE i > Len(a)
    <3>. DEFINE j == i - Len(a)
    <3>1. j \in 1 .. Len(b) /\ i = Len(a) + j
      BY <1>1, <2>2
    <3>2. c[i] = b[j]
      BY <1>1, <2>2
    <3>. HIDE DEF j
    <3>. QED
      BY <3>1, <3>2
  <2>. QED
    BY <1>1, <2>1, <2>2
<1>3. c = s
  BY <1>1, <1>2, SeqEqual
<1>. QED
  BY <1>3 DEF c

LEMMA PrefixGrows ==
  ASSUME NEW m \in Nat, NEW n \in Nat
  PROVE  Prefix(m) \o Behind(m, n) = Prefix(m + n)
<1>. DEFINE a == Prefix(m)
            b == Behind(m, n)
            s == Prefix(m + n)
<1>1. /\ a \in Seq(Nat) /\ b \in Seq(Nat) /\ s \in Seq(Nat)
      /\ Len(a) = m /\ Len(b) = n /\ Len(s) = m + n
  BY PrefixType, BehindType
<1>2. \A i \in 1 .. m : s[i] = a[i]
  BY DEF Prefix
<1>3. \A i \in 1 .. n : s[m + i] = b[i]
  BY DEF Prefix, Behind
<1>. HIDE DEF a, b, s
<1>4. a \o b = s
  BY <1>1, <1>2, <1>3, Joined
<1>. QED
  BY <1>4 DEF a, b, s

LEMMA BehindGrows ==
  ASSUME NEW m \in Nat, NEW n \in Nat, NEW k \in Nat
  PROVE  Behind(m, n) \o Behind(m + n, k) = Behind(m, n + k)
<1>. DEFINE a == Behind(m, n)
            b == Behind(m + n, k)
            s == Behind(m, n + k)
<1>1. /\ a \in Seq(Nat) /\ b \in Seq(Nat) /\ s \in Seq(Nat)
      /\ Len(a) = n /\ Len(b) = k /\ Len(s) = n + k
  <2>1. m + n \in Nat /\ n + k \in Nat
    OBVIOUS
  <2>. QED
    BY <2>1, BehindType
<1>2. \A i \in 1 .. n : s[i] = a[i]
  BY DEF Behind
<1>3. \A i \in 1 .. k : s[n + i] = b[i]
  BY DEF Behind
<1>. HIDE DEF a, b, s
<1>4. a \o b = s
  BY <1>1, <1>2, <1>3, Joined
<1>. QED
  BY <1>4 DEF a, b, s

LEMMA BehindCut ==
  ASSUME NEW m \in Nat, NEW n \in Nat, NEW k \in 0 .. n
  PROVE  SubSeq(Behind(m, n), 1, k) = Behind(m, k)
<1>. DEFINE b == Behind(m, n)
            c == SubSeq(b, 1, k)
<1>1. \A i \in 1 .. k : b[i] = m + i /\ b[i] \in Nat
  BY DEF Behind
<1>. HIDE DEF b
<1>2. /\ c \in Seq(Nat) /\ Len(c) = k
      /\ \A i \in 1 .. k : c[i] = m + i
  BY <1>1, SubSeqProperties
<1>. HIDE DEF c
<1>3. \A i \in 1 .. k : Behind(m, k)[i] = m + i
  BY DEF Behind
<1>4. c = Behind(m, k)
  BY <1>2, <1>3, BehindType, SeqEqual
<1>. QED
  BY <1>4 DEF b, c

-----------------------------------------------------------------------------
(* A stream that was offered the first m bytes has them, or is full.  What *)
(* it is offered next continues them.                                      *)
LEMMA TakingInOrder ==
  ASSUME NEW m \in Nat, NEW n \in Nat, room \in Nat,
         stream = Prefix(Fewer(m, room))
  PROVE  Taking(Behind(m, n)) = Prefix(Fewer(m + n, room))
<1>1. Len(stream) = Fewer(m, room) /\ stream \in Seq(Nat)
  BY FewerType, PrefixType
<1>2. Len(Behind(m, n)) = n
  BY BehindType
<1>3. CASE m <= room
  <2>. DEFINE k == Fewer(n, room - m)
  <2>1. Len(stream) = m /\ stream = Prefix(m)
    BY <1>1, <1>3 DEF Fewer
  <2>2. k \in 0 .. n /\ m + k = Fewer(m + n, room)
    BY <1>3 DEF Fewer
  <2>3. Taking(Behind(m, n)) = stream \o SubSeq(Behind(m, n), 1, k)
    BY <1>2, <2>1 DEF Taking
  <2>. HIDE DEF k
  <2>4. SubSeq(Behind(m, n), 1, k) = Behind(m, k)
    BY <2>2, BehindCut
  <2>5. Prefix(m) \o Behind(m, k) = Prefix(m + k)
    <3>1. k \in Nat
      BY <2>2
    <3>. QED
      BY <3>1, PrefixGrows
  <2>6. Prefix(m + k) = Prefix(Fewer(m + n, room))
    BY <2>2, Zenon
  <2>7. Taking(Behind(m, n)) = Prefix(m) \o Behind(m, k)
    BY <2>1, <2>3, <2>4, Zenon
  <2>. QED
    BY <2>5, <2>6, <2>7, Zenon
<1>4. CASE m > room
  <2>1. Len(stream) = room /\ Fewer(m + n, room) = room /\ Fewer(m, room) = room
    BY <1>1, <1>4 DEF Fewer
  <2>2. Fewer(n, room - room) = 0
    BY DEF Fewer
  <2>3. Taking(Behind(m, n)) = stream \o SubSeq(Behind(m, n), 1, 0)
    BY <1>2, <2>1, <2>2 DEF Taking
  <2>4. SubSeq(Behind(m, n), 1, 0) = << >>
    BY BehindType
  <2>. QED
    BY <1>1, <2>1, <2>3, <2>4
<1>. QED
  BY <1>3, <1>4

-----------------------------------------------------------------------------
(***************************************************************************)
(* The inductive invariant.  All that was written is in two places: its    *)
(* beginning on the stream, cut where the stream is full, and the rest in  *)
(* the buffer of the variable the adapter is in, which is where the        *)
(* adapter's iterator points.  The reader has what it read, in order, and  *)
(* nothing is missing of that while there was no error.                    *)
(***************************************************************************)
WriterOK ==
  /\ phase \in {"object", "returned", "closed"}
  /\ bufferSize \in InitialSizes \union { Unbuffered }
  /\ buffers \in [ Handles -> [ 1 .. bufferSize -> Nat ] ]
  /\ self \in Handles /\ beginIt = self
  /\ sent \in Nat /\ room \in Nat
  /\ currOffset \in 0 .. bufferSize /\ currOffset <= sent
  /\ phase = "closed" => currOffset = 0

Written == sent - currOffset

BufferedInOrder == \A i \in 1 .. currOffset : buffers[self][i] = Written + i

StreamedInOrder == stream = Prefix(Fewer(Written, room))

ReaderOK ==
  /\ taken \in 0 .. Len(stream)
  /\ zeroIfNoErrors = IF err = NoError THEN 0 ELSE -1
  /\ \E n \in Nat : delivered = Prefix(n)
  /\ err = NoError => delivered = Prefix(taken)

IInv == WriterOK /\ BufferedInOrder /\ StreamedInOrder /\ ReaderOK

LEMMA SizesType == InitialSizes \union { Unbuffered } \subseteq Nat
BY BuffersAssumption DEF InitialSizes, Unbuffered

LEMMA StreamType ==
  ASSUME WriterOK, StreamedInOrder
  PROVE  /\ Written \in Nat /\ stream \in Seq(Nat)
         /\ Len(stream) = Fewer(Written, room) /\ Len(stream) <= room
         /\ \A i \in 1 .. Len(stream) : stream[i] = i
<1>1. Written \in Nat /\ room \in Nat
  BY SizesType DEF WriterOK, Written
<1>. DEFINE k == Fewer(Written, room)
<1>2. k \in Nat /\ k <= room
  BY <1>1, FewerType
<1>3. stream = Prefix(k)
  BY DEF StreamedInOrder
<1>. HIDE DEF k
<1>4. stream \in Seq(Nat) /\ Len(stream) = k
  BY <1>2, <1>3, PrefixType
<1>5. \A i \in 1 .. k : stream[i] = i
  BY <1>2, <1>3 DEF Prefix
<1>. QED
  BY <1>1, <1>2, <1>4, <1>5 DEF k

\* What waits in the buffer continues what is on the stream.
LEMMA PendingInOrder ==
  ASSUME WriterOK, BufferedInOrder
  PROVE  Pending = Behind(Written, currOffset)
<1>. DEFINE b == buffers[self]
            p == SubSeq(b, 1, currOffset)
<1>1. /\ b \in [ 1 .. bufferSize -> Nat ] /\ bufferSize \in Nat
      /\ currOffset \in 0 .. bufferSize /\ Written \in Nat
  BY SizesType DEF WriterOK, Written
<1>2. \A i \in 1 .. currOffset : b[i] \in Nat /\ b[i] = Written + i
  BY <1>1 DEF BufferedInOrder
<1>3. Pending = p
  BY DEF Pending, WriterOK
<1>. HIDE DEF b
<1>4. /\ p \in Seq(Nat) /\ Len(p) = currOffset
      /\ \A i \in 1 .. currOffset : p[i] = Written + i
  BY <1>1, <1>2, SubSeqProperties
<1>5. currOffset \in Nat
  BY <1>1
<1>6. \A i \in 1 .. currOffset : Behind(Written, currOffset)[i] = Written + i
  BY DEF Behind
<1>. HIDE DEF p
<1>7. p = Behind(Written, currOffset)
  BY <1>1, <1>4, <1>5, <1>6, BehindType, SeqEqual
<1>. QED
  BY <1>3, <1>7

LEMMA InvInit == StreamInit => IInv
<1>. SUFFICES ASSUME StreamInit PROVE IInv
  OBVIOUS
<1>1. bufferSize \in Nat /\ room \in Nat
  BY SizesType, RoomsAssumption DEF StreamInit
<1>2. WriterOK
  BY <1>1 DEF StreamInit, WriterOK, Garbage, Handles
<1>3. Written = 0 /\ Fewer(0, room) = 0
  BY <1>1 DEF StreamInit, Written, Fewer
<1>4. Prefix(0) = << >>
  BY DEF Prefix
<1>5. BufferedInOrder /\ StreamedInOrder
  BY <1>3, <1>4 DEF StreamInit, BufferedInOrder, StreamedInOrder
<1>6. ReaderOK
  BY <1>4 DEF StreamInit, ReaderOK
<1>. QED
  BY <1>2, <1>5, <1>6 DEF IInv

-----------------------------------------------------------------------------
(* What each way of handing bytes to the stream leaves there. *)

LEMMA Flushed ==
  ASSUME IInv, WriteBufferToStream
  PROVE  stream' = Prefix(Fewer(sent, room)) /\ currOffset' = 0
<1>1. /\ Written \in Nat /\ currOffset \in Nat /\ room \in Nat
      /\ Written + currOffset = sent
  BY SizesType DEF IInv, WriterOK, Written
<1>2. stream' = Taking(Behind(Written, currOffset)) /\ currOffset' = 0
  BY PendingInOrder DEF IInv, WriteBufferToStream
<1>3. Taking(Behind(Written, currOffset)) = Prefix(Fewer(Written + currOffset, room))
  BY <1>1, TakingInOrder DEF IInv, StreamedInOrder
<1>. QED
  BY <1>1, <1>2, <1>3

LEMMA WrittenThrough ==
  ASSUME IInv, NEW n \in Nat, WriteThrough(Fresh(n))
  PROVE  stream' = Prefix(Fewer(sent + n, room)) /\ currOffset' = 0
<1>1. /\ Written \in Nat /\ currOffset \in Nat /\ room \in Nat
      /\ Written + currOffset = sent
  BY SizesType DEF IInv, WriterOK, Written
<1>2. Fresh(n) = Behind(Written + currOffset, n)
  BY <1>1 DEF Fresh, Behind
<1>3. Pending \o Fresh(n) = Behind(Written, currOffset + n)
  <2>1. Behind(Written, currOffset) \o Behind(Written + currOffset, n)
          = Behind(Written, currOffset + n)
    BY <1>1, BehindGrows
  <2>2. Pending = Behind(Written, currOffset)
    BY PendingInOrder DEF IInv
  <2>. QED
    BY <1>2, <2>1, <2>2
<1>. DEFINE k == currOffset + n
<1>4. k \in Nat /\ Written + k = sent + n
  BY <1>1
<1>5. stream' = Taking(Behind(Written, k)) /\ currOffset' = 0
  BY <1>3 DEF WriteThrough
<1>. HIDE DEF k
<1>6. Taking(Behind(Written, k)) = Prefix(Fewer(Written + k, room))
  BY <1>1, <1>4, TakingInOrder DEF IInv, StreamedInOrder
<1>. QED
  BY <1>4, <1>5, <1>6

LEMMA WrittenPast ==
  ASSUME IInv, NEW n \in Nat, bufferSize = Unbuffered, stream' = Taking(Fresh(n))
  PROVE  stream' = Prefix(Fewer(sent + n, room)) /\ currOffset = 0
<1>1. currOffset = 0 /\ sent \in Nat /\ room \in Nat /\ Written = sent
  BY DEF IInv, WriterOK, Written, Unbuffered
<1>2. Fresh(n) = Behind(sent, n)
  BY DEF Fresh, Behind
<1>3. Taking(Behind(sent, n)) = Prefix(Fewer(sent + n, room))
  BY <1>1, TakingInOrder DEF IInv, StreamedInOrder
<1>. QED
  BY <1>1, <1>2, <1>3

\* A reader is not disturbed by a stream that gets longer.
LEMMA ReaderKept ==
  ASSUME IInv, NEW n \in Nat, stream' = Prefix(Fewer(n, room)), Written <= n,
         UNCHANGED inputVars
  PROVE  ReaderOK'
<1>1. /\ Written \in Nat /\ room \in Nat /\ Len(stream) = Fewer(Written, room)
  BY StreamType DEF IInv, WriterOK
<1>2. Fewer(Written, room) <= Fewer(n, room)
  BY <1>1 DEF Fewer
<1>3. Len(stream') = Fewer(n, room) /\ Fewer(n, room) \in Nat
  BY <1>1, FewerType, PrefixType
<1>4. taken \in Nat /\ taken <= Len(stream)
  BY <1>1, FewerType DEF IInv, ReaderOK
<1>5. taken' \in 0 .. Len(stream')
  BY <1>1, <1>2, <1>3, <1>4 DEF inputVars
<1>. QED
  BY <1>5 DEF IInv, ReaderOK, inputVars

\* A step of the writer after which the buffer is empty.
LEMMA EmptyBuffer ==
  ASSUME IInv, WriterOK', currOffset' = 0, stream' = Prefix(Fewer(sent', room)),
         UNCHANGED <<room, inputVars>>, sent <= sent'
  PROVE  IInv'
<1>1. sent' \in Nat
  BY DEF WriterOK
<1>2. Written' = sent'
  <2>1. \A n \in Nat : n - 0 = n
    OBVIOUS
  <2>2. Written' = sent' - 0
    BY DEF Written
  <2>. QED
    BY <1>1, <2>1, <2>2, Zenon
<1>3. BufferedInOrder' /\ StreamedInOrder'
  BY <1>2 DEF BufferedInOrder, StreamedInOrder
<1>4. Written <= sent'
  BY <1>1, SizesType DEF IInv, WriterOK, Written
<1>5. ReaderOK'
  BY <1>1, <1>4, ReaderKept
<1>. QED
  BY <1>3, <1>5 DEF IInv

-----------------------------------------------------------------------------
(* What the reader's steps leave. *)

WriterVars == <<phase, adapterVars, sent, stream, room>>

LEMMA WriterKept ==
  ASSUME IInv, UNCHANGED WriterVars
  PROVE  WriterOK' /\ BufferedInOrder' /\ StreamedInOrder'
<1>1. /\ phase' = phase /\ bufferSize' = bufferSize /\ buffers' = buffers
      /\ self' = self /\ beginIt' = beginIt /\ currOffset' = currOffset
      /\ sent' = sent /\ stream' = stream /\ room' = room
  BY DEF WriterVars, adapterVars
<1>. QED
  BY <1>1 DEF IInv, WriterOK, BufferedInOrder, StreamedInOrder, Written

LEMMA RaiseKeeps ==
  ASSUME NEW e \in RealErrors, Raise(e),
         zeroIfNoErrors = IF err = NoError THEN 0 ELSE -1
  PROVE  zeroIfNoErrors' = -1 /\ err' # NoError
BY DEF Raise, RealErrors, ReaderError, NoError

\* A read that finds all its bytes is given the ones behind those read before.
LEMMA ReadContinues ==
  ASSUME IInv, NEW n \in GetSizes, Get(n)
  PROVE  ReaderOK'
<1>1. /\ n \in Nat \ {0} /\ stream \in Seq(Nat) /\ stream' = stream
      /\ taken \in Nat /\ taken <= Len(stream) /\ Len(stream) \in Nat
      /\ \A i \in 1 .. Len(stream) : stream[i] = i
  BY StreamType, SizesAssumption DEF IInv, ReaderOK, Get
<1>. DEFINE k == Available(n)
<1>2. k \in Nat /\ k <= n /\ k <= Len(stream) - taken
  BY <1>1 DEF Available, Fewer
<1>3. taken' = taken + k
  BY DEF Get
<1>. HIDE DEF k
<1>4. taken' \in 0 .. Len(stream')
  BY <1>1, <1>2, <1>3
<1>5. zeroIfNoErrors = IF err = NoError THEN 0 ELSE -1
  BY DEF IInv, ReaderOK
<1>6. CASE IsWhole(n)
  <2>1. n - k = zeroIfNoErrors
    BY <1>6 DEF IsWhole, k
  <2>2. err = NoError /\ k = n /\ zeroIfNoErrors = 0
    BY <1>1, <1>2, <1>5, <2>1
  <2>. DEFINE got == [ i \in 1 .. n |-> IF i <= k THEN stream[taken + i] ELSE 0 ]
  <2>3. \A i \in 1 .. n : got[i] = taken + i
    BY <1>1, <1>2, <2>2
  <2>4. got = Behind(taken, n)
    BY <2>3 DEF Behind
  <2>5. delivered' = delivered \o got /\ UNCHANGED <<err, zeroIfNoErrors>>
    BY <1>6 DEF Get, k
  <2>. HIDE DEF got
  <2>6. delivered = Prefix(taken)
    BY <2>2 DEF IInv, ReaderOK
  <2>7. Prefix(taken) \o Behind(taken, n) = Prefix(taken + n)
    BY <1>1, PrefixGrows
  <2>8. delivered' = Prefix(taken')
    BY <1>3, <2>2, <2>4, <2>5, <2>6, <2>7
  <2>9. taken' \in Nat
    BY <1>1, <1>2, <1>3
  <2>. QED
    BY <1>4, <1>5, <2>5, <2>8, <2>9 DEF ReaderOK
<1>7. CASE ~IsWhole(n)
  <2>1. PICK e \in { ReadingError, DataOverflow } : Raise(e)
    BY <1>7 DEF Get
  <2>2. zeroIfNoErrors' = -1 /\ err' # NoError
    BY <1>5, <2>1, RaiseKeeps
      DEF RealErrors, ReaderError, NoError, ReadingError, DataOverflow, InvalidPointer
  <2>3. delivered' = delivered
    BY <1>7 DEF Get
  <2>. QED
    BY <1>4, <2>2, <2>3 DEF IInv, ReaderOK
<1>. QED
  BY <1>6, <1>7

LEMMA ErrorKeeps ==
  ASSUME IInv, NEW e \in RealErrors, GetFails(e)
  PROVE  ReaderOK'
<1>1. zeroIfNoErrors' = -1 /\ err' # NoError
  BY RaiseKeeps DEF IInv, ReaderOK, GetFails
<1>. QED
  BY <1>1 DEF IInv, ReaderOK, GetFails

-----------------------------------------------------------------------------
(* What the writer's steps leave. *)

LEMMA WriteKeeps ==
  ASSUME IInv, NEW n \in WriteSizes, PutBuffered(n)
  PROVE  IInv'
<1>. USE DEF IInv
<1>1. /\ n \in Nat /\ sent \in Nat /\ sent' = sent + n /\ room' = room
      /\ bufferSize \in Nat /\ bufferSize' = bufferSize
      /\ currOffset \in Nat /\ currOffset <= bufferSize /\ currOffset <= sent
      /\ self' = self /\ beginIt' = self /\ self \in Handles /\ phase = "object"
      /\ phase' = phase /\ Written = sent - currOffset
      /\ bufferSize \in InitialSizes \union { Unbuffered }
  BY SizesAssumption, SizesType DEF PutBuffered, Writes, WriterOK, Written
<1>2. UNCHANGED <<room, inputVars>> /\ room \in Nat
  BY DEF PutBuffered, Writes, WriterOK
<1>3. CASE currOffset + n <= bufferSize
  <2>. DEFINE b == buffers[self]
              c == [ i \in 1 .. bufferSize |->
                       IF i \in currOffset + 1 .. currOffset + n
                         THEN Fresh(n)[i - currOffset] ELSE b[i] ]
  <2>1. /\ buffers' = [ buffers EXCEPT ![self] = c ] /\ currOffset' = currOffset + n
        /\ stream' = stream
    BY <1>3 DEF PutBuffered, WriterOK
  <2>2. buffers \in [ Handles -> [ 1 .. bufferSize -> Nat ] ]
    BY DEF WriterOK
  <2>3. \A i \in currOffset + 1 .. currOffset + n : Fresh(n)[i - currOffset] = sent + (i - currOffset)
    BY <1>1 DEF Fresh
  <2>4. c \in [ 1 .. bufferSize -> Nat ]
    <3>1. b \in [ 1 .. bufferSize -> Nat ]
      BY <1>1, <2>2
    <3>. HIDE DEF b
    <3>2. ASSUME NEW i \in 1 .. bufferSize
          PROVE  (IF i \in currOffset + 1 .. currOffset + n
                    THEN Fresh(n)[i - currOffset] ELSE b[i]) \in Nat
      <4>1. CASE i \in currOffset + 1 .. currOffset + n
        <5>1. sent + (i - currOffset) \in Nat
          BY <1>1, <4>1
        <5>. QED
          BY <2>3, <4>1, <5>1
      <4>2. CASE i \notin currOffset + 1 .. currOffset + n
        BY <3>1, <4>2
      <4>. QED
        BY <4>1, <4>2
    <3>. QED
      BY <3>2
  <2>5. \A i \in 1 .. currOffset + n : c[i] = Written + i
    <3>. TAKE i \in 1 .. currOffset + n
    <3>1. i \in 1 .. bufferSize
      BY <1>1, <1>3
    <3>2. CASE i <= currOffset
      BY <1>1, <3>1, <3>2 DEF BufferedInOrder
    <3>3. CASE i > currOffset
      <4>1. c[i] = sent + (i - currOffset)
        BY <1>1, <2>3, <3>1, <3>3
      <4>. QED
        BY <1>1, <4>1
    <3>. QED
      BY <1>1, <3>2, <3>3
  <2>. HIDE DEF c
  <2>6. /\ buffers' \in [ Handles -> [ 1 .. bufferSize' -> Nat ] ]
        /\ buffers'[self'] = c
    BY <1>1, <2>1, <2>2, <2>4
  <2>7. WriterOK'
    BY <1>1, <1>2, <1>3, <2>1, <2>6 DEF WriterOK
  <2>8. Written' = Written
    BY <1>1, <2>1 DEF Written
  <2>9. BufferedInOrder'
    BY <2>1, <2>5, <2>6, <2>8 DEF BufferedInOrder
  <2>10. StreamedInOrder'
    BY <1>2, <2>1, <2>8 DEF StreamedInOrder
  <2>11. ReaderOK'
    BY <1>2, <2>1 DEF ReaderOK, inputVars
  <2>. QED
    BY <2>7, <2>9, <2>10, <2>11
<1>4. CASE ~(currOffset + n <= bufferSize)
  <2>1. WriteThrough(Fresh(n)) /\ buffers' = buffers
    BY <1>4 DEF PutBuffered
  <2>2. stream' = Prefix(Fewer(sent + n, room)) /\ currOffset' = 0
    BY <1>1, <2>1, WrittenThrough
  <2>3. WriterOK'
    BY <1>1, <1>2, <2>1, <2>2 DEF WriterOK
  <2>4. sent <= sent'
    BY <1>1
  <2>. QED
    BY <1>1, <1>2, <2>2, <2>3, <2>4, EmptyBuffer
<1>. QED
  BY <1>3, <1>4

LEMMA WriteUnbufferedKeeps ==
  ASSUME IInv, NEW n \in WriteSizes, PutUnbuffered(n)
  PROVE  IInv'
<1>1. /\ n \in Nat /\ sent \in Nat /\ sent' = sent + n /\ phase' = phase
      /\ UNCHANGED <<room, inputVars>> /\ UNCHANGED adapterVars
  BY SizesAssumption DEF IInv, WriterOK, PutUnbuffered, Writes
<1>2. stream' = Prefix(Fewer(sent + n, room)) /\ currOffset = 0
  BY <1>1, WrittenPast DEF PutUnbuffered
<1>3. WriterOK' /\ currOffset' = 0
  BY <1>1, <1>2 DEF IInv, WriterOK, adapterVars
<1>4. sent <= sent'
  BY <1>1
<1>. QED
  BY <1>1, <1>2, <1>3, <1>4, EmptyBuffer

LEMMA FlushKeeps ==
  ASSUME IInv, FlushAdapter, phase' \in {"object", "returned", "closed"}
  PROVE  IInv'
<1>1. /\ sent \in Nat /\ sent' = sent /\ UNCHANGED <<room, inputVars>>
      /\ UNCHANGED <<bufferSize, buffers, self, beginIt>>
  BY DEF IInv, WriterOK, FlushAdapter
<1>2. stream' = Prefix(Fewer(sent, room)) /\ currOffset' = 0
  BY Flushed DEF FlushAdapter
<1>3. WriterOK'
  BY <1>1, <1>2, SizesType DEF IInv, WriterOK
<1>4. sent <= sent'
  BY <1>1
<1>. QED
  BY <1>1, <1>2, <1>3, <1>4, EmptyBuffer

\* The copy of the buffer holds what the original held.
LEMMA MoveKeeps ==
  ASSUME IInv, NEW h \in Handles, Move(h)
  PROVE  IInv'
<1>. USE DEF IInv
<1>1. /\ self' = h /\ beginIt' = h
      /\ UNCHANGED <<phase, bufferSize, currOffset, sent, stream, room, inputVars>>
      /\ buffers' = [ Garbage(bufferSize) EXCEPT ![h] = buffers[self] ]
  BY DEF Move, MovedBegin
<1>2. buffers[self] \in [ 1 .. bufferSize -> Nat ]
  BY DEF WriterOK
<1>3. Garbage(bufferSize) \in [ Handles -> [ 1 .. bufferSize -> Nat ] ]
  BY DEF Garbage
<1>4. /\ buffers' \in [ Handles -> [ 1 .. bufferSize -> Nat ] ]
      /\ buffers'[self'] = buffers[self]
  BY <1>1, <1>2, <1>3
<1>5. WriterOK'
  BY <1>1, <1>4 DEF WriterOK
<1>6. Written' = Written
  BY <1>1 DEF Written
<1>7. BufferedInOrder' /\ StreamedInOrder'
  BY <1>1, <1>4, <1>6 DEF BufferedInOrder, StreamedInOrder
<1>8. ReaderOK'
  BY <1>1 DEF ReaderOK, inputVars
<1>. QED
  BY <1>5, <1>7, <1>8

LEMMA NextObjectKeeps ==
  ASSUME IInv, NextObject
  PROVE  IInv'
<1>1. PICK size \in InitialSizes \union { Unbuffered } : Constructed(size)
  BY DEF NextObject
<1>2. /\ size \in Nat /\ phase' = "object" /\ UNCHANGED <<sent, stream, room, inputVars>>
      /\ currOffset = 0 /\ sent \in Nat
  BY SizesType DEF IInv, WriterOK, NextObject
<1>3. WriterOK' /\ currOffset' = 0
  BY <1>1, <1>2 DEF IInv, WriterOK, Constructed, Garbage, Handles
<1>4. Written = sent
  BY <1>2 DEF Written
<1>5. stream' = Prefix(Fewer(sent', room)) /\ sent <= sent'
  BY <1>2, <1>4 DEF IInv, StreamedInOrder
<1>. QED
  BY <1>2, <1>3, <1>5, EmptyBuffer

LEMMA InvNext == IInv /\ [StreamNext]_streamVars => IInv'
<1>. SUFFICES ASSUME IInv, [StreamNext]_streamVars PROVE IInv'
  OBVIOUS
<1>1. ASSUME NEW n \in WriteSizes, PutBuffered(n) \/ PutUnbuffered(n) PROVE IInv'
  BY <1>1, WriteKeeps, WriteUnbufferedKeeps
<1>2. CASE Flush
  BY <1>2, FlushKeeps DEF Flush, IInv, WriterOK
<1>3. ASSUME NEW h \in Handles, Move(h) PROVE IInv'
  BY <1>3, MoveKeeps
<1>4. CASE Return
  <2>1. /\ UNCHANGED <<adapterVars, sent, stream, room, inputVars>>
        /\ phase = "object" /\ phase' = "returned"
    BY <1>4 DEF Return
  <2>2. WriterOK' /\ BufferedInOrder' /\ StreamedInOrder' /\ ReaderOK'
    BY <2>1 DEF IInv, WriterOK, BufferedInOrder, StreamedInOrder, ReaderOK, Written,
      adapterVars, inputVars
  <2>. QED
    BY <2>2 DEF IInv
<1>5. CASE FlushReturned
  BY <1>5, FlushKeeps DEF FlushReturned
<1>6. CASE NextObject
  BY <1>6, NextObjectKeeps
<1>7. ASSUME NEW n \in GetSizes, Get(n) PROVE IInv'
  BY <1>7, WriterKept, ReadContinues DEF Get, WriterVars, IInv
<1>8. ASSUME NEW e \in RealErrors, GetFails(e) PROVE IInv'
  BY <1>8, WriterKept, ErrorKeeps DEF GetFails, WriterVars, IInv
<1>9. CASE UNCHANGED streamVars
  <2>1. UNCHANGED WriterVars /\ UNCHANGED inputVars
    BY <1>9 DEF streamVars, WriterVars
  <2>2. ReaderOK'
    BY <2>1 DEF IInv, ReaderOK, inputVars, WriterVars
  <2>. QED
    BY <2>1, <2>2, WriterKept DEF IInv
<1>. QED
  BY <1>1, <1>2, <1>3, <1>4, <1>5, <1>6, <1>7, <1>8, <1>9 DEF StreamNext

-----------------------------------------------------------------------------
\* The members have their types, what waits fits the buffer, and the stream
\* is never given more than it takes.
THEOREM TypeCorrect == StreamSpec => []StreamTypeOK
<1>1. IInv => StreamTypeOK
  <2>. SUFFICES ASSUME IInv PROVE StreamTypeOK
    OBVIOUS
  <2>1. bufferSize \in Nat /\ buffers \in [ Handles -> [ 1 .. bufferSize -> Nat ] ]
    BY SizesType DEF IInv, WriterOK
  <2>2. \A h \in Handles : buffers[h] \in Seq(Nat)
    BY <2>1
  <2>3. buffers \in [ Handles -> Seq(Nat) ]
    BY <2>1, <2>2
  <2>. QED
    BY <2>3, StreamType DEF IInv, WriterOK, ReaderOK, StreamTypeOK
<1>. QED
  BY InvInit, InvNext, <1>1, PTL DEF StreamSpec

\* A reader gets what the program wrote in order, wherever reads, writes,
\* flushes and moves fall, and success means that nothing was left or lost.
THEOREM ReadersSeeTheLog == StreamSpec => []ReadsInOrder
<1>1. IInv => ReadsInOrder
  <2>. SUFFICES ASSUME IInv PROVE ReadsInOrder
    OBVIOUS
  <2>1. PICK n \in Nat : delivered = Prefix(n)
    BY DEF IInv, ReaderOK
  <2>2. Len(delivered) = n /\ \A i \in 1 .. n : delivered[i] = i
    BY <2>1, PrefixType DEF Prefix
  <2>3. ASSUME StreamCompleted PROVE Len(delivered) = Len(stream)
    <3>1. delivered = Prefix(taken) /\ taken = Len(stream)
      BY <2>3 DEF StreamCompleted, IInv, ReaderOK
    <3>2. taken \in Nat
      BY StreamType DEF IInv, ReaderOK
    <3>. QED
      BY <3>1, <3>2, PrefixType
  <2>. QED
    BY <2>2, <2>3 DEF ReadsInOrder
<1>. QED
  BY InvInit, InvNext, <1>1, PTL DEF StreamSpec

\* The adapters implement the log: a write puts a part of what waits and of
\* what is new behind what is there, a flush everything, and no other step
\* touches the stream.
THEOREM AdaptersImplementTheLog == StreamSpec => ImplementsLog
<1>1. StreamInit => Log!Init
  BY RoomsAssumption DEF StreamInit, Log!Init
<1>2. IInv /\ [StreamNext]_streamVars => [Log!Next]_(Log!vars)
  <2>. SUFFICES ASSUME IInv, [StreamNext]_streamVars PROVE [Log!Next]_(Log!vars)
    OBVIOUS
  <2>1. /\ \A n : Log!Reaches(n) <=> stream' = Prefix(n)
        /\ \A n : Log!Reachable(n) = Fewer(n, room)
    BY DEF Log!Reaches, Log!Reachable, Prefix, Fewer
  <2>2. /\ Len(stream) = Fewer(Written, room) /\ Written \in Nat /\ room \in Nat
        /\ Written <= sent /\ sent \in Nat
    BY StreamType, SizesType DEF IInv, WriterOK, Written
  <2>3. IInv'
    BY InvNext
  <2>4. stream' = Prefix(Fewer(Written', room')) /\ Written' \in Nat
        /\ Written' <= sent' /\ sent' \in Nat
    <3>1. WriterOK' /\ StreamedInOrder'
      BY <2>3 DEF IInv
    <3>2. /\ bufferSize' \in Nat /\ sent' \in Nat /\ currOffset' \in 0 .. bufferSize'
          /\ currOffset' <= sent'
      BY <3>1, SizesType DEF WriterOK
    <3>3. stream' = Prefix(Fewer(Written', room'))
      BY <3>1 DEF StreamedInOrder
    <3>4. Written' \in Nat /\ Written' <= sent'
      <4>1. \A m, n \in Nat : n <= m => m - n \in Nat /\ m - n <= m
        OBVIOUS
      <4>2. currOffset' \in Nat
        BY <3>2
      <4>. QED
        BY <3>2, <4>1, <4>2, Zenon DEF Written
    <3>. QED
      BY <3>2, <3>3, <3>4
  <2>5. ASSUME NEW n \in WriteSizes, PutBuffered(n) \/ PutUnbuffered(n)
        PROVE  Log!Write(n)
    <3>1. n \in Nat /\ sent' = sent + n /\ room' = room
      BY <2>5, SizesAssumption DEF PutBuffered, PutUnbuffered, Writes
    <3>2. Written <= Written'
      <4>1. CASE PutBuffered(n)
        <5>1. CASE currOffset + n <= bufferSize
          BY <2>2, <3>1, <4>1, <5>1 DEF PutBuffered, Written, IInv, WriterOK
        <5>2. CASE ~(currOffset + n <= bufferSize)
          BY <2>2, <3>1, <4>1, <5>2 DEF PutBuffered, WriteThrough, Written, IInv, WriterOK
        <5>. QED
          BY <5>1, <5>2
      <4>2. CASE PutUnbuffered(n)
        BY <2>2, <3>1, <4>2 DEF PutUnbuffered, adapterVars, Written, IInv, WriterOK
      <4>. QED
        BY <2>5, <4>1, <4>2
    <3>. DEFINE k == Fewer(Written', room)
    <3>3. k \in Len(stream) .. Fewer(sent', room)
      BY <2>2, <2>4, <3>1, <3>2 DEF Fewer
    <3>4. Log!Reaches(k)
      BY <2>1, <2>4, <3>1
    <3>5. Log!Reachable(sent') = Fewer(sent', room)
      BY <2>1
    <3>. HIDE DEF k
    <3>. QED
      BY <3>1, <3>3, <3>4, <3>5 DEF Log!Write
  <2>6. ASSUME FlushAdapter PROVE Log!Flush
    <3>1. stream' = Prefix(Fewer(sent, room)) /\ UNCHANGED <<sent, room>>
      BY <2>6, Flushed DEF FlushAdapter
    <3>. QED
      BY <2>1, <3>1 DEF Log!Flush
  <2>7. ASSUME UNCHANGED <<sent, stream, room>> PROVE UNCHANGED Log!vars
    BY <2>7 DEF Log!vars
  <2>8. ASSUME StreamNext PROVE Log!Next \/ UNCHANGED Log!vars
    <3>1. CASE \E n \in WriteSizes : PutBuffered(n) \/ PutUnbuffered(n)
      BY <2>5, <3>1 DEF Log!Next
    <3>2. CASE Flush \/ FlushReturned
      BY <2>6, <3>2 DEF Flush, FlushReturned, Log!Next
    <3>3. CASE \E h \in Handles : Move(h)
      BY <2>7, <3>3 DEF Move
    <3>4. CASE Return \/ NextObject
      BY <2>7, <3>4 DEF Return, NextObject
    <3>5. CASE \E n \in GetSizes : Get(n)
      BY <2>7, <3>5 DEF Get
    <3>6. CASE \E e \in RealErrors : GetFails(e)
      BY <2>7, <3>6 DEF GetFails
    <3>. QED
      BY <2>8, <3>1, <3>2, <3>3, <3>4, <3>5, <3>6 DEF StreamNext
  <2>. QED
    BY <2>7, <2>8 DEF streamVars
<1>. QED
  BY InvInit, InvNext, <1>1, <1>2, PTL DEF StreamSpec, ImplementsLog, Log!Spec

=============================================================================
