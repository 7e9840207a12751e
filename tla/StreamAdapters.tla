--------------------------- MODULE StreamAdapters ---------------------------
(***************************************************************************)
(* The adapters of include/bitsery/adapter/stream.h on both sides of one   *)
(* stream.  A program serializes one object after another, each with an    *)
(* output adapter of its own, buffered or not, and flushes it when the     *)
(* object returned, as examples/file_stream.cpp does (quickSerialization   *)
(* cannot: it asks for the count of bytes, which streams do not have).  An *)
(* adapter is moved between two variables.  A reader with an input adapter *)
(* reads meanwhile.                                                        *)
(*                                                                         *)
(* The program's stream keeps what it takes and reads what it kept.  It    *)
(* may be full: sputn then takes a part or nothing, and says so to an      *)
(* adapter that does not look.                                             *)
(*                                                                         *)
(* The buffer is where an adapter's variable is, so a move copies it, and  *)
(* what is left behind may be destroyed at once.                           *)
(***************************************************************************)
EXTENDS ReaderErrors, Sequences

CONSTANTS ArraySize,   \* bytes in a buffer that is an array
          Requested,   \* sizes that are asked for of a buffer that can be resized
          Rooms,       \* how many bytes the stream takes
          WriteSizes,  \* sizes of the values and blocks that are written
          GetSizes,    \* sizes of the values and blocks that are read
          MaxSent      \* bound: bytes written

ASSUME BuffersAssumption == ArraySize \in Nat \ {0} /\ Requested \subseteq Nat \ {0}
ASSUME RoomsAssumption == Rooms \subseteq Nat
ASSUME SizesAssumption == WriteSizes \cup GetSizes \subseteq Nat \ {0}
ASSUME MaxSentAssumption == MaxSent \in Nat

Handles == {"first", "second"}

\* The buffer of a BasicOutputStreamAdapter.
Unbuffered == 0

VARIABLES
  phase,     \* "object", "returned", "closed": where the serializing program is
  bufferSize,
  buffers,   \* _buf of the adapter in each variable
  self,      \* the variable the adapter is in
  beginIt,   \* _beginIt: whose buffer it points into
  currOffset,
  sent,      \* ghost: bytes the program wrote; the k-th one written is k
  stream,    \* bytes on the stream
  room,      \* how many it takes, fixed
  taken,     \* how many of them were read
  err,
  zeroIfNoErrors,
  value,     \* what the last read left in the program's variable
  delivered  \* ghost: what was read without an error

adapterVars == <<bufferSize, buffers, self, beginIt, currOffset>>
inputVars   == <<taken, err, zeroIfNoErrors, value, delivered>>
streamVars  == <<phase, adapterVars, sent, stream, room, inputVars>>

\* init, for a buffer that can be resized and for one that cannot.
InitialSizes == Requested \union { ArraySize }

Garbage(size) == [ h \in Handles |-> [ i \in 1 .. size |-> 0 ] ]

\* A new output adapter.
Constructed(size) ==
  /\ bufferSize' = size /\ buffers' = Garbage(size)
  /\ self' = "first" /\ beginIt' = "first" /\ currOffset' = 0

StreamInit ==
  /\ phase = "object"
  /\ bufferSize \in InitialSizes \union { Unbuffered }
  /\ buffers = Garbage(bufferSize)
  /\ self = "first" /\ beginIt = "first" /\ currOffset = 0
  /\ sent = 0 /\ stream = << >> /\ room \in Rooms
  /\ taken = 0 /\ err = NoError /\ zeroIfNoErrors = 0
  /\ value = << >> /\ delivered = << >>

Fewer(m, n) == IF m < n THEN m ELSE n

-----------------------------------------------------------------------------
\* sputn: the stream after it was given some bytes.
Taking(bytes) == stream \o SubSeq(bytes, 1, Fewer(Len(bytes), room - Len(stream)))

\* What waits in the buffer.
Pending == SubSeq(buffers[beginIt], 1, currOffset)

\* writeInternalImpl, when the value does not fit.
WriteThrough(data) == stream' = Taking(Pending \o data) /\ currOffset' = 0

Fresh(n) == [ i \in 1 .. n |-> sent + i ]

Writes(n) == /\ phase = "object" /\ sent + n <= MaxSent
             /\ sent' = sent + n
             /\ UNCHANGED <<phase, room, inputVars>>

PutBuffered(n) ==
  /\ Writes(n) /\ bufferSize # Unbuffered
  /\ IF currOffset + n <= bufferSize
       THEN /\ buffers' = [ buffers EXCEPT ![beginIt] =
                 [ i \in 1 .. bufferSize |->
                     IF i \in currOffset + 1 .. currOffset + n
                       THEN Fresh(n)[i - currOffset] ELSE @[i] ] ]
            /\ currOffset' = currOffset + n
            /\ UNCHANGED stream
       ELSE WriteThrough(Fresh(n)) /\ UNCHANGED buffers
  /\ UNCHANGED <<bufferSize, self, beginIt>>

\* BasicOutputStreamAdapter::writeInternalValue, writeInternalBuffer
PutUnbuffered(n) ==
  /\ Writes(n) /\ bufferSize = Unbuffered
  /\ stream' = Taking(Fresh(n))
  /\ UNCHANGED adapterVars

\* writeBufferToStream
WriteBufferToStream == stream' = Taking(Pending) /\ currOffset' = 0

FlushAdapter == /\ WriteBufferToStream
                /\ UNCHANGED <<bufferSize, buffers, self, beginIt, sent, room, inputVars>>

\* The program flushes while it serializes.
Flush == phase = "object" /\ FlushAdapter /\ UNCHANGED phase

\* The iterator still points into the buffer that was left behind.
MovedBegin_Bug(to) == beginIt

\* _beginIt of the adapter that was moved to.
MovedBegin(to) == to

\* Move construction, or assignment to a variable that holds no adapter any
\* more.
Move(to) ==
  /\ phase = "object" /\ bufferSize # Unbuffered
  /\ to # self
  /\ self' = to /\ beginIt' = MovedBegin(to)
  /\ buffers' = [ Garbage(bufferSize) EXCEPT ![to] = buffers[self] ]
  /\ UNCHANGED <<phase, bufferSize, currOffset, sent, stream, room, inputVars>>

\* The adapter goes without a flush: its destructor does not.
Return_Bug == /\ phase = "object"
              /\ phase' = "closed"
              /\ UNCHANGED <<adapterVars, sent, stream, room, inputVars>>

\* object returns to the program,
Return == /\ phase = "object"
          /\ phase' = "returned"
          /\ UNCHANGED <<adapterVars, sent, stream, room, inputVars>>

\* which flushes the adapter, whereupon it goes with its serializer;
FlushReturned == phase = "returned" /\ FlushAdapter /\ phase' = "closed"

\* and the next object comes with an adapter of its own.
NextObject ==
  /\ phase = "closed" /\ phase' = "object"
  /\ \E size \in InitialSizes \union { Unbuffered } : Constructed(size)
  /\ UNCHANGED <<sent, stream, room, inputVars>>

-----------------------------------------------------------------------------
\* error(ReaderError): the first wins.  The member that is compared with the
\* number of missing bytes becomes the largest size_t, here a size no read
\* has.
Raise(e) ==
  IF err = NoError THEN err' = e /\ zeroIfNoErrors' = -1
                   ELSE UNCHANGED <<err, zeroIfNoErrors>>

GetFails(e) ==
  /\ Raise(e)
  /\ UNCHANGED <<phase, adapterVars, sent, stream, room, taken, value, delivered>>

\* sgetn
Available(n) == Fewer(n, Len(stream) - taken)

\* A value of which a part is there is taken for whole.
IsWhole_Bug(n) == zeroIfNoErrors = 0 /\ Available(n) > 0

\* The comparison of readChecked.
IsWhole(n) == n - Available(n) = zeroIfNoErrors

\* readChecked, into a variable that is zero: only its first byte is cleared
\* when the read fails.  rdstate() is the program's.
Get(n) ==
  LET got == [ i \in 1 .. n |-> IF i <= Available(n) THEN stream[taken + i] ELSE 0 ]
  IN  /\ taken' = taken + Available(n)
      /\ IF IsWhole(n)
           THEN /\ value' = got /\ delivered' = delivered \o got
                /\ UNCHANGED <<err, zeroIfNoErrors>>
           ELSE /\ value' = [ got EXCEPT ![1] = 0 ]
                /\ \E e \in { ReadingError, DataOverflow } : Raise(e)
                /\ UNCHANGED delivered
      /\ UNCHANGED <<phase, adapterVars, sent, stream, room>>

StreamNext ==
  \/ \E n \in WriteSizes : PutBuffered(n) \/ PutUnbuffered(n)
  \/ Flush
  \/ \E h \in Handles : Move(h)
  \/ Return \/ FlushReturned \/ NextObject
  \/ \E n \in GetSizes : Get(n)
  \/ \E e \in RealErrors : GetFails(e)

\* A serialize function returns, and the program goes on to the flush behind
\* it.  Nothing is assumed of the reader, of moves, or of other flushes.
Fairness == WF_streamVars(Return) /\ WF_streamVars(FlushReturned)

StreamSpec == StreamInit /\ [][StreamNext]_streamVars /\ Fairness

-----------------------------------------------------------------------------
\* Types.  What waits fits the buffer, and the member that is compared with
\* the number of missing bytes tells whether there was an error.
StreamTypeOK ==
  /\ phase \in {"object", "returned", "closed"}
  /\ bufferSize \in InitialSizes \union { Unbuffered }
  /\ buffers \in [ Handles -> Seq(Nat) ] /\ self \in Handles
  /\ currOffset \in 0 .. bufferSize /\ sent \in Nat
  /\ stream \in Seq(Nat) /\ Len(stream) <= room
  /\ taken \in 0 .. Len(stream)
  /\ zeroIfNoErrors = IF err = NoError THEN 0 ELSE -1

Log == INSTANCE OrderedLog WITH there <- stream, MaxBytes <- MaxSent

\* However values and flushes mix, whichever values go through the buffer
\* and whichever past it, and wherever the adapter is moved, the stream gets
\* all bytes in order ("WhenInternalBufferIsFullThenWriteBufferAndValueTo-
\* Stream", "WhenFlushThenWriteImmediately", tests/adapter.cpp), and from a
\* full stream nothing is missing but the end.
ImplementsLog == Log!Spec

\* What is serialized reaches the stream, unless it is full, although
\* adapters keep it back and are replaced: one flush behind each object is
\* enough (examples/file_stream.cpp, "flush to writer").
SoonerOrLater == Log!SoonerOrLater

\* isCompletedSuccessfully
StreamCompleted == err = NoError /\ taken = Len(stream)

\* A reader on the other side of the stream gets the program's values in
\* order, without a gap and none twice, although its reads are cut in other
\* places than the writes were.  Success means that it was given all the
\* stream has, none lost in a failed read.
ReadsInOrder ==
  /\ \A i \in 1 .. Len(delivered) : delivered[i] = i
  /\ StreamCompleted => Len(delivered) = Len(stream)

=============================================================================
