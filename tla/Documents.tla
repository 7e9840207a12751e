----------------------------- MODULE Documents ------------------------------
(***************************************************************************)
(* A document: fields of every kind and Growable sessions                  *)
(* (include/bitsery/ext/growable.h) around them, written and read through  *)
(* the bit-packing wrappers.  Writer and reader are of the same version    *)
(* and make the same calls; the reader gets the document, a part of it, or *)
(* one in which a byte is another.                                         *)
(*                                                                         *)
(* A session remembers positions, and a position of the wrapper is that of *)
(* the adapter below: it does not count the bits in the scratch.           *)
(***************************************************************************)
EXTENDS Composites

CONSTANTS Fields,      \* the fields there are, a sequence of records (Composites)
          MaxWeight,   \* bound: weight of a document's fields and sessions
          MaxDamaged,  \* bound: calls for a document that may arrive changed
          AlignsFirst  \* whether the client opens and closes sessions aligned

ASSUME BoundsAssumption == /\ MaxWeight \in Nat
                           /\ MaxDamaged \in Nat /\ AlignsFirst \in BOOLEAN

VARIABLES
  packer,    \* the output adapter in its wrapper
  wopen,     \* startPos of each open session
  calls,     \* ghost: the calls made, in order; n is the number of a field
  phase,     \* "writing", "reading", "done"
  data,      \* the bytes the reader was given
  unpacker,  \* the input adapter in its wrapper
  ropen,     \* the local variables of each open session
  got        \* what the reader's variable of each call holds

vars == <<packer, wopen, calls, phase, data, unpacker, ropen, got>>

HeaderSize == 4

Init == /\ packer = NewPacker(NewWriter(<< >>)) /\ wopen = << >> /\ calls = << >>
        /\ phase = "writing" /\ data = << >>
        /\ unpacker = NewUnpacker(NewReader(0)) /\ ropen = << >> /\ got = << >>

\* What differs with and without bit packing (f.packed).
Unpacked(f) == f.kind \in {"bool", "optional", "bitset"} /\ ~f.packed

\* A session and a field that is one call of the adapter weigh 1, fields
\* that are serialized as one of another kind and those without bit packing
\* 3, the others 2.  Floating-point numbers, of which there are many, come
\* alone.
LikeOthers == {"queue", "stack", "multiset", "multimap", "time", "atomic"}

Weight(op, n) ==
  CASE op = "open"  -> 1
    [] op = "field" ->
         LET f == Fields[n]
         IN  CASE f.kind \in {"bits", "value"} -> 1
               [] f.kind \in LikeOthers \/ Unpacked(f) -> 3
               [] f.kind = "float" -> MaxWeight
               [] OTHER -> 2
    [] OTHER        -> 0

Call(op, n) ==
  /\ phase = "writing"
  /\ FoldLeft(LAMBDA sum, c : sum + Weight(c.op, c.n), Weight(op, n), calls) <= MaxWeight
  /\ calls' = Append(calls, [ op |-> op, n |-> n ])
  /\ UNCHANGED <<phase, data, unpacker, ropen, got>>

\* A field without bit packing is put into the adapter below, after the
\* wrapper of the fields before has gone.
MayPut(f) == Unpacked(f) => packer.scratchBits = 0

PutField(n) == /\ Call("field", n) /\ MayPut(Fields[n])
               /\ packer' = WriteField(packer, Fields[n])
               /\ UNCHANGED wopen

\* Aligning twice is not tried: BitPacking does.
Align == /\ packer.scratchBits > 0
         /\ Call("align", 0)
         /\ packer' = AlignWrite(packer)
         /\ UNCHANGED wopen

MayBracket == AlignsFirst => packer.scratchBits = 0

\* serialize, up to the call of fnc.
OpenWrite ==
  /\ MayBracket
  /\ Call("open", 0)
  /\ wopen' = Append(wopen, GetWritePos(packer.w))
  /\ packer' = Put(packer, 0, HeaderSize)

\* The writer stays behind the header.
PatchHeader_Bug(p, startPos) ==
  Put(PackSetPos(p, startPos), GetWritePos(p.w) - startPos, HeaderSize)

\* serialize, after the call of fnc.
PatchHeader(p, startPos) ==
  LET endPos == GetWritePos(p.w)
  IN  PackSetPos(Put(PackSetPos(p, startPos),
                     Unsigned(endPos - startPos, HeaderSize), HeaderSize),
                 endPos)

CloseWrite ==
  /\ wopen # << >> /\ MayBracket
  /\ Call("close", 0)
  /\ packer' = PatchHeader(packer, Last(wopen))
  /\ wopen' = Front(wopen)

\* What may become of the bytes on their way.
Arrivals(bytes) ==
  { bytes } \union
  IF Len(calls) > MaxDamaged THEN {}
  ELSE { SubSeq(bytes, 1, n) : n \in 0 .. Len(bytes) } \union
       { [ bytes EXCEPT ![i] = b ] : i \in 1 .. Len(bytes), b \in 0 .. 2^W - 1 }

\* quickSerialization: as many bytes as it returns.
Written(p) == SubSeq(p.w.bytes, 1, WrittenBytesCount(p.w))

\* The wrapper's destructor aligns, and the document is sent.
Deliver ==
  /\ phase = "writing" /\ wopen = << >>
  /\ phase' = "reading"
  /\ packer' = AlignWrite(packer)
  /\ data' \in Arrivals(Written(packer'))
  /\ unpacker' = NewUnpacker(NewReader(Len(data')))
  /\ UNCHANGED <<wopen, calls, ropen, got>>

-----------------------------------------------------------------------------
Now == calls[Len(got) + 1]

Repeat(op) == /\ phase = "reading" /\ Len(got) < Len(calls) /\ Now.op = op
              /\ UNCHANGED <<packer, wopen, calls, phase, data>>

\* The result of a call is moved to the reader's variable.
Returns(u, value) == /\ got' = Append(got, value)
                     /\ unpacker' = [ u EXCEPT !.res = {} ]

ReturnsResult(u) == Returns(u, u.res)

GetField == /\ Repeat("field")
            /\ ReturnsResult(ReadField(unpacker, data, Fields[Now.n]))
            /\ UNCHANGED ropen

AlignInput == /\ Repeat("align")
              /\ Returns(AlignRead(unpacker, data), {})
              /\ UNCHANGED ropen

\* deserialize, up to the call of fnc.
OpenRead ==
  /\ Repeat("open")
  /\ LET u == Get(unpacker, data, HeaderSize)
         s == [ startPos   |-> GetReadPos(unpacker.r),
                size       |-> u.res,
                readEndPos |-> GetReadEndPos(unpacker.r) ]
     IN  /\ ropen' = Append(ropen, s)
         /\ Returns([ u EXCEPT !.r = SetReadEndPos(u.r, s.startPos + s.size) ], {})

\* deserialize, after the call of fnc.
LeaveSession(u, s) ==
  LET v == UnpackSetPos(u, data, s.startPos + s.size)
  IN  [ v EXCEPT !.r = SetReadEndPos(v.r, s.readEndPos) ]

CloseRead ==
  /\ Repeat("close")
  /\ Returns(LeaveSession(unpacker, Last(ropen)), {})
  /\ ropen' = Front(ropen)

\* The wrapper's destructor.
Finish == /\ phase = "reading" /\ Len(got) = Len(calls)
          /\ phase' = "done"
          /\ unpacker' = AlignRead(unpacker, data)
          /\ UNCHANGED <<packer, wopen, calls, data, ropen, got>>

Next == \/ \E n \in 1 .. Len(Fields) : PutField(n)
        \/ Align \/ OpenWrite \/ CloseWrite
        \/ Deliver
        \/ GetField \/ AlignInput \/ OpenRead \/ CloseRead
        \/ Finish

Spec == Init /\ [][Next]_vars

-----------------------------------------------------------------------------
\* quickDeserialization
Status(u) == << GetError(u.r), IsCompletedSuccessfully(u.r) >>

FieldsRead == { i \in 1 .. Len(got) : calls[i].op = "field" }
FieldOf(i) == Fields[calls[i].n]

\* A floating-point number comes back within the precision of its range, one
\* with a number of bits within one of its steps.
Near(f, v) ==
  LET error == IF v < f.x THEN f.x - v ELSE v - f.x
  IN  error <= f.precision \/ error * MaxUint(FloatBits(f)) <= f.high - f.low

\* What a variable must hold that a field was read into.
Carries(f, v) ==
  CASE f.kind = "float" -> Near(f, v)
    [] f.kind \in {"text", "string"} -> Text(f, v) = Text(f, f.x)
    [] f.kind \in {"multiset", "multimap"} -> v = ToBag(f.x)
    [] OTHER -> v = f.x

\* A reader of the writer's version reads what was written, whatever part
\* of it is in sessions: the comment at the head of ext/growable.h promises
\* zeros for a field only "if there is no data for it".  There is no error,
\* and everything is consumed when it is done.
SameVersionReadsAll ==
  phase # "writing" /\ data = Written(packer) =>
  /\ \A i \in FieldsRead : Carries(FieldOf(i), got[i])
  /\ GetError(unpacker.r) = NoError
  /\ phase = "done" => Status(unpacker) = << NoError, TRUE >>

\* What a text as long as its array does: its zero is behind the array.
Overruns(f, v) == Len(v) = f.size + 1 /\ v[f.size + 1] = 0

\* What the declaration of a field lets its variable hold; of an array for
\* text, what the code keeps to (ArraysEnd says what it should keep to).
Allows(f, v) ==
  CASE f.kind \in {"range", "float"} -> f.low <= v /\ v <= f.high
    [] f.kind = "compact" ->
         IF f.signed THEN v \in -(2^(f.bytes * W - 1)) .. 2^(f.bytes * W - 1) - 1
                     ELSE v \in 0 .. 2^(f.bytes * W) - 1
    [] f.kind \in {"dynamic", "queue", "stack", "string"} -> Len(v) <= f.maxSize
    [] f.kind = "set" -> Cardinality(v) <= f.maxSize
    [] f.kind = "map" -> Cardinality(DOMAIN v) <= f.maxSize
    [] f.kind \in {"multiset", "multimap"} -> BagCardinality(v) <= f.maxSize
    [] f.kind = "text" -> Len(v) = f.size \/ Overruns(f, v)
    [] f.kind = "variant" -> v[1] < Len(f.widths) /\ v[2] < 2^(W * f.widths[v[1] + 1])
    [] OTHER -> TRUE

\* Whatever arrives, and whether or not it is an error, no variable of the
\* reader holds a value its declaration rules out: no container above its
\* maxSize, no value out of its range, no alternative a variant has not, and
\* behind an array for text nothing is written but one zero, by a text that
\* is as long as the array.
StaysAllowed == \A i \in FieldsRead : Allows(FieldOf(i), got[i])

\* Whatever arrives, nothing is written behind an array: the library is
\* "designed to be save with untrusted network data" (doc/design/README.md:43).
\* The writer asserts that the zero fits (serializer.h:484), the reader does
\* not ask.
ArraysEnd ==
  \A i \in FieldsRead : FieldOf(i).kind = "text" => Len(got[i]) <= FieldOf(i).size

\* A compact value that is accepted by CompactValueAsObject lost nothing: a
\* reader with a type of twice the size would have read the same.
Wider(f) == [ f EXCEPT !.bytes = 2 * @ ]
CompactIsLossless ==
  [][ /\ GetField /\ Fields[Now.n].kind = "compact" /\ Fields[Now.n].checked
      /\ Fields[Now.n].bytes > 1 /\ GetError(unpacker'.r) = NoError
      => ReadCompact(unpacker, data, Wider(Fields[Now.n])).res = Last(got') ]_vars

=============================================================================
