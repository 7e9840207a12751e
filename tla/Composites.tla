----------------------------- MODULE Composites -----------------------------
(***************************************************************************)
(* Containers, text and the composite types of the standard library,       *)
(* written and read through a bit-packing wrapper, and a field of any kind *)
(* (WriteField, ReadField).  Elements are numbers of f.bytes bytes.        *)
(***************************************************************************)
EXTENDS Codecs

(* container, of a type that can be resized (f.maxSize) or not (f.size).   *)
(* A contiguous container is written as one buffer, which is the same as   *)
(* its values.                                                             *)
WriteDynamic(p, f) == PutAll(WriteSize(p, Len(f.x)), f.x, f.bytes)

\* resize, and then the elements; size is the reader that has read the size.
GetSized(size, data, bytes) == GetAll(size, data, size.res, bytes)
ReadDynamic(u, data, f) == GetSized(ReadSize(u, data, f.maxSize), data, f.bytes)

WriteFixed(p, f) == PutAll(p, f.x, f.bytes)
ReadFixed(u, data, f) == GetAll(u, data, f.size, f.bytes)

\* TextTraits: an array (kind "text") has a zero behind the text, a string
\* has its own size.
AddNUL(f) == f.kind = "text"
Length(f, chars) ==
  IF AddNUL(f)
    THEN CHOOSE n \in 0 .. Len(chars) - 1 :
           chars[n + 1] = 0 /\ \A i \in 1 .. n : chars[i] # 0
    ELSE Len(chars)

\* The text in a variable.
Text(f, chars) == SubSeq(chars, 1, Length(f, chars))

\* The zero is not written.
WriteText(p, f) == PutAll(WriteSize(p, Length(f, f.x)), Text(f, f.x), f.bytes)

\* What is in memory from the array's first element on once the characters
\* were read: a zero behind them, and behind it what the array had.  A size
\* that readSize accepts may be the array's: the zero is then an element
\* more than the array has.
Terminated(f, chars) ==
  chars \o << 0 >> \o SubSeq(f.had, Len(chars) + 2, f.size)

ProcText(length, data, f) ==
  LET v == GetSized(length, data, f.bytes)
  IN  IF AddNUL(f) THEN [ v EXCEPT !.res = Terminated(f, @) ] ELSE v

ReadText(u, data, f) ==
  ProcText(ReadSize(u, data, IF AddNUL(f) THEN f.size ELSE f.maxSize), data, f)

-----------------------------------------------------------------------------
(* EastlSet and EastlMap, ordered: the keys of x are written in ascending  *)
(* order, a key that is read a second time is ignored.  The multi versions *)
(* keep it, x is the sequence of their elements in the container's order,  *)
(* and a reader has them in a bag: the order of equal keys is the          *)
(* container's.                                                            *)
Ascending(keys) == SetToSortSeq(keys, <)

WriteSet(p, f) == PutAll(WriteSize(p, Cardinality(f.x)), Ascending(f.x), f.bytes)

ReadSet(u, data, f) == [ ReadDynamic(u, data, f) EXCEPT !.res = ToSet(@) ]

WriteMultiset(p, f)      == WriteDynamic(p, f)
ReadMultiset(u, data, f) == [ ReadDynamic(u, data, f) EXCEPT !.res = ToBag(@) ]

PutPairs(p, f, pairs) == PutAll(WriteSize(p, Len(pairs)), FlattenSeq(pairs), f.bytes)

\* x is a function from keys to values.
WriteMap(p, f) ==
  LET keys == Ascending(DOMAIN f.x)
  IN  PutPairs(p, f, [ i \in 1 .. Len(keys) |-> << keys[i], f.x[keys[i]] >> ])

Pairs(flat) == [ i \in 1 .. Len(flat) \div 2 |-> << flat[2 * i - 1], flat[2 * i] >> ]

\* emplace_hint: the first value of a key wins.
Emplaced(pairs, k) ==
  LET at == CHOOSE i \in DOMAIN pairs : /\ pairs[i][1] = k
                                        /\ \A j \in 1 .. i - 1 : pairs[j][1] # k
  IN  pairs[at][2]

AsMap(pairs) == [ k \in { pairs[i][1] : i \in DOMAIN pairs } |-> Emplaced(pairs, k) ]

GetPairs(size, data, bytes) ==
  [ GetAll(size, data, 2 * size.res, bytes) EXCEPT !.res = Pairs(@) ]
ReadPairs(u, data, f) == GetPairs(ReadSize(u, data, f.maxSize), data, f.bytes)

ReadMap(u, data, f) == [ ReadPairs(u, data, f) EXCEPT !.res = AsMap(@) ]

WriteMultimap(p, f)      == PutPairs(p, f, f.x)
ReadMultimap(u, data, f) == [ ReadPairs(u, data, f) EXCEPT !.res = ToBag(@) ]

-----------------------------------------------------------------------------
(* boolValue: a bit with bit packing (f.packed), a byte without.           *)
WriteBool(p, f, v) ==
  IF f.packed THEN WriteBits(p, IF v THEN {0} ELSE {}, 1)
              ELSE Put(p, IF v THEN 1 ELSE 0, 1)

ReadBool(u, data, f) ==
  LET v == IF f.packed THEN ReadBits(u, data, 1) ELSE UnpackBytes(u, data, 1)
      w == IF v.res \subseteq {0} THEN v ELSE Fail(v, v.res)
  IN  [ w EXCEPT !.res = (@ = {0}) ]

(* EastlOptional: x is << >> or <<value>>.                                 *)
WriteOptional(p, f) ==
  LET q == WriteBool(p, f, f.x # << >>)
      a == IF f.align THEN AlignWrite(q) ELSE q
  IN  PutAll(a, f.x, f.bytes)

ReadOptional(u, data, f) ==
  LET exists == ReadBool(u, data, f)
      a      == IF f.align THEN AlignRead(exists, data) ELSE exists
  IN  GetAll(a, data, IF exists.res THEN 1 ELSE 0, f.bytes)

(* EastlVariant of alternatives of the sizes f.widths: x is the index and  *)
(* the value.  An index that execIndex does not find leaves the reader's   *)
(* variant, f.had, as it is.                                               *)
WriteVariant(p, f) == Put(WriteSize(p, f.x[1]), f.x[2], f.widths[f.x[1] + 1])

ReadAlternative(index, data, f) ==
  LET v == Get(index, data, f.widths[index.res + 1])
  IN  IF index.res < Len(f.widths) THEN [ v EXCEPT !.res = << index.res, @ >> ]
                                   ELSE [ index EXCEPT !.res = f.had ]

ReadVariant(u, data, f) == ReadAlternative(ReadSize(u, data, Len(f.widths)), data, f)

(* EastlTuple: execAll, one element after another.                         *)
WriteTuple(p, f) ==
  LET round[i \in 0 .. Len(f.x)] ==
        IF i = 0 THEN p ELSE Put(round[i - 1], f.x[i], f.widths[i])
  IN  round[Len(f.x)]

ReadTuple(u, data, f) ==
  LET round[i \in 0 .. Len(f.widths)] ==
        IF i = 0 THEN [ u EXCEPT !.res = << >> ]
        ELSE LET s == round[i - 1]
                 v == Get(s, data, f.widths[i])
             IN  [ v EXCEPT !.res = Append(s.res, v.res) ]
  IN  round[Len(f.widths)]

(* EastlQueue (priority queues too, in the order of the heap) and          *)
(* EastlStack serialize the container inside; EastlDuration,               *)
(* EastlTimePoint and StdAtomic a copy of the number inside.               *)
WriteQueue(p, f)      == WriteDynamic(p, f)
ReadQueue(u, data, f) == ReadDynamic(u, data, f)
WriteStack(p, f)      == WriteDynamic(p, f)
ReadStack(u, data, f) == ReadDynamic(u, data, f)
WriteTime(p, f)       == Put(p, Unsigned(f.x, f.bytes), f.bytes)
ReadTime(u, data, f)  == LET v == Get(u, data, f.bytes)
                         IN  [ v EXCEPT !.res = Signed(@, f.bytes) ]
Load(p, f)            == Put(p, f.x, f.bytes)
Store(u, data, f)     == Get(u, data, f.bytes)

(* EastlBitset of f.size bits, x is the set of the ones: whole bytes, and  *)
(* the bits that are left one by one, or in a byte without bit packing.    *)
WholeBytes(f) == f.size \div W
ByteAt(x, i)  == Number(Low(Shr(x, W * (i - 1)), W))

\* The same of a bitset that fits a number: its lowest byte, after the bytes
\* before it were shifted out.
LongBytes == 1  \* sizeof(unsigned long long), scaled down as the byte is
ByteOf(n, i) == (n \div 2^(W * (i - 1))) % 2^W

WriteLeftover(p, f) ==
  LET whole == WholeBytes(f) * W
      round[i \in whole .. f.size] ==
        IF i = whole THEN p
        ELSE WriteBits(round[i - 1], IF i - 1 \in f.x THEN {0} ELSE {}, 1)
  IN  IF f.size = whole THEN p
      ELSE IF f.packed THEN round[f.size]
      ELSE Put(p, ByteAt(f.x, WholeBytes(f) + 1), 1)

WriteBitset(p, f) ==
  WriteLeftover(
    PutAll(p, [ i \in 1 .. WholeBytes(f) |->
                  IF WholeBytes(f) > LongBytes THEN ByteAt(f.x, i)
                                               ELSE ByteOf(Number(f.x), i) ], 1), f)

\* bytes has the bits of the whole bytes; of the last byte the bits that
\* stand for none are not looked at.
ReadLeftover(bytes, data, f) ==
  LET whole == WholeBytes(f) * W
      round[i \in whole .. f.size] ==
        IF i = whole THEN bytes
        ELSE LET s == round[i - 1]
                 b == ReadBits(s, data, 1)
             IN  [ b EXCEPT !.res = s.res \union Shl(@, i - 1) ]
      byte  == UnpackBytes(bytes, data, 1)
  IN  IF f.size = whole THEN bytes
      ELSE IF f.packed THEN round[f.size]
      ELSE [ byte EXCEPT !.res = bytes.res \union Shl(Low(@, f.size - whole), whole) ]

ReadBitset(u, data, f) ==
  LET v == GetAll(u, data, WholeBytes(f), 1)
  IN  ReadLeftover([ v EXCEPT !.res = Joined(@) ], data, f)

-----------------------------------------------------------------------------
(* A field of any kind; "bits" and "value" are the adapter's own calls.    *)
WriteField(p, f) ==
  CASE f.kind = "bits"     -> WriteBits(p, Word(f.x, Steps(f.bits)), f.bits)
    [] f.kind = "value"    -> Put(p, f.x, f.bytes)
    [] f.kind = "compact"  -> WriteCompact(p, f)
    [] f.kind = "range"    -> WriteRange(p, f.low, f.high, f.x)
    [] f.kind = "float"    -> WriteFloat(p, f)
    [] f.kind = "entropy"  -> WriteEntropy(p, f)
    [] f.kind = "dynamic"  -> WriteDynamic(p, f)
    [] f.kind = "fixed"    -> WriteFixed(p, f)
    [] f.kind \in {"text", "string"} -> WriteText(p, f)
    [] f.kind = "set"      -> WriteSet(p, f)
    [] f.kind = "map"      -> WriteMap(p, f)
    [] f.kind = "multiset" -> WriteMultiset(p, f)
    [] f.kind = "multimap" -> WriteMultimap(p, f)
    [] f.kind = "bool"     -> WriteBool(p, f, f.x)
    [] f.kind = "optional" -> WriteOptional(p, f)
    [] f.kind = "variant"  -> WriteVariant(p, f)
    [] f.kind = "tuple"    -> WriteTuple(p, f)
    [] f.kind = "queue"    -> WriteQueue(p, f)
    [] f.kind = "stack"    -> WriteStack(p, f)
    [] f.kind = "time"     -> WriteTime(p, f)
    [] f.kind = "atomic"   -> Load(p, f)
    [] f.kind = "bitset"   -> WriteBitset(p, f)

ReadField(u, data, f) ==
  CASE f.kind = "bits"     -> LET v == ReadBits(u, data, f.bits)
                              IN  [ v EXCEPT !.res = Number(@) ]
    [] f.kind = "value"    -> Get(u, data, f.bytes)
    [] f.kind = "compact"  -> ReadCompact(u, data, f)
    [] f.kind = "range"    -> ReadRange(u, data, f.low, f.high, f.bytes)
    [] f.kind = "float"    -> ReadFloat(u, data, f)
    [] f.kind = "entropy"  -> ReadEntropy(u, data, f)
    [] f.kind = "dynamic"  -> ReadDynamic(u, data, f)
    [] f.kind = "fixed"    -> ReadFixed(u, data, f)
    [] f.kind \in {"text", "string"} -> ReadText(u, data, f)
    [] f.kind = "set"      -> ReadSet(u, data, f)
    [] f.kind = "map"      -> ReadMap(u, data, f)
    [] f.kind = "multiset" -> ReadMultiset(u, data, f)
    [] f.kind = "multimap" -> ReadMultimap(u, data, f)
    [] f.kind = "bool"     -> ReadBool(u, data, f)
    [] f.kind = "optional" -> ReadOptional(u, data, f)
    [] f.kind = "variant"  -> ReadVariant(u, data, f)
    [] f.kind = "tuple"    -> ReadTuple(u, data, f)
    [] f.kind = "queue"    -> ReadQueue(u, data, f)
    [] f.kind = "stack"    -> ReadStack(u, data, f)
    [] f.kind = "time"     -> ReadTime(u, data, f)
    [] f.kind = "atomic"   -> Store(u, data, f)
    [] f.kind = "bitset"   -> ReadBitset(u, data, f)

=============================================================================
