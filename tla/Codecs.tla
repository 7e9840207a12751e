------------------------------- MODULE Codecs -------------------------------
(***************************************************************************)
(* How sizes, compact values, values in a range, containers and the types  *)
(* of the standard library become bytes and bits: the functions of         *)
(* details/adapter_common.h, serializer.h, deserializer.h and of ext/ as   *)
(* operators on the bit-packing wrappers.  What the code spells with the   *)
(* eight bits of a byte (0x80u, 7u, 0x3Fu) is spelled with W here.         *)
(*                                                                         *)
(* A field f is a record: its kind, the parameters of the extension, and   *)
(* the value x the writer has.  A reader's result is the wrapper with the  *)
(* value in "res".  Numbers are integers, signed ones in two's complement. *)
(***************************************************************************)
EXTENDS BitPackingOps, SequencesExt

CONSTANTS Digits,  \* significant bits of a floating-point number
          Unit     \* how many of its smallest steps make 1

ASSUME FloatAssumption == Digits \in Nat \ {0} /\ Unit \in Nat \ {0}

Word(n, bytes) == { b \in 0 .. bytes * W - 1 : (n \div 2^b) % 2 = 1 }
Number(x)      == MapThenSumSet(LAMBDA b : 2^b, x)
Unsigned(v, bytes) == v % 2^(bytes * W)
Signed(n, bytes) ==
  LET m == n % 2^(bytes * W)
  IN  IF m < 2^(bytes * W - 1) THEN m ELSE m - 2^(bytes * W)

Put(p, n, bytes) == PackBytes(p, Word(n, bytes), bytes)
Get(u, data, bytes) == LET v == UnpackBytes(u, data, bytes)
                       IN  [ v EXCEPT !.res = Number(v.res) ]
Fail(u, value) == [ u EXCEPT !.r = RaiseError(u.r, InvalidData), !.res = value ]

\* The elements of a sequence, one after the other, each read by Read into
\* the result so far.
PutAll(p, s, bytes) == FoldLeft(LAMBDA q, n : Put(q, n, bytes), p, s)
GetAll(u, data, k, bytes) ==
  LET round[i \in 0 .. k] ==
        IF i = 0 THEN [ u EXCEPT !.res = << >> ]
        ELSE LET s == round[i - 1]
                 v == Get(s, data, bytes)
             IN  [ v EXCEPT !.res = Append(s.res, v.res) ]
  IN  round[k]

-----------------------------------------------------------------------------
(* writeSize, readSize: one, two or four bytes, told apart by the first    *)
(* two bits.                                                               *)
WriteSize(p, size) ==
  IF size < 2^(W - 1) THEN Put(p, size, 1)
  ELSE IF size < 2^(2 * W - 2)
    THEN Put(Put(p, size \div 2^W + 2^(W - 1), 1), size % 2^W, 1)
    ELSE Put(PutAll(p, << size \div 2^(3 * W) + 3 * 2^(W - 2),
                          (size \div 2^(2 * W)) % 2^W >>, 1),
             size % 2^(2 * W), 2)

\* The limit is not looked at.
LimitSize_Bug(u, maxSize) == u

\* handleReadMaxSize
LimitSize(u, maxSize) == IF u.res > maxSize THEN Fail(u, 0) ELSE u

\* hb and lb are the bytes read first: the second one joins the first, or
\* two more join both.
WideSize(hb, lb, data) ==
  LET lw == Get(lb, data, 2)
  IN  IF hb.res % 2^(W - 1) >= 2^(W - 2)
        THEN [ lw EXCEPT !.res = ((hb.res % 2^(W - 2)) * 2^W + lb.res) * 2^(2 * W) + @ ]
        ELSE [ lb EXCEPT !.res = (hb.res % 2^(W - 1)) * 2^W + @ ]

SizeAfter(hb, data) ==
  IF hb.res < 2^(W - 1) THEN hb ELSE WideSize(hb, Get(hb, data, 1), data)

ReadSize(u, data, maxSize) == LimitSize(SizeAfter(Get(u, data, 1), data), maxSize)

-----------------------------------------------------------------------------
(* CompactValue, CompactValueAsObject: groups of W - 1 bits, the lowest    *)
(* first, the top bit of a byte says that there is another.  f.bytes is    *)
(* the size of the type.                                                   *)
ZigZagEncode(v) == IF v >= 0 THEN 2 * v ELSE -2 * v - 1
ZigZagDecode(n) == IF n % 2 = 0 THEN n \div 2 ELSE -((n + 1) \div 2)

\* writeBytes
Groups(n) ==
  LET count == CHOOSE c \in 1 .. n + 1 : n < 2^(c * (W - 1)) /\ (c > 1 => n >= 2^((c - 1) * (W - 1)))
  IN  [ i \in 1 .. count |->
          ((n \div 2^((i - 1) * (W - 1))) % 2^(W - 1))
          + (IF i < count THEN 2^(W - 1) ELSE 0) ]

WriteCompact(p, f) ==
  IF f.bytes = 1 THEN Put(p, Unsigned(f.x, 1), 1)
  ELSE PutAll(p, Groups(IF f.signed THEN ZigZagEncode(f.x) ELSE f.x), 1)

\* readBytes: "left" is what the last byte read holds.
ReadGroups(u, data, bytes) ==
  LET more(s) == s.shiftedBy < bytes * W /\ s.left >= 2^(W - 1)
      step(s) == LET b == Get(s.u, data, 1)
                 IN  [ u |-> b, left |-> b.res, shiftedBy |-> s.shiftedBy + W - 1,
                       sum |-> s.sum + (b.res % 2^(W - 1)) * 2^s.shiftedBy ]
      round[k \in 0 .. bytes * W] ==
        IF k = 0 THEN [ u |-> u, left |-> 2^(W - 1), shiftedBy |-> 0, sum |-> 0 ]
        ELSE LET s == round[k - 1] IN IF more(s) THEN step(s) ELSE s
  IN  round[bytes * W]

\* The bits of the last byte that do not fit are counted without the one
\* that says that there is another.
Overflows_Bug(s, bytes) ==
  /\ s.shiftedBy > bytes * W
  /\ (s.left % 2^(W - 1)) \div 2^(bytes * W + W - s.shiftedBy) > 0

\* handleReadOverflow
Overflows(s, bytes) ==
  /\ s.shiftedBy > bytes * W
  /\ s.left \div 2^(bytes * W + W - 1 - s.shiftedBy) > 0

CompactResult(s, f) ==
  LET n == Unsigned(s.sum, f.bytes)
      v == IF f.signed THEN ZigZagDecode(n) ELSE n
  IN  IF f.checked /\ Overflows(s, f.bytes) THEN Fail(s.u, v)
                                            ELSE [ s.u EXCEPT !.res = v ]

ReadCompact(u, data, f) ==
  IF f.bytes = 1
    THEN [ Get(u, data, 1) EXCEPT !.res = IF f.signed THEN Signed(@, 1) ELSE @ ]
    ELSE CompactResult(ReadGroups(u, data, f.bytes), f)

-----------------------------------------------------------------------------
(* ValueRange of integers, and Entropy, whose index is a value in a range. *)
\* calcRequiredBits
RequiredBits(n) == CHOOSE b \in 0 .. n : n < 2^b /\ (b > 0 => n >= 2^(b - 1))

\* getRangeValue, setRangeValue, of integers and enumerations: what is added
\* up may not fit the type.
GetRangeValue(v, low)        == v - low
SetRangeValue(n, low, bytes) == Signed(n + low, bytes)
IsRangeValid(v, low, high)   == low <= v /\ v <= high

WriteRange(p, low, high, v) ==
  LET bits == RequiredBits(high - low)
  IN  WriteBits(p, Word(GetRangeValue(v, low), Steps(bits)), bits)

\* handleInvalidRange
HandleInvalidRange(u, low, high, v) ==
  IF IsRangeValid(v, low, high) THEN [ u EXCEPT !.res = v ] ELSE Fail(u, low)

ReadRange(u, data, low, high, bytes) ==
  LET r == ReadBits(u, data, RequiredBits(high - low))
  IN  HandleInvalidRange(r, low, high, SetRangeValue(Number(r.res), low, bytes))

(* ValueRange of floating-point numbers.  A number is an integer, how many *)
(* of the smallest steps of its type it is.  Every operation rounds to the *)
(* nearest number, of two to the even one.                                 *)

\* n / d, rounded.
Rounded(n, d) ==
  LET size  == IF n < 0 THEN -n ELSE n
      width == RequiredBits(size \div d)
      step  == IF width > Digits THEN 2^(width - Digits) ELSE 1
      m     == size \div (d * step)
      rest  == 2 * (size - m * d * step)
      near  == IF rest > d * step \/ (rest = d * step /\ m % 2 = 1) THEN m + 1 ELSE m
  IN  IF n < 0 THEN -(near * step) ELSE near * step

Float(k)       == Rounded(k * Unit, 1)
Quotient(a, b) == Rounded(a * Unit, b)
Product(a, b)  == Rounded(a * b, Unit)
Extent(f)      == Rounded(f.high - f.low, 1)

\* A range is declared with a precision, or else with a number of bits.
FloatBits(f) ==
  IF f.precision = 0 THEN f.bits ELSE RequiredBits(Quotient(Extent(f), f.precision) \div Unit)

MaxUint(bits) == 2^bits - 1

GetFloatRangeValue(f, bits) ==
  Product(Quotient(Rounded(f.x - f.low, 1), Extent(f)), Float(MaxUint(bits))) \div Unit

SetFloatRangeValue(n, f, bits) ==
  Rounded(f.low + Product(Quotient(Float(n), Float(MaxUint(bits))), Extent(f)), 1)

WriteFloat(p, f) ==
  LET bits == FloatBits(f)
  IN  WriteBits(p, Word(GetFloatRangeValue(f, bits), Steps(bits)), bits)

ReadFloat(u, data, f) ==
  LET r == ReadBits(u, data, FloatBits(f))
  IN  HandleInvalidRange(r, f.low, f.high,
                         SetFloatRangeValue(Number(r.res), f, FloatBits(f)))

\* findEntropyIndex
EntropyIndex(v, values) ==
  IF v \in Range(values)
    THEN CHOOSE i \in 1 .. Len(values) :
           values[i] = v /\ \A j \in 1 .. i - 1 : values[j] # v
    ELSE 0

WriteEntropy(p, f) ==
  LET index == EntropyIndex(f.x, f.values)
      q     == WriteRange(p, 0, Len(f.values), index)
      a     == IF f.align THEN AlignWrite(q) ELSE q
  IN  IF index = 0 THEN Put(a, f.x, 1) ELSE a

ReadListed(index, a, data, f) ==
  IF index = 0 THEN Get(a, data, 1) ELSE [ a EXCEPT !.res = f.values[index] ]

ReadEntropy(u, data, f) ==
  LET index == ReadRange(u, data, 0, Len(f.values), 2)
  IN  ReadListed(index.res, IF f.align THEN AlignRead(index, data) ELSE index, data, f)

=============================================================================
