--------------------------- MODULE BitPackingOps ----------------------------
(***************************************************************************)
(* The bit-packing wrappers of the adapters                                *)
(* (include/bitsery/details/adapter_bit_packing.h) as operators.  A word   *)
(* of the machine is the set of the positions of its one bits, so that a   *)
(* shift moves the set, "or" is a union and a mask or a conversion to a    *)
(* narrower type cuts the set off.                                         *)
(***************************************************************************)
EXTENDS InputBufferOps, OutputBufferOps, FiniteSetsExt

CONSTANTS W,             \* bits in a byte (8 in the code)
          ScratchWidth,  \* bits in ScratchType: uint_fast16_t is 16 to 64 bits wide
          Endianness,    \* of the data: TConfig::Endianness
          WriterSystem,  \* the byte orders of the two machines
          ReaderSystem

EndiannessType == {"LittleEndian", "BigEndian"}

ASSUME WidthAssumption == W \in Nat \ {0} /\ ScratchWidth \in Nat /\ ScratchWidth >= 2 * W
ASSUME EndiannessAssumption == {Endianness, WriterSystem, ReaderSystem} \subseteq EndiannessType

Shl(x, n) == { b + n : b \in x }
Shr(x, n) == { b - n : b \in { c \in x : c >= n } }
Low(x, n) == { b \in x : b < n }

\* The number that a pattern of a byte's bits stands for, the highest bit
\* first, and the pattern of a number.
Patterns == SUBSET (0 .. W - 1)
Byte(x) ==
  LET upper[k \in 0 .. W] ==
        IF k = 0 THEN 0 ELSE 2 * upper[k - 1] + (IF W - k \in x THEN 1 ELSE 0)
  IN  upper[W]
Bytes  == { Byte(x) : x \in Patterns }
BitsOf == [ n \in Bytes |-> CHOOSE x \in Patterns : Byte(x) = n ]
Bits(n) == BitsOf[n]

Backwards(s) == [ i \in 1 .. Len(s) |-> s[Len(s) + 1 - i] ]

\* Joined: the value of bytes, the lowest first; Cut: its n bytes.
Joined(s) == UNION { Shl(Bits(s[i]), W * (i - 1)) : i \in 1 .. Len(s) }
Cut(x, n) == [ i \in 1 .. n |-> Byte(Low(Shr(x, W * (i - 1)), W)) ]

\* swap, where ShouldSwap holds, of a value's bytes in memory.
ShouldSwap(system) == Endianness # system
Swapped(s, system) == IF ShouldSwap(system) THEN Backwards(s) ELSE s

\* A value's n bytes in the memory of a machine, the lowest or the highest
\* first, and back.
InMemory(s, system) == IF system = "LittleEndian" THEN s ELSE Backwards(s)
ToBytes(x, n) == Swapped(InMemory(Cut(x, n), WriterSystem), WriterSystem)
FromBytes(s)  == Joined(InMemory(Swapped(s, ReaderSystem), ReaderSystem))

Smaller(m, n) == IF m < n THEN m ELSE n
Steps(n) == (n + W - 1) \div W

-----------------------------------------------------------------------------
(* OutputAdapterBitPackingWrapper.  The container grows by what is needed. *)
NewPacker(w) == [ w |-> w, scratch |-> {}, scratchBits |-> 0 ]

PutBytes(w, data) == WriteBytes(w, data, w.currOffset + Len(data), 0)

\* What is left of a value is not shifted with the scratch.
Join_Bug(p, x, n) ==
  LET scratch == Low(p.scratch \union Shl(x, p.scratchBits), ScratchWidth)
      full    == p.scratchBits + n
  IN  IF full < W
        THEN [ p EXCEPT !.scratch = scratch, !.scratchBits = full ]
        ELSE [ p EXCEPT !.w = PutBytes(p.w, << Byte(Low(scratch, W)) >>),
                        !.scratch = {}, !.scratchBits = full - W ]

\* One round of writeBitsInternal: n bits of x join the scratch, a full byte
\* leaves it.  The bits of x above n are joined as well.
Join(p, x, n) ==
  LET scratch == Low(p.scratch \union Shl(x, p.scratchBits), ScratchWidth)
      full    == p.scratchBits + n
  IN  IF full < W
        THEN [ p EXCEPT !.scratch = scratch, !.scratchBits = full ]
        ELSE [ p EXCEPT !.w = PutBytes(p.w, << Byte(Low(scratch, W)) >>),
                        !.scratch = Shr(scratch, W), !.scratchBits = full - W ]

\* writeBitsInternal, both overloads: a byte takes at most one round.
WriteBits(p, x, size) ==
  LET round[k \in 0 .. Steps(size)] ==
        IF k = 0 THEN p
        ELSE Join(round[k - 1], Shr(x, W * (k - 1)), Smaller(size - W * (k - 1), W))
  IN  round[Steps(size)]

\* The fast path is taken whenever the scratch is zero, not when it is empty
\* (the bug CHANGELOG.md reports fixed for readBytes).
PackBytes_Bug(p, x, n) ==
  IF p.scratch = {}
    THEN [ p EXCEPT !.w = PutBytes(p.w, ToBytes(x, n)) ]
    ELSE WriteBits(p, x, n * W)

\* writeBytes; writeBuffer is the same for one value after another.
PackBytes(p, x, n) ==
  IF p.scratchBits = 0
    THEN [ p EXCEPT !.w = PutBytes(p.w, ToBytes(x, n)) ]
    ELSE WriteBits(p, x, n * W)

AlignWrite(p) == WriteBits(p, {}, (W - p.scratchBits) % W)

\* currentWritePos(pos); the getter is that of the wrapped adapter.
PackSetPos(p, pos) ==
  LET q == AlignWrite(p) IN [ q EXCEPT !.w = SetWritePos(q.w, pos, pos, 0) ]

-----------------------------------------------------------------------------
(* BasicMeasureSizeBitPackingWrapper.                                      *)
NewMeasurePacker == [ m |-> NewMeasure, scratchBits |-> 0 ]

MeasureBytes(s, n) == [ s EXCEPT !.m = MeasureWrite(s.m, n) ]

MeasureBits(s, n) ==
  [ m |-> MeasureWrite(s.m, (s.scratchBits + n) \div W),
    scratchBits |-> (s.scratchBits + n) % W ]

\* The bits in the scratch are not counted.
MeasureAlign_Bug(s) == [ s EXCEPT !.scratchBits = 0 ]

MeasureAlign(s) ==
  IF s.scratchBits > 0
    THEN [ m |-> MeasureWrite(s.m, 1), scratchBits |-> 0 ]
    ELSE s

-----------------------------------------------------------------------------
(* InputAdapterBitPackingWrapper, over the bytes of data.                  *)
NewUnpacker(r) == [ r |-> r, scratch |-> {}, scratchBits |-> 0, res |-> {} ]

\* One round of readBitsInternal: n bits of the scratch become the bits of
\* the result from "at" on; a byte is fetched when there are fewer than n.
Draw(u, data, n, at) ==
  LET fetch   == u.scratchBits < n
      byte    == BytesRead(u.r, data, 1)
      scratch == IF fetch THEN u.scratch \union Shl(Bits(byte[1]), u.scratchBits)
                          ELSE u.scratch
      filled  == IF fetch THEN u.scratchBits + W ELSE u.scratchBits
  IN  [ r |-> IF fetch THEN ReadBytes(u.r, 1) ELSE u.r,
        res |-> u.res \union Shl(Low(scratch, n), at),
        scratch |-> Shr(scratch, n),
        scratchBits |-> filled - n ]

\* readBitsInternal; the value read is the result's "res".
ReadBits(u, data, size) ==
  LET round[k \in 0 .. Steps(size)] ==
        IF k = 0 THEN [ u EXCEPT !.res = {} ]
        ELSE Draw(round[k - 1], data, Smaller(size - W * (k - 1), W), W * (k - 1))
  IN  round[Steps(size)]

\* readBytes, readBuffer
UnpackBytes(u, data, n) ==
  IF u.scratchBits = 0
    THEN [ u EXCEPT !.r = ReadBytes(u.r, n),
                    !.res = FromBytes(BytesRead(u.r, data, n)) ]
    ELSE ReadBits(u, data, n * W)

\* The padding is dropped unseen (CheckDataErrors = false).
AlignRead_Unchecked_Bug(u, data) ==
  IF u.scratchBits = 0 THEN u ELSE ReadBits(u, data, u.scratchBits)

\* align: the padding has to be zero.
AlignRead(u, data) ==
  LET v == ReadBits(u, data, u.scratchBits)
  IN  IF u.scratchBits = 0 THEN u
      ELSE IF v.res = {} THEN v
      ELSE [ v EXCEPT !.r = RaiseError(v.r, InvalidData) ]

\* currentReadPos(pos); the getters and currentReadEndPos(pos) are those of
\* the wrapped adapter.
UnpackSetPos(u, data, pos) ==
  LET v == AlignRead(u, data) IN [ v EXCEPT !.r = SetReadPos(v.r, pos) ]

=============================================================================
