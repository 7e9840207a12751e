----------------------------- MODULE BitPacking -----------------------------
(***************************************************************************)
(* Serializer::enableBitPacking and Deserializer::enableBitPacking: a      *)
(* writer alternates between its plain adapter and the bit-packing wrapper *)
(* around it, which is destroyed, and so aligned, when the callback        *)
(* returns; a MeasureSize adapter is given the same calls.  Then a reader  *)
(* makes the calls the writer made, over all of the writer's bytes, a part *)
(* of them, or bytes another program wrote.                                *)
(*                                                                         *)
(* boolValue with bit packing enabled is writeBits or readBits of one bit, *)
(* and is one of the BitFields here.                                       *)
(***************************************************************************)
EXTENDS BitPackingOps, SequencesExt

CONSTANTS BitFields,   \* what writeBits writes: <<bits, value>>
          ByteFields,  \* what writeBytes writes: <<bytes, value>>
          MaxOps       \* bound: calls made

ASSUME FieldsAssumption ==
  /\ \A f \in BitFields : f[1] \in Nat \ {0} /\ f[2] \subseteq 0 .. f[1] - 1
  /\ \A f \in ByteFields : f[1] \in Nat \ {0} /\ f[2] \subseteq 0 .. f[1] * W - 1
ASSUME BoundsAssumption == MaxOps \in Nat

VARIABLES
  phase,     \* "writing", "reading", "done"
  packing,   \* whether bit packing is enabled
  packer,    \* the output adapter in its wrapper
  measure,   \* the MeasureSize adapter in its wrapper
  calls,     \* ghost: the calls made, in order
  data,      \* the bytes the reader was given
  unpacker,  \* the input adapter in its wrapper
  got        \* the value each of the reader's calls returned

vars == <<phase, packing, packer, measure, calls, data, unpacker, got>>
writerVars == <<packer, measure, calls>>

Init == /\ phase = "writing" /\ packing = FALSE
        /\ packer = NewPacker(NewWriter(<< >>)) /\ measure = NewMeasurePacker
        /\ calls = << >> /\ data = << >>
        /\ unpacker = NewUnpacker(NewReader(0)) /\ got = << >>

Call(op, n, x) ==
  /\ phase = "writing" /\ Len(calls) < MaxOps
  /\ calls' = Append(calls, [ op |-> op, n |-> n, x |-> x ])
  /\ UNCHANGED <<phase, data, unpacker, got>>

\* A wrapper exists from here on; it is empty.
EnableWrite == /\ ~packing /\ Call("enable", 0, {})
               /\ packing' = TRUE
               /\ packer' = NewPacker(packer.w)
               /\ measure' = [ measure EXCEPT !.scratchBits = 0 ]

\* Its destructor.
DisableWrite == /\ packing /\ Call("disable", 0, {})
                /\ packing' = FALSE
                /\ packer' = AlignWrite(packer) /\ measure' = MeasureAlign(measure)

PutBits(n, x) == /\ packing /\ Call("bits", n, x)
                 /\ packer' = WriteBits(packer, x, n)
                 /\ measure' = MeasureBits(measure, n)
                 /\ UNCHANGED packing

\* Through the wrapper or, when there is none, straight to the adapter.
PutValue(n, x) == /\ Call("bytes", n, x)
                  /\ packer' = PackBytes(packer, x, n)
                  /\ measure' = MeasureBytes(measure, n)
                  /\ UNCHANGED packing

\* boolValue without bit packing: a byte.
PutBool(x) == /\ ~packing /\ Call("bool", 1, x)
              /\ packer' = PackBytes(packer, x, 1)
              /\ measure' = MeasureBytes(measure, 1)
              /\ UNCHANGED packing

Align == /\ packing /\ Call("align", 0, {})
         /\ packer' = AlignWrite(packer) /\ measure' = MeasureAlign(measure)
         /\ UNCHANGED packing

\* What may reach the reader: the writer's bytes, the first of them, or any
\* bytes in their place.  The last do not depend on the values written, so
\* the values are then all zero.
Arrivals ==
  LET bytes == packer.w.bytes
  IN  { SubSeq(bytes, 1, n) : n \in 0 .. Len(bytes) } \union
      IF \A i \in 1 .. Len(calls) : calls[i].x = {}
        THEN [ 1 .. Len(bytes) -> Bytes ] ELSE {}

Deliver ==
  /\ phase = "writing" /\ ~packing
  /\ phase' = "reading"
  /\ data' \in Arrivals
  /\ unpacker' = NewUnpacker(NewReader(Len(data')))
  /\ UNCHANGED <<packing, writerVars, got>>

-----------------------------------------------------------------------------
Now == calls[Len(got) + 1]

Returns(u) == unpacker' = u /\ got' = Append(got, u.res)

Repeat(op) == /\ phase = "reading" /\ Len(got) < Len(calls) /\ Now.op = op
              /\ UNCHANGED <<phase, writerVars, data>>

EnableRead == /\ Repeat("enable") /\ packing' = TRUE
              /\ unpacker' = NewUnpacker(unpacker.r) /\ got' = Append(got, {})

\* Its destructor.
DisableRead == /\ Repeat("disable") /\ packing' = FALSE
               /\ Returns([ AlignRead(unpacker, data) EXCEPT !.res = {} ])

GetBits == /\ Repeat("bits") /\ UNCHANGED packing
           /\ Returns(ReadBits(unpacker, data, Now.n))

GetValue == /\ Repeat("bytes") /\ UNCHANGED packing
            /\ Returns(UnpackBytes(unpacker, data, Now.n))

\* procBoolValue: a byte above 1 is an error, and reads as false.
BoolFrom(u) == IF u.res \subseteq {0} THEN u
               ELSE [ u EXCEPT !.r = RaiseError(u.r, InvalidData), !.res = {} ]

GetBool == /\ Repeat("bool") /\ UNCHANGED packing
           /\ Returns(BoolFrom(UnpackBytes(unpacker, data, 1)))

AlignInput == /\ Repeat("align") /\ UNCHANGED packing
              /\ Returns([ AlignRead(unpacker, data) EXCEPT !.res = {} ])

Finish == /\ phase = "reading" /\ Len(got) = Len(calls)
          /\ phase' = "done"
          /\ UNCHANGED <<packing, writerVars, data, unpacker, got>>

Next == \/ EnableWrite \/ DisableWrite \/ Align
        \/ \E f \in BitFields : PutBits(f[1], f[2])
        \/ \E f \in ByteFields : PutValue(f[1], f[2])
        \/ \E x \in { {}, {0} } : PutBool(x)
        \/ Deliver
        \/ EnableRead \/ DisableRead \/ AlignInput
        \/ GetBits \/ GetValue \/ GetBool
        \/ Finish

Spec == Init /\ [][Next]_vars

-----------------------------------------------------------------------------
\* Types.  Both wrappers keep less than a byte back, and nothing above the
\* bits they count: what is joined to the scratch next would be mixed with
\* it otherwise.
TypeOK ==
  /\ packer.w \in Writer(Bytes) /\ unpacker.r \in Reader
  /\ \A s \in {packer, unpacker} :
       s.scratchBits \in 0 .. W - 1 /\ s.scratch \subseteq 0 .. s.scratchBits - 1
  /\ data \in Seq(Bytes)

Whole == phase # "writing" /\ data = packer.w.bytes
Part  == phase # "writing" /\ IsPrefix(data, packer.w.bytes)

\* Whatever was written aligned or unaligned, through the wrapper or around
\* it, the reader gets back, without an error and with every byte consumed.
RoundTrip ==
  Whole => /\ \A i \in 1 .. Len(got) : got[i] = calls[i].x
           /\ GetError(unpacker.r) = NoError
           /\ phase = "done" => IsCompletedSuccessfully(unpacker.r)

\* MeasureSize stays in step with the buffer adapter, down to the bits that
\* are not a byte yet, although the two wrappers count in different ways
\* (CHANGELOG.md, #91).
MeasuredInStep ==
  /\ MeasuredBytesCount(measure.m) = WrittenBytesCount(packer.w)
  /\ measure.scratchBits = packer.scratchBits

\* A reader that got a part of the bytes returns right values up to the
\* first that is not complete; that one is an error, though its first bits
\* were there, and no value that differs comes without one.
TruncationIsNoticed ==
  Part =>
  /\ GetError(unpacker.r) = NoError => \A i \in 1 .. Len(got) : got[i] = calls[i].x
  /\ phase = "done" /\ Len(data) < WrittenBytesCount(packer.w)
       => GetError(unpacker.r) # NoError /\ ~IsCompletedSuccessfully(unpacker.r)

\* What a writer of the reader's calls would have written for its values.
Rewritten ==
  LET Again(i, p) ==
        CASE calls[i].op = "bits" -> WriteBits(p, got[i], calls[i].n)
          [] calls[i].op \in {"bytes", "bool"} -> PackBytes(p, got[i], calls[i].n)
          [] calls[i].op \in {"align", "disable"} -> AlignWrite(p)
          [] OTHER -> p
      after[i \in 0 .. Len(calls)] ==
        IF i = 0 THEN NewPacker(NewWriter(<< >>)) ELSE Again(i, after[i - 1])
  IN  after[Len(calls)].w.bytes

\* Reading is canonical: bytes from anywhere that are read without an error
\* are the bytes a writer writes for the values that were read.  This is
\* what the checks of the padding and of Boolean bytes are for.
AcceptsOnlyWritten ==
  phase = "done" /\ GetError(unpacker.r) = NoError => Rewritten = data

\* The bytes written and the bits kept back are the stream of bits the
\* calls describe.
Written ==
  [ i \in 1 .. W * Len(packer.w.bytes) + packer.scratchBits |->
      LET byte == (i - 1) \div W
          bit  == (i - 1) % W
          bits == IF byte < Len(packer.w.bytes) THEN Bits(packer.w.bytes[byte + 1])
                                                ELSE packer.scratch
      IN  IF bit \in bits THEN 1 ELSE 0 ]

Stream == INSTANCE BitStream WITH
  bits <- Written,
  Fields <- BitFields \union { <<f[1] * W, f[2]>> : f \in ByteFields }
                      \union { <<W, {}>>, <<W, {0}>> }

ImplementsStream == Stream!Spec

=============================================================================
