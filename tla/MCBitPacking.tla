---------------------------- MODULE MCBitPacking ----------------------------
(***************************************************************************)
(* Small fields for BitPacking: bytes of two bits and fields of one bit,   *)
(* of more than one and of more than two bytes; values whose low bits are  *)
(* zero, so that an empty scratch and a scratch of zeros differ, and zero, *)
(* with which the bytes of other programs are tried.                       *)
(***************************************************************************)
EXTENDS BitPacking

SomeBits  == { <<1, {}>>, <<3, {}>>, <<3, {0, 2}>>, <<5, {1, 4}>> }
SomeBytes == { <<1, {}>>, <<2, {2, 3}>> }

=============================================================================
