---------------------------- MODULE ReaderErrors ----------------------------
(***************************************************************************)
(* enum class ReaderError (include/bitsery/details/adapter_common.h).  The *)
(* numeric codes matter: the buffer's adapter encodes them in its offsets, *)
(* and its error() casts to them.                                          *)
(***************************************************************************)
EXTENDS Integers

NoError        == 0
ReadingError   == 1
DataOverflow   == 2
InvalidData    == 3
InvalidPointer == 4
ReaderError    == NoError .. InvalidPointer
RealErrors     == ReaderError \ {NoError}

=============================================================================
